----------------------------- MODULE MCEventStores -----------------------------
(***************************************************************************)
(* Instances of EventStores for TLC.                                         *)
(***************************************************************************)
EXTENDS EventStores, TLC

CONSTANTS w1, w2, s1, s2, s3, r1, l1, b1

TwoSavers == {w1, w2}

\* The first two streams share a lock.
ThreeStreams == {s1, s2, s3}
Colliding == [s \in Streams |-> IF s = s3 THEN 1 ELSE 0]

AllModes == {AnyState, NoStream, StreamExists, Revision(0), Revision(1)}

Call(s, m, n) == [stream |-> s, mode |-> m, size |-> n]
Load(c, s, m) == [chain |-> c, stream |-> s, from |-> m]

\* The first saver works on s1, with one event or two.
Pairs(streams, modes1, modes2) ==
    {[w \in TwoSavers |-> IF w = w1 THEN Call(s1, m1, n) ELSE Call(s, m2, 1)] :
        m1 \in modes1, m2 \in modes2, s \in streams, n \in 1..2}

Early == {AnyState, NoStream}
Late == AllModes \ {NoStream}

Setup(backend, conns, calls) ==
    [backend |-> backend, conns |-> conns, wrapped |-> FALSE, attempts |-> 1,
     records |-> 1, calls |-> calls, loads |-> <<>>, readers |-> {}, browsers |-> {}]

Backends == {"memory", "sqlite", "postgres", "kurrentdb"}

\* Savers that race, and a reader that follows them.
Followed ==
    {[Setup("postgres", 3, calls) EXCEPT !.readers = {r1}] :
        calls \in Pairs(Streams, Early, Late)} \cup
    {[Setup(backend, 1, calls) EXCEPT !.readers = {r1}] :
        backend \in Backends \ {"postgres"}, calls \in Pairs({s1}, Early, Late)} \cup
    {[Setup("kurrentdb", 1, calls) EXCEPT !.attempts = 2, !.records = 0, !.readers = {r1}] :
        calls \in Pairs({s1}, Early, Late)}

\* A load beside two savers, with a pool that one iterator uses up.
Loaded ==
    {[Setup(backend, 1, calls) EXCEPT !.wrapped = wrapped, !.records = 0,
                                      !.loads = (l1 :> Load(FALSE, s1, m))] :
        backend \in Backends, wrapped \in BOOLEAN, m \in AllModes,
        calls \in Pairs({s1}, {AnyState}, {AnyState})} \cup
    {[Setup(backend, 1, calls) EXCEPT !.loads = (l1 :> Load(TRUE, s1, AnyState))] :
        backend \in Backends \ {"kurrentdb"}, calls \in Pairs({s2}, {AnyState}, {AnyState})}

\* A walk backwards beside two savers.
Browsed ==
    {[Setup(backend, 2, calls) EXCEPT !.browsers = {b1}] :
        backend \in Backends, calls \in Pairs({s1}, {AnyState}, {AnyState})}

AllSetups == Followed \cup Loaded \cup Browsed

=============================================================================
