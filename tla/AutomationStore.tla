--------------------------- MODULE AutomationStore ---------------------------
(***************************************************************************)
(* The state an automation's instances share, automation/store.go, as       *)
(* memory/automation_store.go keeps it: every call runs under one mutex.     *)
(*                                                                          *)
(* Times are relative to the present: an instant t is t units from now, and  *)
(* Tick brings every instant one unit nearer. Instants longer ago than       *)
(* Oldest are not told apart. A call judges leases and pauses at an instant  *)
(* "at", which is 0 where the store reads its clock under its lock.          *)
(***************************************************************************)
EXTENDS Integers, Sequences, FiniteSets, FiniteSetsExt, SequencesExt

CONSTANTS
    Segments,       \* segment keys, a finite set of numbers
    Group,          \* [Segments -> tenants]
    Owners,         \* instances
    None,           \* no owner
    TTL,            \* the lease Acquire and Renew give
    Pauses,         \* how long a segment may be paused for
    Epochs,         \* epochs are counted modulo this
    Oldest          \* the least instant

ASSUME StoreAssumption ==
    /\ Segments \subseteq Nat /\ IsFiniteSet(Segments)
    /\ None \notin Owners
    /\ TTL \in Nat \ {0} /\ Pauses \subseteq Nat
    /\ Epochs \in Nat \ {0, 1}
    /\ Oldest \in Int /\ Oldest <= 0

VARIABLES
    rows,           \* the row of each segment
    line            \* the segments seen, the longest waiting first

storeVars == <<rows, line>>

Instants == Oldest .. Max(Pauses \cup {TTL})

\* The lease of a segment as its holder keeps it.
Leases == [key : Segments, owner : Owners, epoch : 0 .. Epochs - 1]

NewRow == [owner |-> None, epoch |-> 0, leaseUntil |-> Oldest,
           pausedTill |-> Oldest, served |-> FALSE]

StoreTypeOK ==
    /\ rows \in [Segments -> [owner : Owners \cup {None}, epoch : 0 .. Epochs - 1,
                              leaseUntil : Instants, pausedTill : Instants,
                              served : BOOLEAN]]
    /\ line \in Seq(Segments) /\ IsInjective(line)

StoreInit == rows = [k \in Segments |-> NewRow] /\ line = <<>>

-----------------------------------------------------------------------------

heldAt(r, at) == r.owner # None /\ r.leaseUntil > at

pausedAt(r, at) == r.pausedTill > at

\* The later of a pause already set and one of d from at.
Longer(r, d, at) == IF at + d > r.pausedTill THEN at + d ELSE r.pausedTill

\* The instant a key waits since, as its place among the others: when it was
\* last served or, before that, first seen.
waited(ln, k) == CHOOSE n \in 1..Len(ln) : ln[n] = k

\* Keys seen for the first time wait from now on, in key order.
Seen(ln, keys) == ln \o SetToSortSeq(keys \ ToSet(ln), <)

\* Keys served now go to the end.
ServedNow(ln, keys) ==
    SelectSeq(ln, LAMBDA k : k \notin keys) \o SetToSortSeq(keys, <)

\* Whether the candidate j is granted before k: round robin across groups,
\* by the last turn of any of the group's keys, each group's first key before
\* any group's second.
Before(rs, ln, cands, j, k) ==
    LET Mates(x) == {y \in cands : Group[y] = Group[x]}
        Rank(x)  == Cardinality({y \in Mates(x) : waited(ln, y) < waited(ln, x)})
        Had(x)   == {y \in Mates(x) : rs[y].served}
        Turn(x)  == IF Had(x) # {} THEN Max({waited(ln, y) : y \in Had(x)})
                                   ELSE Min({waited(ln, y) : y \in Mates(x)})
    IN Rank(j) < Rank(k) \/ (Rank(j) = Rank(k) /\ Turn(j) < Turn(k))

Eligible(rs, cands, at) == {k \in cands : ~pausedAt(rs[k], at) /\ ~heldAt(rs[k], at)}

\* The keys Acquire grants: the first max of the eligible candidates.
Granted(rs, ln, cands, max, at) ==
    LET E == Eligible(rs, cands, at) IN
    IF Cardinality(E) <= max THEN E
    ELSE {k \in E : Cardinality({j \in E : Before(rs, ln, cands, j, k)}) < max}

GrantOne(r, o, at) ==
    [r EXCEPT !.owner = o, !.epoch = (@ + 1) % Epochs, !.leaseUntil = at + TTL]

GrantTo(rs, keys, o, at) ==
    [k \in Segments |-> IF k \in keys THEN GrantOne(rs[k], o, at) ELSE rs[k]]

Fences(rs, l) == rs[l.key].owner = l.owner /\ rs[l.key].epoch = l.epoch

\* The leases in held that Renew extends; it reports the others as lost.
Renewable(rs, held, at) == {l \in held : Fences(rs, l) /\ rs[l.key].leaseUntil > at}

RenewTo(rs, held, at) ==
    [k \in Segments |-> IF \E l \in Renewable(rs, held, at) : l.key = k
                        THEN [rs[k] EXCEPT !.leaseUntil = at + TTL]
                        ELSE rs[k]]

\* A released row, paused for d.
ReleaseOne(r, d, served, at) ==
    [r EXCEPT !.owner = None, !.leaseUntil = Oldest,
              !.pausedTill = IF d > 0 THEN Longer(r, d, at) ELSE @,
              !.served = @ \/ served]

\* What Release does with a set of requests [lease, deferFor, served].
Released(rs, rel) == {q \in rel : Fences(rs, q.lease)}

ReleaseTo(rs, rel, at) ==
    LET Of(k) == {q \in Released(rs, rel) : q.lease.key = k} IN
    [k \in Segments |->
        IF Of(k) = {} THEN rs[k]
        ELSE LET q == CHOOSE q \in Of(k) : TRUE IN
             ReleaseOne(rs[k], q.deferFor, q.served, at)]

ReleaseLine(rs, ln, rel) ==
    ServedNow(ln, {q.lease.key : q \in {p \in Released(rs, rel) : p.served}})

DeferTo(rs, k, d, at) == [rs EXCEPT ![k].pausedTill = Longer(rs[k], d, at)]

\* One unit of time passes for an instant.
Nearer(t) == IF t = Oldest THEN t ELSE t - 1

Aged(rs) == [k \in Segments |-> [rs[k] EXCEPT !.leaseUntil = Nearer(@),
                                              !.pausedTill = Nearer(@)]]

-----------------------------------------------------------------------------
(* The calls, each in one step.                                              *)

Acquire(o, cands, max, at) ==
    LET ln == Seen(line, cands) IN
    /\ line' = ln
    /\ rows' = GrantTo(rows, Granted(rows, ln, cands, max, at), o, at)

Renew(held, at) == rows' = RenewTo(rows, held, at) /\ UNCHANGED line

Release(rel, at) ==
    /\ rows' = ReleaseTo(rows, rel, at)
    /\ line' = ReleaseLine(rows, line, rel)

Defer(k, d, at) == rows' = DeferTo(rows, k, d, at) /\ line' = Seen(line, {k})

Pass == rows' = Aged(rows) /\ UNCHANGED line

\* The lease on k that is current, if o is its owner; a stale one changes
\* nothing.
Current(o, k) == [key |-> k, owner |-> o, epoch |-> rows[k].epoch]

StoreNext ==
    \E at \in Oldest .. 0, o \in Owners, keys \in SUBSET Segments :
      \/ \E max \in 0 .. Cardinality(Segments) : Acquire(o, keys, max, at)
      \/ Renew({Current(o, k) : k \in keys}, at)
      \/ \E d \in [keys -> Pauses \cup {0}], served \in [keys -> BOOLEAN] :
           Release({[lease |-> Current(o, k), deferFor |-> d[k], served |-> served[k]]
                      : k \in keys}, at)
      \/ \E k \in keys, d \in Pauses : Defer(k, d, at)
      \/ Pass

StoreSpec == StoreInit /\ [][StoreNext]_storeVars

=============================================================================
