--------------------------- MODULE AtomicCommands ---------------------------
(***************************************************************************)
(* What the command handler promises about concurrent commands               *)
(* (docs/explanation/concurrency.md): however calls interleave, a call       *)
(* appends only when the events it decided on are the whole of its stream.   *)
(* Nothing decided on a stale history reaches the log, and a call appends    *)
(* once or not at all.                                                       *)
(***************************************************************************)
EXTENDS Naturals, Sequences

CONSTANTS Calls, Streams, Record

VARIABLES
    log,        \* [Streams -> Seq(Record)]
    seen,       \* [Calls -> Seq(Record)]: the history the call decides on
    done        \* [Calls -> {"open", "appended", "returned"}]

vars == <<log, seen, done>>

Init ==
    /\ log  = [s \in Streams |-> <<>>]
    /\ seen = [c \in Calls |-> <<>>]
    /\ done = [c \in Calls |-> "open"]

\* An open call reads the whole of its stream.
Read(c) ==
    /\ done[c] = "open"
    /\ \E s \in Streams : seen' = [seen EXCEPT ![c] = log[s]]
    /\ UNCHANGED <<log, done>>

\* A step that only adds records, at the end of stream s.
Extends(s) ==
    /\ log' = [log EXCEPT ![s] = log'[s]]
    /\ log'[s] \in Seq(Record)
    /\ Len(log'[s]) > Len(log[s])
    /\ \A i \in DOMAIN log[s] : log'[s][i] = log[s][i]

\* It appends while what it read is still everything there is.
Commit(c) ==
    /\ done[c] = "open"
    /\ \E s \in Streams : seen[c] = log[s] /\ Extends(s)
    /\ done' = [done EXCEPT ![c] = "appended"]
    /\ UNCHANGED seen

\* Or it ends without appending; a failed call's history is forgotten.
Return(c) ==
    /\ done[c] = "open"
    /\ done' = [done EXCEPT ![c] = "returned"]
    /\ seen' \in {seen, [seen EXCEPT ![c] = <<>>]}
    /\ UNCHANGED log

\* Code that calls Save itself may append at any time.
OtherWriter ==
    /\ \E s \in Streams : Extends(s)
    /\ UNCHANGED <<seen, done>>

\* Close discards the log.
Discard ==
    /\ log' = [s \in Streams |-> <<>>]
    /\ UNCHANGED <<seen, done>>

Next ==
    \/ \E c \in Calls : Read(c) \/ Commit(c) \/ Return(c)
    \/ OtherWriter
    \/ Discard

Spec == Init /\ [][Next]_vars

=============================================================================
