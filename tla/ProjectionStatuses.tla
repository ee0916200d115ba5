-------------------------- MODULE ProjectionStatuses --------------------------
(***************************************************************************)
(* The statuses of one projection as a store keeps them: what the readers of  *)
(* projection/probe.go and dashboard/hub.go poll.  The store is modelled with *)
(* its past, so that a property can say when what a reader tells was true.    *)
(***************************************************************************)
EXTENDS Naturals, Sequences, FiniteSets

CONSTANTS
    Segments,       \* the projection's segments
    MaxPosition,    \* bound on the log
    MaxChanges,     \* bound on the changes of the store
    MaxStarts       \* bound on the goroutines started to read

ASSUME StatusesAssumption ==
    /\ Segments # {}
    /\ {MaxPosition, MaxChanges} \subseteq Nat
    /\ MaxStarts \in Nat \ {0}

VARIABLE
    history         \* what the store held, oldest first: no status, or positions

Statuses == {<<>>} \cup [Segments -> 0..MaxPosition]

Generations == 1..MaxStarts

Now == Len(history)

StoreInit == \E statuses \in Statuses : history = <<statuses>>

Becomes(statuses) == Now <= MaxChanges /\ history' = Append(history, statuses)

\* A runner declares the segments.
Declare ==
    /\ history[Now] = <<>>
    /\ Becomes([s \in Segments |-> 0])

\* A commit moves a segment on and publishes its status with it.
Advance(s) ==
    /\ history[Now] # <<>>
    /\ history[Now][s] < MaxPosition
    /\ Becomes([history[Now] EXCEPT ![s] = @ + 1])

\* A rebuild moves every segment back to the start.
Reset ==
    /\ history[Now] # <<>>
    /\ Becomes([s \in Segments |-> 0])

StoreNext == Declare \/ Reset \/ \E s \in Segments : Advance(s)

=============================================================================
