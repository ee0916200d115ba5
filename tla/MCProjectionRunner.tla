------------------------- MODULE MCProjectionRunner -------------------------
(***************************************************************************)
(* Instances of ProjectionRunner for TLC.                                    *)
(***************************************************************************)
EXTENDS ProjectionRunner

CONSTANTS a, b

One == {a}
Two == {a, b}

ByInstance == [i \in Instances |-> i]
Shared     == [i \in Instances |-> a]

SameVersion == [i \in Instances |-> 1]
NewerB      == [i \in Instances |-> IF i = b THEN 2 ELSE 1]

\* Events go to the segments in turn; with one segment, all to it.
InTurn    == [p \in 1..MaxHead |-> p % 2]
Unsharded == [p \in 1..MaxHead |-> 0]

=============================================================================
