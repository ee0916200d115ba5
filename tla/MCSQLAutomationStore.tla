------------------------ MODULE MCSQLAutomationStore ------------------------
(***************************************************************************)
(* An instance of SQLAutomationStore for TLC.                                *)
(***************************************************************************)
EXTENDS SQLAutomationStore

CONSTANTS i1, i2

OneGroup == [k \in Segments |-> "g"]

\* A segment that was served is given back for the others, an idle one is
\* paused until the next poll.
TwoEnds == {<<0, TRUE>>, <<1, FALSE>>}

\* The time a call may wait.
MinusOne == -1

=============================================================================
