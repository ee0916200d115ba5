--------------------------- MODULE MCMembership ---------------------------
(***************************************************************************)
(* Instances of Membership for TLC.                                          *)
(***************************************************************************)
EXTENDS Membership

Same    == [i \in Instances |-> 1]
Rollout == [i \in Instances |-> IF i = 1 THEN 1 ELSE 2]

\* A failure while two instances share two segments, of one Version or in a
\* rollout; one segment for both of them; three, so that one has more; and
\* heartbeats that fall into claims.
Failing == [run |-> {1, 2}, version |-> Same, segments |-> 2, overlap |-> FALSE,
            maxFaults |-> 1]
Uneven  == [Failing EXCEPT !.segments = 3, !.maxFaults = 0]
Overlap == [Failing EXCEPT !.overlap = TRUE, !.maxFaults = 0]

AllSetups ==
    {Failing, [Failing EXCEPT !.version = Rollout], [Failing EXCEPT !.segments = 1],
     Uneven, Overlap}

=============================================================================
