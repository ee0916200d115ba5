-------------------------- MODULE MCCommandHandler --------------------------
(***************************************************************************)
(* Instances of CommandHandler for TLC.                                      *)
(***************************************************************************)
EXTENDS CommandHandler

CONSTANTS c1, c2, direct

Two          == {c1, c2}
TwoAndDirect == {c1, c2, direct}

AllModes == {AnyState, NoStream, StreamExists, Revision(0), Revision(1)}
Pinned   == {Revision(1)}

=============================================================================
