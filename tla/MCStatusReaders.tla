---------------------------- MODULE MCStatusReaders ----------------------------
(***************************************************************************)
(* An instance of StatusReaders for TLC.                                     *)
(***************************************************************************)
EXTENDS StatusReaders

=============================================================================
