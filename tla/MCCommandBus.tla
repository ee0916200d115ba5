---------------------------- MODULE MCCommandBus ----------------------------
(***************************************************************************)
(* Instances of CommandBus for TLC.                                          *)
(***************************************************************************)
EXTENDS CommandBus

CONSTANTS c1, c2

Two == {c1, c2}

\* Both commands are of one type and for one aggregate.
OneType  == [c \in Commands |-> "t1"]
OneShard == [c \in Commands |-> 0]

=============================================================================
