----------------------------- MODULE StreamState -----------------------------
(***************************************************************************)
(* The stream states of revision.go, and the check every event store makes   *)
(* of them in Save.                                                          *)
(***************************************************************************)
EXTENDS Naturals

(***************************************************************************)
(* What a caller expects of a stream.  `rev` is only looked at               *)
(* when the kind is "Revision".                                              *)
(***************************************************************************)
StreamStates == [kind : {"Any", "NoStream", "StreamExists", "Revision"}, rev : Nat]

AnyState     == [kind |-> "Any", rev |-> 0]
NoStream     == [kind |-> "NoStream", rev |-> 0]
StreamExists == [kind |-> "StreamExists", rev |-> 0]
Revision(n)  == [kind |-> "Revision", rev |-> n]

(***************************************************************************)
(* The revision switch of Save, on a stream of length `current`.             *)
(***************************************************************************)
Expected(revision, current) ==
    \/ revision.kind = "Any"
    \/ revision.kind = "NoStream"     /\ current = 0
    \/ revision.kind = "StreamExists" /\ current # 0
    \/ revision.kind = "Revision"     /\ current = revision.rev

==============================================================================
