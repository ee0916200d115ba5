----------------------------- MODULE EventStore -----------------------------
(***************************************************************************)
(* The in-memory event store, memory/eventstore.go, behind the EventStore   *)
(* interface of eventstore.go.                                              *)
(*                                                                          *)
(* The Go store keeps a pointer to every appended record twice: in the      *)
(* slice of its stream (`events`) and in the slice of the whole log          *)
(* (`global`).  A record never changes once appended, so the model keeps     *)
(* its value in both.  A payload is the name of whoever saved it.            *)
(*                                                                          *)
(* Save and Close run under the store's write lock and LoadStreamFrom takes  *)
(* its snapshot under the read lock, so each is one atomic step.             *)
(***************************************************************************)
EXTENDS StreamState, Sequences, FiniteSets

CONSTANTS
    Streams,        \* stream IDs
    Writers         \* who may save an event: the payload of a record

VARIABLES
    events,         \* [Streams -> Seq(Record)]: the records of a stream
    global,         \* Seq(Record): every record, in append order
    closed          \* Close has been called

storeVars == <<events, global, closed>>

Record == [stream : Streams, version : Nat, pos : Nat, by : Writers]

-----------------------------------------------------------------------------

StoreInit ==
    /\ events = [s \in Streams |-> <<>>]
    /\ global = <<>>
    /\ closed = FALSE

(***************************************************************************)
(* Save appends a batch of n records by w to stream s, or nothing.           *)
(***************************************************************************)
SaveAccepted(s, revision) == ~closed /\ Expected(revision, Len(events[s]))

SaveConflict(s, revision) ==
    ~closed /\ revision.kind = "Revision" /\ Len(events[s]) # revision.rev

\* ErrStreamExists, ErrStreamNotFound, or the store is closed.
SaveRefused(s, revision) ==
    closed \/ (revision.kind # "Revision" /\ ~Expected(revision, Len(events[s])))

Batch(s, n, w) ==
    [i \in 1..n |-> [stream |-> s, version |-> Len(events[s]) + i,
                     pos |-> Len(global) + i, by |-> w]]

AppendBatch(s, n, w) ==
    /\ events' = [events EXCEPT ![s] = @ \o Batch(s, n, w)]
    /\ global' = global \o Batch(s, n, w)
    /\ UNCHANGED closed

(***************************************************************************)
(* LoadStreamFrom: the preconditions of a load, and the records it yields.   *)
(* A Revision(n) resumes strictly after the first n records.                 *)
(***************************************************************************)
LoadAccepted(s, from) ==
    \/ from.kind = "Any"
    \/ from.kind = "NoStream"     /\ events[s] = <<>>
    \/ from.kind = "StreamExists" /\ events[s] # <<>>
    \/ from.kind = "Revision"     /\ from.rev <= Len(events[s])

LoadOffset(from) == IF from.kind = "Revision" THEN from.rev ELSE 0

Loaded(s, from) == SubSeq(events[s], LoadOffset(from) + 1, Len(events[s]))

(***************************************************************************)
(* Close discards every record; a second Close does nothing.                 *)
(***************************************************************************)
StoreClose ==
    /\ ~closed
    /\ closed' = TRUE
    /\ events' = [s \in Streams |-> <<>>]
    /\ global' = <<>>

-----------------------------------------------------------------------------

StoreTypeOK ==
    /\ events \in [Streams -> Seq(Record)]
    /\ global \in Seq(Record)
    /\ closed \in BOOLEAN

=============================================================================
