-------------------------- MODULE PostgresEventStore --------------------------
(***************************************************************************)
(* The PostgreSQL event store, postgres/eventstore.go.                       *)
(*                                                                          *)
(* A row gets its id from a sequence when it is inserted and becomes visible *)
(* when its transaction commits; ids of a rolled-back transaction are holes. *)
(* Two advisory locks order the transactions: one per stream, one for every  *)
(* append.  Transactions and open iterators hold a connection of the pool.   *)
(***************************************************************************)
EXTENDS EventLog

MutantInTransaction(w) == pc[w] \in {"begun", "locked", "checked", "inserting", "done"}

InTransaction(w) == pc[w] \in {"begun", "locked", "checked", "inserting"}

\* The pool has a connection to spare.
FreeConn ==
    Cardinality({w \in Saving : InTransaction(w)})
        + Cardinality({l \in Loading : load[l].pc = "open" /\ From(l).kind # "NoStream"})
        < setup.conns

\* pg_advisory_xact_lock: held until the transaction ends.
HoldsStreamLock(w, s) ==
    hashtext[stream(w)] = hashtext[s] /\ pc[w] \in {"locked", "checked", "inserting"}

MutantAppendLockForId(w) == pc[w] = "inserting" /\ pending[w] = {}

HoldsAppendLock(w) == pc[w] = "inserting"

Step(w, from, to) ==
    /\ pc[w] = from
    /\ pc' = [pc EXCEPT ![w] = to]
    /\ UNCHANGED <<setup, table, nextId, currentVersion, nextVersion, pending,
                   outcome, grpc, readVars, load, browse>>

Begin(w) == FreeConn /\ Step(w, "called", "begun")

LockStream(w) ==
    /\ \A v \in Saving : ~HoldsStreamLock(v, stream(w))
    /\ Step(w, "begun", "locked")

MutantCheckRevisionLater(w) ==
    /\ pc[w] = "locked"
    /\ currentVersion' = [currentVersion EXCEPT ![w] = StreamLength(stream(w))]
    /\ IF mode(w).kind = "Revision" \/ Expected(mode(w), StreamLength(stream(w)))
       THEN pc' = [pc EXCEPT ![w] = "checked"] /\ UNCHANGED <<outcome, pending>>
       ELSE Ended(w, Rejection(w))
    /\ UNCHANGED <<setup, table, nextId, nextVersion, grpc, readVars, load, browse>>

\* Reads the stream's version and checks the revision.
CheckRevision(w) ==
    /\ pc[w] = "locked"
    /\ currentVersion' = [currentVersion EXCEPT ![w] = StreamLength(stream(w))]
    /\ IF Expected(mode(w), StreamLength(stream(w)))
       THEN pc' = [pc EXCEPT ![w] = "checked"] /\ UNCHANGED <<outcome, pending>>
       ELSE Ended(w, Rejection(w))
    /\ UNCHANGED <<setup, table, nextId, nextVersion, grpc, readVars, load, browse>>

LockAppend(w) ==
    /\ \A v \in Saving : ~HoldsAppendLock(v)
    /\ Step(w, "checked", "inserting")

(***************************************************************************)
(* One INSERT.  UNIQUE (stream_id, stream_position) would turn a second row  *)
(* at a position into a conflict.                                            *)
(***************************************************************************)
Insert(w) ==
    LET row == [id |-> nextId, stream |-> stream(w), by |-> w,
                position |-> currentVersion[w] + Cardinality(pending[w]) + 1]
    IN
    /\ pc[w] = "inserting"
    /\ Cardinality(pending[w]) < size(w)
    /\ nextId' = nextId + 1
    /\ IF \E old \in Of(stream(w)) : old.position = row.position
       THEN Ended(w, "conflict")
       ELSE /\ pending' = [pending EXCEPT ![w] = @ \cup {row}]
            /\ UNCHANGED <<pc, outcome>>
    /\ UNCHANGED <<setup, table, currentVersion, nextVersion, grpc, readVars, load,
                   browse>>

Commit(w) ==
    /\ pc[w] = "inserting"
    /\ Cardinality(pending[w]) = size(w)
    /\ table' = table \cup pending[w]
    /\ nextVersion' = [nextVersion EXCEPT ![w] = currentVersion[w] + size(w)]
    /\ Ended(w, "saved")
    /\ UNCHANGED <<setup, nextId, currentVersion, grpc, readVars, load, browse>>

(***************************************************************************)
(* A statement fails, ctx ends or the connection breaks: the transaction is  *)
(* rolled back.  A failed COMMIT may have committed.                         *)
(***************************************************************************)
Fail(w) ==
    /\ pc[w] = "called" \/ InTransaction(w)
    /\ \/ UNCHANGED table
       \/ /\ pc[w] = "inserting" /\ Cardinality(pending[w]) = size(w)
          /\ table' = table \cup pending[w]
    /\ Ended(w, "failed")
    /\ UNCHANGED <<setup, nextId, currentVersion, nextVersion, grpc, readVars,
                   load, browse>>

-----------------------------------------------------------------------------
(***************************************************************************)
(* ReadAll: the head is pinned first, then the rows up to it are read.       *)
(***************************************************************************)
LogHead == MaxOr0(Ids(table))

MutantPageNext(hits, limit, from, head) == Max({from, head})

\* A full page may stop short of the head.
PageNext(hits, limit, from, head) ==
    IF Cardinality(hits) = limit THEN Max(Ids(hits)) ELSE Max({from, head})

\* The rows in (from, head] that pass the filter, up to limit.
ReadUpTo(from, head, limit) ==
    LET hits == FirstN({row \in Hits(table) : from < row.id /\ row.id <= head}, limit)
        next == PageNext(hits, limit, from, head)
    IN  [events |-> hits, next |-> next, atEnd |-> next >= head]

PinHead(r) ==
    /\ FreeConn
    /\ ~reading[r]
    /\ LogHead > after[r]
    /\ pinned' = [pinned EXCEPT ![r] = LogHead]
    /\ reading' = [reading EXCEPT ![r] = TRUE]
    /\ UNCHANGED <<setup, table, saveVars, after, got, load, browse>>

ReadPage(r) ==
    /\ FreeConn
    /\ reading[r]
    /\ TakePage(r, ReadUpTo(after[r], pinned[r], Limit))
    /\ reading' = [reading EXCEPT ![r] = FALSE]
    /\ UNCHANGED <<setup, table, saveVars, pinned, load, browse>>

-----------------------------------------------------------------------------
(***************************************************************************)
(* LoadStreamFrom: whether the stream exists is asked first, where it         *)
(* matters, by a query of its own.                                           *)
(***************************************************************************)
CheckExists(l) ==
    /\ FreeConn
    /\ load[l].pc = "idle"
    /\ From(l).kind \in {"NoStream", "StreamExists"}
    /\ IF ~(Missing(l) <=> From(l).kind = "NoStream") THEN Refuse(l)
       ELSE \/ From(l).kind = "NoStream" /\ OpenSnapshot(l, {})
            \/ /\ From(l).kind = "StreamExists"
               /\ load' = [load EXCEPT ![l].pc = "checked", ![l].atCall = Ids(Asked(l))]
    /\ UNCHANGED <<setup, table, saveVars, readVars, browse>>

\* The rows of a query are those of its snapshot.
LoadStreamFrom(l) ==
    /\ ~setup.loads[l].chain
    /\ \/ load[l].pc = "idle" /\ From(l).kind \in {"Any", "Revision"}
       \/ load[l].pc = "checked"
    /\ FreeConn
    /\ OpenSnapshot(l, Asked(l))
    /\ UNCHANGED <<setup, table, saveVars, readVars, browse>>

LoadCorrelation(l) ==
    /\ setup.loads[l].chain
    /\ FreeConn
    /\ load[l].pc = "idle"
    /\ OpenSnapshot(l, Asked(l))
    /\ UNCHANGED <<setup, table, saveVars, readVars, browse>>

-----------------------------------------------------------------------------

SaveStep(w) ==
    Begin(w) \/ LockStream(w) \/ CheckRevision(w) \/ LockAppend(w) \/ Insert(w) \/ Commit(w)
ReadStep(r) == PinHead(r) \/ ReadPage(r)
LoadStep(l) == CheckExists(l) \/ LoadStreamFrom(l) \/ LoadCorrelation(l) \/ NextOf(l)

=============================================================================
