--------------------------- MODULE SQLiteEventStore ---------------------------
(***************************************************************************)
(* The SQLite event store, sqlite/eventstore.go, opened by sqlite/open.go:   *)
(* one connection, every transaction begins with the write lock, and loads   *)
(* are read in full before they return.                                      *)
(***************************************************************************)
EXTENDS EventLog

Transactions == {w \in Saving : pc[w] \in {"begun", "inserting"}}

\* SetMaxOpenConns, per process.
FreeConn == Cardinality(Transactions) < setup.conns

\* BeginTx with _txlock=immediate.
Begin(w) ==
    /\ pc[w] = "called"
    /\ FreeConn
    /\ Transactions = {}
    /\ pc' = [pc EXCEPT ![w] = "begun"]
    /\ UNCHANGED <<setup, table, nextId, currentVersion, nextVersion, pending,
                   outcome, grpc, readVars, load, browse>>

\* Reads the stream's version and checks the revision.
CheckRevision(w) ==
    /\ pc[w] = "begun"
    /\ currentVersion' = [currentVersion EXCEPT ![w] = StreamLength(stream(w))]
    /\ IF Expected(mode(w), StreamLength(stream(w)))
       THEN pc' = [pc EXCEPT ![w] = "inserting"] /\ UNCHANGED <<outcome, pending>>
       ELSE Ended(w, Rejection(w))
    /\ UNCHANGED <<setup, table, nextId, nextVersion, grpc, readVars, load, browse>>

\* One INSERT; AUTOINCREMENT is rolled back with the transaction.
Insert(w) ==
    LET row == [id |-> MaxOr0(Ids(table \cup pending[w])) + 1, stream |-> stream(w),
                position |-> currentVersion[w] + Cardinality(pending[w]) + 1, by |-> w]
    IN
    /\ pc[w] = "inserting"
    /\ Cardinality(pending[w]) < size(w)
    /\ IF \E old \in Of(stream(w)) : old.position = row.position
       THEN Ended(w, "conflict")
       ELSE /\ pending' = [pending EXCEPT ![w] = @ \cup {row}]
            /\ UNCHANGED <<pc, outcome>>
    /\ UNCHANGED <<setup, table, nextId, currentVersion, nextVersion, grpc,
                   readVars, load, browse>>

Commit(w) ==
    /\ pc[w] = "inserting"
    /\ Cardinality(pending[w]) = size(w)
    /\ table' = table \cup pending[w]
    /\ nextVersion' = [nextVersion EXCEPT ![w] = currentVersion[w] + size(w)]
    /\ Ended(w, "saved")
    /\ UNCHANGED <<setup, nextId, currentVersion, grpc, readVars, load, browse>>

(***************************************************************************)
(* A statement fails, ctx ends or the lock is not got in five seconds: the    *)
(* transaction is rolled back.  A failed COMMIT may have committed.           *)
(***************************************************************************)
Fail(w) ==
    /\ pc[w] \in {"called", "begun", "inserting"}
    /\ \/ UNCHANGED table
       \/ /\ pc[w] = "inserting" /\ Cardinality(pending[w]) = size(w)
          /\ table' = table \cup pending[w]
    /\ Ended(w, "failed")
    /\ UNCHANGED <<setup, nextId, currentVersion, nextVersion, grpc, readVars,
                   load, browse>>

-----------------------------------------------------------------------------

LogHead == MaxOr0(Ids(table))

\* The rows in (from, head] that pass the filter, up to limit.
ReadUpTo(from, head, limit) ==
    LET hits == FirstN({row \in Hits(table) : from < row.id /\ row.id <= head}, limit)
        next == IF Cardinality(hits) = limit THEN Max(Ids(hits)) ELSE Max({from, head})
    IN  [events |-> hits, next |-> next, atEnd |-> next >= head]

PinHead(r) ==
    /\ FreeConn
    /\ ~reading[r]
    /\ LogHead > after[r]
    /\ pinned' = [pinned EXCEPT ![r] = LogHead]
    /\ reading' = [reading EXCEPT ![r] = TRUE]
    /\ UNCHANGED <<setup, table, saveVars, after, got, load, browse>>

ReadPage(r) ==
    /\ FreeConn
    /\ reading[r]
    /\ TakePage(r, ReadUpTo(after[r], pinned[r], Limit))
    /\ reading' = [reading EXCEPT ![r] = FALSE]
    /\ UNCHANGED <<setup, table, saveVars, pinned, load, browse>>

\* LoadStreamFrom: one query, read in full.
LoadStreamFrom(l) ==
    /\ ~setup.loads[l].chain
    /\ FreeConn
    /\ load[l].pc = "idle"
    /\ IF \/ From(l).kind = "NoStream" /\ ~Missing(l)
          \/ From(l).kind = "StreamExists" /\ Missing(l)
       THEN Refuse(l)
       ELSE OpenSnapshot(l, Asked(l))
    /\ UNCHANGED <<setup, table, saveVars, readVars, browse>>

LoadCorrelation(l) ==
    /\ setup.loads[l].chain
    /\ FreeConn
    /\ load[l].pc = "idle"
    /\ OpenSnapshot(l, Asked(l))
    /\ UNCHANGED <<setup, table, saveVars, readVars, browse>>

-----------------------------------------------------------------------------

SaveStep(w) == Begin(w) \/ CheckRevision(w) \/ Insert(w) \/ Commit(w)
ReadStep(r) == PinHead(r) \/ ReadPage(r)
LoadStep(l) == LoadStreamFrom(l) \/ LoadCorrelation(l) \/ NextOf(l)

=============================================================================
