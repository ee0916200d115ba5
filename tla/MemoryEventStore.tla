--------------------------- MODULE MemoryEventStore ---------------------------
(***************************************************************************)
(* The in-memory event store, memory/eventstore.go, as a member of the       *)
(* family: Save and every read hold the lock throughout.  EventStore models   *)
(* what a command handler sees of it.                                        *)
(***************************************************************************)
EXTENDS EventLog

\* Save, under the write lock.
Save(w) ==
    LET n == StreamLength(stream(w)) IN
    /\ pc[w] = "called"
    /\ currentVersion' = [currentVersion EXCEPT ![w] = n]
    /\ IF Expected(mode(w), n)
       THEN /\ table' = table \cup Batch(w, n)
            /\ nextId' = nextId + size(w)
            /\ nextVersion' = [nextVersion EXCEPT ![w] = n + size(w)]
            /\ Ended(w, "saved")
       ELSE Ended(w, Rejection(w)) /\ UNCHANGED <<table, nextId, nextVersion>>
    /\ UNCHANGED <<setup, grpc, readVars, load, browse>>

LogHead == Cardinality(table)

(***************************************************************************)
(* The events from index `from` on, up to and including the one that fills    *)
(* the page; Next is the last one looked at.                                  *)
(***************************************************************************)
ReadAll(from, limit) ==
    LET rows == {row \in table : row.id > from}
        hits == FirstN(Hits(rows), limit)
        next == IF Cardinality(hits) = limit THEN Max(Ids(hits)) ELSE Max(Ids(rows) \cup {from})
    IN  [events |-> hits, next |-> next, atEnd |-> next >= LogHead]

ReadPage(r) ==
    /\ LogHead > after[r]
    /\ TakePage(r, ReadAll(after[r], Limit))
    /\ UNCHANGED <<setup, table, saveVars, pinned, reading, load, browse>>

\* The slice as it is when it is called; a revision beyond its end is refused.
LoadStreamFrom(l) ==
    /\ ~setup.loads[l].chain
    /\ load[l].pc = "idle"
    /\ IF \/ From(l).kind = "NoStream" /\ ~Missing(l)
          \/ From(l).kind = "StreamExists" /\ Missing(l)
          \/ From(l).kind = "Revision" /\ From(l).rev > StreamLength(setup.loads[l].stream)
       THEN Refuse(l)
       ELSE OpenSnapshot(l, Asked(l))
    /\ UNCHANGED <<setup, table, saveVars, readVars, browse>>

LoadCorrelation(l) ==
    /\ setup.loads[l].chain
    /\ load[l].pc = "idle"
    /\ OpenSnapshot(l, Asked(l))
    /\ UNCHANGED <<setup, table, saveVars, readVars, browse>>

LoadStep(l) == LoadStreamFrom(l) \/ LoadCorrelation(l) \/ NextOf(l)

=============================================================================
