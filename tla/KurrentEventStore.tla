-------------------------- MODULE KurrentEventStore --------------------------
(***************************************************************************)
(* The KurrentDB event store, kurrentdb/eventstore.go and errors.go: a Save   *)
(* is an append that is sent again, with the same event IDs, when its answer  *)
(* does not come; the server makes the revision check.                        *)
(*                                                                          *)
(* The server counts a stream's events from 0.  It answers an append of IDs   *)
(* it has already stored under the same stream state with success and stores  *)
(* them once (docs/how-to/retry-an-unknown-outcome.md).                       *)
(***************************************************************************)
EXTENDS EventLog

\* The stream state Save sends: a count of events becomes a last event number.
ToStreamState(w) ==
    CASE mode(w).kind # "Revision" -> mode(w)
      [] mode(w).kind = "Revision" /\ mode(w).rev = 0 -> NoStream
      [] OTHER -> Revision(mode(w).rev - 1)

\* The server's own check of a stream whose last event number is length - 1.
ServerExpects(state, length) ==
    \/ state.kind = "Any"
    \/ state.kind = "NoStream"     /\ length = 0
    \/ state.kind = "StreamExists" /\ length # 0
    \/ state.kind = "Revision"     /\ length # 0 /\ length - 1 = state.rev

Send(w, n) ==
    grpc' = [grpc EXCEPT ![w].attempt = n, ![w].flying = @ \cup {n}]

\* The first attempt.
Append1(w) ==
    /\ pc[w] = "called"
    /\ pc' = [pc EXCEPT ![w] = "waiting"]
    /\ Send(w, 1)
    /\ UNCHANGED <<setup, table, nextId, currentVersion, nextVersion, pending,
                   outcome, readVars, load, browse>>

(***************************************************************************)
(* The server handles an attempt, perhaps long after it was given up; its    *)
(* answer reaches Save if Save still waits for this attempt, or is lost.      *)
(***************************************************************************)
Serve(w, a) ==
    LET n == StreamLength(stream(w))
        accepted == By(w) # {} \/ ServerExpects(ToStreamState(w), n)
        answer == IF accepted THEN "written" ELSE "wrong"
        heard == pc[w] = "waiting" /\ a = grpc[w].attempt
    IN
    /\ a \in grpc[w].flying
    /\ IF accepted /\ By(w) = {}
       THEN table' = table \cup Batch(w, n) /\ nextId' = nextId + size(w)
       ELSE UNCHANGED <<table, nextId>>
    /\ \/ /\ heard
          /\ grpc' = [grpc EXCEPT ![w].flying = @ \ {a}, ![w].answer = answer]
       \/ grpc' = [grpc EXCEPT ![w].flying = @ \ {a}]
    /\ UNCHANGED <<setup, pc, currentVersion, nextVersion, pending, outcome,
                   readVars, load, browse>>

\* A retryable error: the answer did not come in time, or no leader took it.
Retry(w) ==
    /\ pc[w] = "waiting"
    /\ grpc[w].answer = "none"
    /\ grpc[w].attempt < setup.attempts
    /\ Send(w, grpc[w].attempt + 1)
    /\ UNCHANGED <<setup, table, nextId, pc, currentVersion, nextVersion, pending,
                   outcome, readVars, load, browse>>

\* The backoff is used up, ctx is done or the error is permanent.
GiveUp(w) ==
    /\ pc[w] = "waiting"
    /\ grpc[w].answer = "none"
    /\ Ended(w, "failed")
    /\ UNCHANGED <<setup, table, nextId, currentVersion, nextVersion, grpc, readVars,
                   load, browse>>

\* NextExpectedVersion is the last event number written, plus one.
Answered(w) ==
    /\ pc[w] = "waiting"
    /\ grpc[w].answer # "none"
    /\ IF grpc[w].answer = "written"
       THEN /\ nextVersion' = [nextVersion EXCEPT ![w] =
                    Max({row.position - 1 : row \in By(w)}) + 1]
            /\ Ended(w, "saved")
       ELSE Ended(w, Rejection(w)) /\ UNCHANGED nextVersion
    /\ UNCHANGED <<setup, table, nextId, currentVersion, grpc, readVars, load, browse>>

\* KurrentDB writes a record of its own to $all.
SystemRecord ==
    /\ Cardinality(By(System)) < setup.records
    /\ table' = table \cup {[id |-> nextId, stream |-> System, by |-> System,
                             position |-> Cardinality(By(System)) + 1]}
    /\ nextId' = nextId + 1
    /\ UNCHANGED <<setup, pc, currentVersion, nextVersion, pending, outcome, grpc,
                   readVars, load, browse>>

-----------------------------------------------------------------------------

\* The newest application event, reading $all backwards.
LogHead == MaxOr0(Ids(table \ By(System)))

(***************************************************************************)
(* $all from `from`, one Recv at a time, until the scan budget or the page    *)
(* is used up by an earlier record, or the end.                               *)
(***************************************************************************)
ReadAll(from, limit) ==
    LET rows == {row \in table : row.id > from}
        scanned == {row \in FirstN(rows, Max({limit, ScanLimit})) :
                      Cardinality({x \in Hits(rows) : x.id < row.id}) < limit}
    IN  [events |-> Hits(scanned), next |-> Max(Ids(scanned) \cup {from}),
         atEnd |-> scanned = rows]

ReadPage(r) ==
    /\ \E row \in table : row.id > after[r]
    /\ TakePage(r, ReadAll(after[r], Limit))
    /\ UNCHANGED <<setup, table, saveVars, pinned, reading, load, browse>>

\* Opens the read; the server is only asked at the first Recv.
LoadStreamFrom(l) ==
    /\ ~setup.loads[l].chain
    /\ load[l].pc = "idle"
    /\ OpenSnapshot(l, {})
    /\ UNCHANGED <<setup, table, saveVars, readVars, browse>>

missingIsEmpty(l) == From(l).kind # "StreamExists"
mustNotExist(l) == From(l).kind = "NoStream"

(***************************************************************************)
(* Recv: the next event of the stream, or its end as the server saw it since *)
(* the read was opened.  Of a stream that is not there the first Recv fails.  *)
(***************************************************************************)
Recv(l) ==
    LET given == {load[l].got[i] : i \in DOMAIN load[l].got}
        rest == {row \in Asked(l) : row.id > MaxOr0(given)}
    IN
    /\ load[l].pc = "open"
    /\ \/ \E row \in rest :
              /\ \A other \in rest : row.id <= other.id
              /\ IF mustNotExist(l) THEN Finish(l, "refused") ELSE Yield(l, row)
       \/ /\ load[l].atCall \subseteq given
          /\ Finish(l, IF given = {} /\ ~missingIsEmpty(l) THEN "refused" ELSE "nil")
    /\ UNCHANGED <<setup, table, saveVars, readVars, browse>>

-----------------------------------------------------------------------------

SaveStep(w) == Append1(w) \/ Retry(w) \/ GiveUp(w) \/ Answered(w)
LoadStep(l) == LoadStreamFrom(l) \/ Recv(l)

=============================================================================
