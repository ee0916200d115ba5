----------------------------- MODULE DeadLetters -----------------------------
(***************************************************************************)
(* Events a projection skipped, the streams they park, and the replays that  *)
(* apply them after all: projection/segment.go and projection/replay.go over *)
(* the dead letters and replay requests of the projection stores.            *)
(*                                                                          *)
(* An instance runs a goroutine per segment and one that polls for replay    *)
(* requests. Each step is one call of the store or one section under the     *)
(* runner's mutex. The stores are PostgreSQL and SQLite, which commit a      *)
(* handler's writes, the dead letter and the checkpoint together.            *)
(***************************************************************************)
EXTENDS ProjectionStore, FiniteSets, FiniteSetsExt

CONSTANTS
    Events,         \* the log, 1 .. some number
    StreamOf,       \* [Events -> streams]
    Numbers,        \* the replay requests that may be made, 1 .. some number
    Setups          \* what is varied: the store, SegmentOf of the events, the
                    \* instances, who calls ReplayStream, OnError, the batch
                    \* size, the events whose handler fails until it is fixed,
                    \* what else may fail, and bounds on failures, rebuilds
                    \* and requests

\* What a setup fixes of a Definition, and the bounds that go with it.
Definition ==
    [store : {"postgres", "sqlite"}, segmentOf : [Events -> Segments],
     segments : SUBSET Segments, run : SUBSET Instances, callers : SUBSET Instances,
     onError : {"StallOnError", "SkipWhenLive", "SkipAlways"}, batch : Nat \ {0},
     bad : SUBSET Events, failing : SUBSET {"expire", "restart", "read", "commit", "finish", "ctx"},
     maxFaults : Nat, maxRebuilds : Nat, maxRequests : 0 .. Cardinality(Numbers)]

ASSUME LettersAssumption ==
    /\ IsFiniteSet(Events) /\ Events = 1 .. Cardinality(Events)
    /\ IsFiniteSet(Numbers) /\ Numbers = 1 .. Cardinality(Numbers)
    /\ Setups \subseteq Definition

VARIABLES
    setup,
    bad,            \* the events the handler fails on
    applied,        \* how often each event is in the read model
    letters,        \* the dead letters of each segment
    replayUntil,    \* Checkpoint.ReplayUntil of each segment
    replays, used,  \* the replay requests in the store, and the numbers given
    pc,             \* where the goroutine of an instance's segment is
    cp, epoch,      \* the checkpoint it works from, the lease it holds
    parked,         \* the streams it skips
    to,             \* where the batch it works through ends
    serving,        \* the requests it has taken, and the letters left to
    left,           \* apply for the first of them
    failing,        \* the first of them failed
    gone,           \* the requests its FinishReplay is about to delete
    active,         \* the instance processes the segment
    pending,        \* pendingReplays, the requests queued for a segment
    queued,         \* queuedReplays, all the instance knows of
    pollReplays, checkReplays,
    found,          \* what its poller read, or where it is
    caller,         \* the instance whose ReplayStream waits for a request
    owed,           \* the letters that call is about
    faults

Streams == {StreamOf[e] : e \in Events}
Replay == [number : Numbers, stream : Streams, segment : Segments]
Idle == [at |-> "idle", requests |-> {}]
NoReplays == [n \in {} |-> {}]

goVars == <<pc, cp, epoch, parked, to, serving, left, failing, gone>>
queueVars == <<active, pending, queued, pollReplays>>
pollVars == <<checkReplays, found>>
callVars == <<caller, owed, used>>
vars == <<storeVars, setup, bad, applied, letters, replayUntil, replays, goVars, queueVars,
          pollVars, callVars, faults>>

TypeOK ==
    /\ StoreTypeOK
    /\ setup \in Setups
    /\ bad \subseteq Events
    /\ applied \in [Events -> 0 .. 3]
    /\ letters \in [Segments -> SUBSET Events]
    /\ replayUntil \in [Segments -> {0} \cup Events]
    /\ \A n \in DOMAIN replays :
         replays[n] \in [stream : Streams,
                         state : [Segments -> {"none", "pending", "ok", "failed"}]]
    /\ pc \in [Instances -> [Segments -> {"claim", "load", "top", "read", "one", "take",
                                          "replay", "finish", "finishing", "drop"}]]
    /\ cp \in [Instances -> [Segments -> {0} \cup Events]]
    /\ parked \in [Instances -> [Segments -> SUBSET Streams]]
    /\ queued \in [Instances -> SUBSET Replay]
    /\ caller \in [Numbers -> Instances \cup {None}]

PerSegment(x) == [i \in Instances |-> [s \in Segments |-> x]]

Init ==
    /\ StoreInit
    /\ setup \in Setups
    /\ bad = setup.bad
    /\ applied = [e \in Events |-> 0]
    /\ letters = [s \in Segments |-> {}]
    /\ replayUntil = [s \in Segments |-> 0]
    /\ replays = NoReplays /\ used = {}
    /\ pc = PerSegment("claim")
    /\ cp = PerSegment(0) /\ epoch = PerSegment(0) /\ to = PerSegment(0)
    /\ parked = PerSegment({}) /\ serving = PerSegment({}) /\ left = PerSegment({})
    /\ failing = PerSegment(FALSE) /\ gone = PerSegment({})
    /\ active = PerSegment(FALSE)
    /\ pending = PerSegment({})
    /\ queued = [i \in Instances |-> {}]
    /\ pollReplays = [i \in Instances |-> FALSE]
    /\ checkReplays = [i \in Instances |-> FALSE]
    /\ found = [i \in Instances |-> Idle]
    /\ caller = [n \in Numbers |-> None]
    /\ owed = [n \in Numbers |-> {}]
    /\ faults = 0

-----------------------------------------------------------------------------

Last == Cardinality(Events)

InSegment(s) == {e \in Events : setup.segmentOf[e] = s}

Mine(i, s) == Owned(i, s, epoch[i][s])

Goto(i, s, where) == pc' = [pc EXCEPT ![i][s] = where]

Fault(what) == what \in setup.failing /\ faults < setup.maxFaults /\ faults' = faults + 1

MutantActive(i, s) ==
    active' = [active EXCEPT ![i][s] = TRUE] /\ UNCHANGED pollReplays

\* setActive(seg, true) also asks for a poll.
Active(i, s) ==
    /\ active' = [active EXCEPT ![i][s] = TRUE]
    /\ pollReplays' = [pollReplays EXCEPT ![i] = TRUE]

\* setActive(seg, false): the requests queued for the segment are dropped.
Inactive(i, s) ==
    /\ active' = [active EXCEPT ![i][s] = FALSE]
    /\ queued' = [queued EXCEPT ![i] = {r \in @ : r.segment # s}]
    /\ pending' = [pending EXCEPT ![i][s] = {}]
    /\ pollReplays' = [pollReplays EXCEPT ![i] = @ \/ serving[i][s] # {}]

\* The goroutine leaves work(), to claim the segment again and read its
\* checkpoint and dead letters anew.
Leave(i, s) ==
    /\ Goto(i, s, "claim")
    /\ Inactive(i, s)
    /\ serving' = [serving EXCEPT ![i][s] = {}]
    /\ left' = [left EXCEPT ![i][s] = {}]
    /\ failing' = [failing EXCEPT ![i][s] = FALSE]
    /\ to' = [to EXCEPT ![i][s] = 0]
    /\ gone' = [gone EXCEPT ![i][s] = {}]
    /\ cp' = [cp EXCEPT ![i][s] = 0]
    /\ parked' = [parked EXCEPT ![i][s] = {}]
    /\ UNCHANGED epoch

\* PostgreSQL: a FinishReplay has the segment's row locked.
RowLocked(s) == \E i \in Instances : pc[i][s] = "finishing"

\* A store call finds the claim lost.
ClaimLost(i, s) ==
    /\ pc[i][s] \in {"top", "read", "one", "replay", "finish"} /\ ~Mine(i, s)
    /\ pc[i][s] = "replay" => left[i][s] # {}
    /\ pc[i][s] = "top" => cp[i][s] = Last /\ pending[i][s] = {}
    /\ Leave(i, s)
    /\ UNCHANGED <<storeVars, setup, bad, applied, letters, replayUntil, replays, pollVars,
                   callVars, faults>>

\* Claim, and setActive(seg, true).
Claim(i, s) ==
    /\ pc[i][s] = "claim" /\ i \in setup.run /\ s \in setup.segments
    /\ Claimable(i, s, epoch[i][s]) /\ ~RowLocked(s)
    /\ rows' = [rows EXCEPT ![s] = Claimed(i, s, epoch[i][s])]
    /\ epoch' = [epoch EXCEPT ![i][s] = rows'[s].epoch]
    /\ cp' = [cp EXCEPT ![i][s] = rows[s].pos]
    /\ Active(i, s)
    /\ Goto(i, s, "load")
    /\ UNCHANGED <<requested, served, failed, setup, bad, applied, letters, replayUntil,
                   replays, parked, to, serving, left, failing, gone, pending, queued, pollVars,
                   callVars, faults>>

MutantParkedIn(i, s) == parked[i][s]

\* The streams with dead letters; none in a segment that has processed nothing.
ParkedIn(i, s) == IF cp[i][s] = 0 THEN {} ELSE {StreamOf[e] : e \in letters[s]}

loadParked(i, s) ==
    /\ pc[i][s] = "load"
    /\ parked' = [parked EXCEPT ![i][s] = ParkedIn(i, s)]
    /\ Goto(i, s, "top")
    /\ UNCHANGED <<storeVars, setup, bad, applied, letters, replayUntil, replays, cp, epoch, to,
                   serving, left, failing, gone, queueVars, pollVars, callVars, faults>>

\* Reset in the store: read model, checkpoints, letters and requests go.
Rebuild(i, s) ==
    /\ pc[i][s] = "top" /\ s = 0 /\ RebuildOpen
    /\ \A t \in Segments : ~RowLocked(t)
    /\ IF Mine(i, s)
       THEN /\ rows' = ResetRows(s, 0)
            /\ served' = requested
            /\ replayUntil' = [t \in Segments |-> Max({replayUntil[t], rows[t].pos})]
            /\ letters' = [t \in Segments |-> {}]
            /\ replays' = NoReplays
            /\ applied' = [e \in Events |-> 0]
            /\ owed' = [n \in Numbers |-> {}]
            /\ cp' = [cp EXCEPT ![i][s] = 0]
            /\ parked' = [parked EXCEPT ![i][s] = {}]
            /\ epoch' = [epoch EXCEPT ![i] = [t \in Segments |-> IF t = s THEN @[t] ELSE 0]]
            /\ UNCHANGED <<pc, to, serving, left, failing, gone, queueVars>>
       ELSE Leave(i, s) /\ UNCHANGED <<rows, served, replayUntil, letters, replays, applied, owed>>
    /\ UNCHANGED <<requested, failed, setup, bad, pollVars, caller, used, faults>>

-----------------------------------------------------------------------------
(* Batches.                                                                  *)

\* The top of the loop: take the queued requests, or read the log.
Top(i, s) ==
    /\ pc[i][s] = "top" /\ ~(s = 0 /\ RebuildOpen)
    /\ IF pending[i][s] # {}
       THEN /\ Goto(i, s, "take")
            /\ serving' = [serving EXCEPT ![i][s] = pending[i][s]]
            /\ pending' = [pending EXCEPT ![i][s] = {}]
       ELSE /\ cp[i][s] < Last
            /\ Goto(i, s, "read")
            /\ UNCHANGED <<serving, pending>>
    /\ UNCHANGED <<storeVars, setup, bad, applied, letters, replayUntil, replays, cp, epoch,
                   parked, to, left, failing, gone, active, queued, pollReplays, pollVars, callVars,
                   faults>>

\* The events of the next batch that belong to the segment.
BatchEnd(i, s) == Min({cp[i][s] + setup.batch, Last})

Batch(i, s, end) == {e \in InSegment(s) : cp[i][s] < e /\ e <= end}

Skips(i, s) == {e \in Batch(i, s, BatchEnd(i, s)) : StreamOf[e] \in parked[i][s] \/ e \in bad}

CommitAt(s, pos) == rows' = [rows EXCEPT ![s] = Committed(s, pos, 0)]

\* What the Commit of the whole batch writes.
BatchWrites(i, s) ==
    LET end == BatchEnd(i, s) IN
    /\ CommitAt(s, end)
    /\ applied' = [e \in Events |-> applied[e] + IF e \in Batch(i, s, end) THEN 1 ELSE 0]
    /\ UNCHANGED letters

\* Apply the batch in one Commit or, when the handler fails or a stream is
\* parked, turn to its events one by one.
applyBatch(i, s) ==
    LET end == BatchEnd(i, s) IN
    /\ pc[i][s] = "read" /\ Mine(i, s)
    /\ IF Skips(i, s) = {}
       THEN /\ BatchWrites(i, s)
            /\ cp' = [cp EXCEPT ![i][s] = end]
            /\ Goto(i, s, "top")
            /\ UNCHANGED to
       ELSE /\ to' = [to EXCEPT ![i][s] = end]
            /\ Goto(i, s, "one")
            /\ UNCHANGED <<rows, applied, letters, cp>>
    /\ UNCHANGED <<requested, served, failed, setup, bad, replayUntil, replays, epoch, parked,
                   serving, left, failing, gone, queueVars, pollVars, callVars, faults>>

\* shouldSkip, for a read that ended at the position end.
shouldSkip(s, e, end) ==
    \/ setup.onError = "SkipAlways"
    \/ setup.onError = "SkipWhenLive" /\ end = Last /\ e > replayUntil[s]

SaveDeadLetter(s, e) == [letters EXCEPT ![s] = @ \cup {e}]

\* The letter is saved in the Commit that moves past the event.
skipEvent(s, e) == CommitAt(s, e) /\ letters' = SaveDeadLetter(s, e)

\* The next event of the batch, and whether it is passed over or stalled on.
NextOne(i, s) == Min(Batch(i, s, to[i][s]))

IsParked(i, s) == StreamOf[NextOne(i, s)] \in parked[i][s]

Passed(i, s) == IsParked(i, s) \/ NextOne(i, s) \in bad

Stalls(i, s) ==
    ~IsParked(i, s) /\ NextOne(i, s) \in bad /\ ~shouldSkip(s, NextOne(i, s), to[i][s])

\* What the Commit of that event writes.
EventWrites(i, s) ==
    LET e == NextOne(i, s) IN
    IF Passed(i, s) THEN skipEvent(s, e) /\ UNCHANGED applied
    ELSE /\ CommitAt(s, e)
         /\ applied' = [applied EXCEPT ![e] = @ + 1]
         /\ UNCHANGED letters

\* One event of a batch on its own: applied, or skipped with its stream
\* parked, or stalled on.
applyOneByOne(i, s) ==
    LET e == NextOne(i, s) IN
    /\ pc[i][s] = "one" /\ Mine(i, s) /\ Batch(i, s, to[i][s]) # {}
    /\ IF Stalls(i, s)
       THEN Leave(i, s) /\ UNCHANGED <<rows, applied, letters>>
       ELSE /\ EventWrites(i, s)
            /\ cp' = [cp EXCEPT ![i][s] = e]
            /\ parked' = [parked EXCEPT ![i][s] =
                            IF Passed(i, s) THEN @ \cup {StreamOf[e]} ELSE @]
            /\ UNCHANGED <<pc, epoch, to, serving, left, failing, gone, queueVars>>
    /\ UNCHANGED <<requested, served, failed, setup, bad, replayUntil, replays, pollVars,
                   callVars, faults>>

\* After the last event, the checkpoint moves to where the read ended.
EndOfBatch(i, s) ==
    /\ pc[i][s] = "one" /\ Mine(i, s) /\ Batch(i, s, to[i][s]) = {}
    /\ IF to[i][s] > cp[i][s] THEN CommitAt(s, to[i][s]) ELSE UNCHANGED rows
    /\ cp' = [cp EXCEPT ![i][s] = to[i][s]]
    /\ to' = [to EXCEPT ![i][s] = 0]
    /\ Goto(i, s, "top")
    /\ UNCHANGED <<requested, served, failed, setup, bad, applied, letters, replayUntil, replays,
                   epoch, parked, serving, left, failing, gone, queueVars, pollVars, callVars, faults>>

-----------------------------------------------------------------------------
(* Replays, in a segment's goroutine.                                        *)

Rows(n) == replays[n].state

First(i, s) == CHOOSE r \in serving[i][s] : \A q \in serving[i][s] : r.number <= q.number

Known(n) == n \in DOMAIN replays

\* replayStream loads the letters of the request's stream.
TakeReplay(i, s) ==
    /\ pc[i][s] = "take"
    /\ left' = [left EXCEPT ![i][s] =
                  {e \in letters[s] : StreamOf[e] = First(i, s).stream}]
    /\ failing' = [failing EXCEPT ![i][s] = FALSE]
    /\ Goto(i, s, "replay")
    /\ UNCHANGED <<storeVars, setup, bad, applied, letters, replayUntil, replays, cp, epoch,
                   parked, to, serving, gone, queueVars, pollVars, callVars, faults>>

MutantLettersAfter(i, s, e) == letters

\* DeleteDeadLetter, in the Commit that applies the event.
LettersAfter(i, s, e) == [letters EXCEPT ![s] = @ \ {e}]

\* What the Commit of the next letter writes.
LetterWrites(i, s) ==
    LET e == Min(left[i][s]) IN
    /\ CommitAt(s, cp[i][s])
    /\ applied' = [applied EXCEPT ![e] = @ + 1]
    /\ letters' = LettersAfter(i, s, e)

\* An error ends the replay of the stream, and is recorded with the request.
ReplayFails(i, s) ==
    /\ failing' = [failing EXCEPT ![i][s] = TRUE]
    /\ left' = [left EXCEPT ![i][s] = {}]
    /\ Goto(i, s, "finish")

\* The letters are applied in order, each in a Commit of its own. A failure
\* ends the replay; after the last, the stream is parked no more.
replayStream(i, s) ==
    LET e == Min(left[i][s]) IN
    /\ pc[i][s] = "replay"
    /\ IF left[i][s] = {}
       THEN /\ parked' = [parked EXCEPT ![i][s] = @ \ {First(i, s).stream}]
            /\ Goto(i, s, "finish")
            /\ UNCHANGED <<rows, applied, letters, left, failing>>
       ELSE /\ Mine(i, s)
            /\ IF e \in bad
               THEN ReplayFails(i, s) /\ UNCHANGED <<rows, applied, letters>>
               ELSE /\ LetterWrites(i, s)
                    /\ left' = [left EXCEPT ![i][s] = @ \ {e}]
                    /\ UNCHANGED <<pc, failing>>
            /\ UNCHANGED parked
    /\ UNCHANGED <<requested, served, failed, setup, bad, replayUntil, replays, cp, epoch, to,
                   serving, gone, queueVars, pollVars, callVars, faults>>

\* What the Commit under way would write.
Writes(i, s) ==
    \/ pc[i][s] = "read" /\ Skips(i, s) = {} /\ BatchWrites(i, s)
    \/ /\ pc[i][s] = "one" /\ Batch(i, s, to[i][s]) # {} /\ ~Stalls(i, s)
       /\ EventWrites(i, s)
    \/ /\ pc[i][s] = "one" /\ Batch(i, s, to[i][s]) = {} /\ to[i][s] > cp[i][s]
       /\ CommitAt(s, to[i][s]) /\ UNCHANGED <<applied, letters>>
    \/ /\ pc[i][s] = "replay" /\ Min(left[i][s]) \notin bad
       /\ LetterWrites(i, s)

\* A Commit returns an error that is not the handler's: it had no effect, or
\* only its answer was lost.
CommitFails(i, s) ==
    /\ pc[i][s] \in {"read", "one", "replay"} /\ Mine(i, s)
    /\ pc[i][s] = "replay" => left[i][s] # {}
    /\ Fault("commit")
    /\ Writes(i, s) \/ UNCHANGED <<rows, applied, letters>>
    /\ IF pc[i][s] = "replay"
       THEN ReplayFails(i, s) /\ UNCHANGED <<cp, epoch, parked, to, serving, gone, queueVars>>
       ELSE Leave(i, s)
    /\ UNCHANGED <<requested, served, failed, setup, bad, replayUntil, replays, pollVars,
                   callVars>>

MutantSwept(reqs, n) ==
    IF \E s \in Segments : reqs[n].state[s] = "failed" THEN reqs
    ELSE [m \in DOMAIN reqs \ {n} |-> reqs[m]]

\* The requests without those a success of n deletes: n itself and the
\* earlier ones of its stream that every segment has tried.
Swept(reqs, n) ==
    IF \E s \in Segments : reqs[n].state[s] \notin {"none", "ok"} THEN reqs
    ELSE [m \in {m \in DOMAIN reqs :
                   ~(/\ m <= n /\ reqs[m].stream = reqs[n].stream
                     /\ \A s \in Segments : reqs[m].state[s] # "pending")} |-> reqs[m]]

\* The store's requests once s has tried n.
Tried(n, s, ok) ==
    [replays EXCEPT ![n].state[s] =
       IF @ = "none" THEN @ ELSE IF ok THEN "ok" ELSE "failed"]

MutantRequestFree(i, s, n) == TRUE

\* PostgreSQL: FOR UPDATE, no other segment is finishing the request, or
\* deleting it.
RequestFree(i, s, n) ==
    \A j \in Instances, t \in Segments :
      pc[j][t] = "finishing" => First(j, t).number # n /\ n \notin gone[j][t]

\* DELETE: nobody else is finishing a request it deletes.
DeletesFree(i, s) ==
    \A j \in Instances, t \in Segments :
      pc[j][t] = "finishing" => (j = i /\ t = s) \/ First(j, t).number \notin gone[i][s]

\* The first request is dealt with: on to the next or, when there is none,
\* ask for another poll before forgetting that they were queued.
Served(i, s) ==
    LET rest == serving[i][s] \ {First(i, s)} IN
    /\ serving' = [serving EXCEPT ![i][s] = rest]
    /\ failing' = [failing EXCEPT ![i][s] = FALSE]
    /\ Goto(i, s, IF rest # {} THEN "take" ELSE "drop")
    /\ pollReplays' = [pollReplays EXCEPT ![i] = @ \/ rest = {}]

\* FinishReplay, in one step where its transaction runs alone.
FinishReplay(i, s) ==
    LET n == First(i, s).number IN
    /\ pc[i][s] = "finish" /\ Mine(i, s)
    /\ setup.store = "sqlite" \/ ~Known(n)
    /\ replays' = IF Known(n) THEN Swept(Tried(n, s, ~failing[i][s]), n) ELSE replays
    /\ Served(i, s)
    /\ UNCHANGED <<storeVars, setup, bad, applied, letters, replayUntil, cp, epoch, parked, to,
                   left, gone, active, pending, queued, pollVars, callVars, faults>>

\* PostgreSQL: lock the segment and the request, and see what can be deleted;
\* then commit.
LockRequest(i, s) ==
    LET n == First(i, s).number
        after == Tried(n, s, ~failing[i][s])
    IN /\ pc[i][s] = "finish" /\ Mine(i, s)
       /\ setup.store = "postgres" /\ Known(n) /\ RequestFree(i, s, n)
       /\ gone' = [gone EXCEPT ![i][s] = DOMAIN after \ DOMAIN Swept(after, n)]
       /\ Goto(i, s, "finishing")
       /\ UNCHANGED <<storeVars, setup, bad, applied, letters, replayUntil, replays, cp, epoch,
                      parked, to, serving, left, failing, queueVars, pollVars, callVars, faults>>

CommitFinish(i, s) ==
    LET after == Tried(First(i, s).number, s, ~failing[i][s]) IN
    /\ pc[i][s] = "finishing" /\ DeletesFree(i, s)
    /\ replays' = [m \in DOMAIN after \ gone[i][s] |-> after[m]]
    /\ gone' = [gone EXCEPT ![i][s] = {}]
    /\ Served(i, s)
    /\ UNCHANGED <<storeVars, setup, bad, applied, letters, replayUntil, cp, epoch, parked, to,
                   left, active, pending, queued, pollVars, callVars, faults>>

\* FinishReplay fails, and the request is left pending.
FinishFails(i, s) ==
    /\ pc[i][s] = "finish" /\ Fault("finish")
    /\ Served(i, s)
    /\ UNCHANGED <<storeVars, setup, bad, applied, letters, replayUntil, replays, cp, epoch,
                   parked, to, left, gone, active, pending, queued, pollVars, callVars>>

dropReplays(i, s) ==
    /\ pc[i][s] = "drop"
    /\ queued' = [queued EXCEPT ![i] = {r \in @ : r.segment = s => r \in pending[i][s]}]
    /\ Goto(i, s, IF cp[i][s] < Last THEN "read" ELSE "top")
    /\ UNCHANGED <<storeVars, setup, bad, applied, letters, replayUntil, replays, cp, epoch,
                   parked, to, serving, left, failing, gone, active, pending, pollReplays,
                   pollVars, callVars, faults>>

-----------------------------------------------------------------------------
(* The poller, runReplays.                                                   *)

replaysWanted(i) ==
    pollReplays[i] \/ \E s \in Segments : active[i][s] /\ parked[i][s] # {}

\* queueReplays clears the flag before it reads.
PollReplays(i) ==
    /\ found[i].at = "idle"
    /\ \/ checkReplays[i] /\ checkReplays' = [checkReplays EXCEPT ![i] = FALSE]
       \/ replaysWanted(i) /\ UNCHANGED checkReplays
    /\ pollReplays' = [pollReplays EXCEPT ![i] = FALSE]
    /\ found' = [found EXCEPT ![i] = [at |-> "read", requests |-> {}]]
    /\ UNCHANGED <<storeVars, setup, bad, applied, letters, replayUntil, replays, goVars, active,
                   pending, queued, callVars, faults>>

PendingReplays ==
    {r \in Replay : /\ Known(r.number) /\ replays[r.number].stream = r.stream
                    /\ Rows(r.number)[r.segment] = "pending"}

ReadPending(i) ==
    /\ found[i].at = "read"
    /\ \/ /\ found' = [found EXCEPT ![i] =
                       IF PendingReplays = {} THEN Idle
                       ELSE [at |-> "queue", requests |-> PendingReplays]]
          /\ UNCHANGED <<pollReplays, faults>>
       \/ /\ Fault("read")
          /\ found' = [found EXCEPT ![i] = Idle]
          /\ pollReplays' = [pollReplays EXCEPT ![i] = TRUE]
    /\ UNCHANGED <<storeVars, setup, bad, applied, letters, replayUntil, replays, goVars, active,
                   pending, queued, checkReplays, callVars>>

queueReplays(i) ==
    LET new == {r \in found[i].requests : active[i][r.segment] /\ r \notin queued[i]} IN
    /\ found[i].at = "queue"
    /\ queued' = [queued EXCEPT ![i] = @ \cup new]
    /\ pending' = [pending EXCEPT ![i] = [s \in Segments |->
                     @[s] \cup {r \in new : r.segment = s}]]
    /\ found' = [found EXCEPT ![i] = Idle]
    /\ UNCHANGED <<storeVars, setup, bad, applied, letters, replayUntil, replays, goVars, active,
                   pollReplays, checkReplays, callVars, faults>>

-----------------------------------------------------------------------------
(* ReplayStream.                                                             *)

\* The segment holds letters of the stream.
Holds(s, stream) == \E e \in letters[s] : StreamOf[e] = stream

\* The store's requests with one for every segment that holds letters.
RequestReplay(n, stream) ==
    [m \in DOMAIN replays \cup {n} |->
        IF m # n THEN replays[m]
        ELSE [stream |-> stream, state |-> [s \in Segments |->
                IF Holds(s, stream) THEN "pending" ELSE "none"]]]

\* Any number of calls wait at once. A stream without letters gets no
\* request, and its call returns at once.
ReplayStream(i, stream) ==
    LET n == Min(Numbers \ used) IN
    /\ i \in setup.callers /\ Cardinality(used) < setup.maxRequests
    /\ \E s \in Segments : Holds(s, stream)
    /\ replays' = RequestReplay(n, stream)
    /\ used' = used \cup {n}
    /\ caller' = [caller EXCEPT ![n] = i]
    /\ owed' = [owed EXCEPT ![n] =
                  {e \in UNION {letters[s] : s \in Segments} : StreamOf[e] = stream}]
    /\ checkReplays' = [checkReplays EXCEPT ![i] = TRUE]
    /\ UNCHANGED <<storeVars, setup, bad, applied, letters, replayUntil, goVars, queueVars,
                   found, faults>>

\* ReplayResult of a request that was deleted is a success.
Outcome(n) ==
    IF Known(n) /\ \E s \in Segments : Rows(n)[s] = "pending" THEN "pending"
    ELSE IF Known(n) /\ \E s \in Segments : Rows(n)[s] = "failed" THEN "failed"
    ELSE "ok"

Returns(n) ==
    /\ caller' = [caller EXCEPT ![n] = None]
    /\ owed' = [owed EXCEPT ![n] = {}]
    /\ UNCHANGED <<storeVars, setup, bad, applied, letters, replayUntil, replays, used,
                   goVars, queueVars, pollVars>>

Answered(n) ==
    /\ caller[n] # None /\ Outcome(n) # "pending"
    /\ Returns(n) /\ UNCHANGED faults

\* The call's ctx ends, or its read of the result fails: the request stays.
GivesUp(n) == caller[n] # None /\ Fault("ctx") /\ Returns(n)

-----------------------------------------------------------------------------
(* The surroundings.                                                         *)

\* The handler is fixed.
Fix(e) ==
    /\ e \in bad /\ bad' = bad \ {e}
    /\ UNCHANGED <<storeVars, setup, applied, letters, replayUntil, replays, goVars, queueVars,
                   pollVars, callVars, faults>>

RequestsRebuild ==
    /\ requested < setup.maxRebuilds /\ RequestRebuild
    /\ UNCHANGED <<setup, bad, applied, letters, replayUntil, replays, goVars, queueVars,
                   pollVars, callVars, faults>>

Attended(s) == \E i \in Instances : Mine(i, s)

\* The claim of an instance that is gone runs out; that of a slow one may.
Expire(s) ==
    /\ rows[s].owner # None /\ rows[s].fresh /\ ~RowLocked(s)
    /\ IF Attended(s) THEN Fault("expire") ELSE UNCHANGED faults
    /\ rows' = Expired(s)
    /\ UNCHANGED <<requested, served, failed, setup, bad, applied, letters, replayUntil, replays,
                   goVars, queueVars, pollVars, callVars>>

\* An instance stops without a word, its calls with it, and starts again.
Restart(i) ==
    /\ Fault("restart") /\ i \in setup.run
    /\ LET Reset1(f, x) == [f EXCEPT ![i] = [s \in Segments |-> x]] IN
         /\ pc' = Reset1(pc, "claim") /\ cp' = Reset1(cp, 0) /\ epoch' = Reset1(epoch, 0)
         /\ to' = Reset1(to, 0) /\ parked' = Reset1(parked, {})
         /\ serving' = Reset1(serving, {}) /\ left' = Reset1(left, {})
         /\ failing' = Reset1(failing, FALSE) /\ gone' = Reset1(gone, {})
         /\ active' = Reset1(active, FALSE) /\ pending' = Reset1(pending, {})
    /\ queued' = [queued EXCEPT ![i] = {}]
    /\ pollReplays' = [pollReplays EXCEPT ![i] = FALSE]
    /\ checkReplays' = [checkReplays EXCEPT ![i] = FALSE]
    /\ found' = [found EXCEPT ![i] = Idle]
    /\ caller' = [n \in Numbers |-> IF caller[n] = i THEN None ELSE caller[n]]
    /\ owed' = [n \in Numbers |-> IF caller[n] = i THEN {} ELSE owed[n]]
    /\ UNCHANGED <<storeVars, setup, bad, applied, letters, replayUntil, replays, used>>

Work(i, s) ==
    \/ ClaimLost(i, s) \/ Claim(i, s) \/ loadParked(i, s) \/ Rebuild(i, s) \/ Top(i, s)
    \/ applyBatch(i, s) \/ applyOneByOne(i, s) \/ EndOfBatch(i, s)
    \/ TakeReplay(i, s) \/ replayStream(i, s) \/ FinishReplay(i, s) \/ LockRequest(i, s)
    \/ CommitFinish(i, s) \/ dropReplays(i, s)

Poll(i) == PollReplays(i) \/ ReadPending(i) \/ queueReplays(i)

Next ==
    \/ \E i \in Instances : Poll(i) \/ Restart(i)
                            \/ \E s \in Segments : Work(i, s) \/ CommitFails(i, s) \/ FinishFails(i, s)
                            \/ \E stream \in Streams : ReplayStream(i, stream)
    \/ \E n \in Numbers : Answered(n) \/ GivesUp(n)
    \/ RequestsRebuild
    \/ \E e \in Events : Fix(e)
    \/ \E s \in Segments : Expire(s)

Spec == Init /\ [][Next]_vars

\* Goroutines run, a ReplayStream looks again at every tick, and the claim of
\* an instance that is gone runs out. A handler need never be fixed.
FairSpec ==
    /\ Spec
    /\ \A i \in Instances : WF_vars(Poll(i))
    /\ \A i \in Instances, s \in Segments : WF_vars(Work(i, s))
    /\ \A s \in Segments : WF_vars(~Attended(s) /\ Expire(s))
    /\ \A n \in Numbers : WF_vars(Answered(n))

-----------------------------------------------------------------------------
(* Properties.                                                               *)

\* Every event up to the checkpoint is in the read model or a dead letter,
\* exactly one of them and once, and no later event is either: across
\* failures, takeovers, rebuilds and replays.
AppliedOrLettered ==
    \A s \in Segments : \A e \in InSegment(s) :
      applied[e] + (IF e \in letters[s] THEN 1 ELSE 0) = IF e <= rows[s].pos THEN 1 ELSE 0

\* Events of a stream reach the read model in order: one that was skipped
\* holds the later ones of its stream and segment back until it is replayed
\* (Definition.OnError: the stream is parked).
StreamInOrder ==
    \A e, f \in Events :
      /\ StreamOf[e] = StreamOf[f] /\ setup.segmentOf[e] = setup.segmentOf[f]
      /\ e < f /\ applied[f] > 0
      => applied[e] > 0

\* ReplayStream returns without an error only when the letters the stream had
\* at the call have been applied, or a rebuild has started over: also when a
\* later request of the stream swept its own away.
ReplayIsTrue ==
    [][\A n \in Numbers :
         caller[n] # None /\ caller'[n] = None /\ Outcome(n) = "ok" =>
           \A s \in Segments : owed[n] \cap letters[s] = {}]_vars

\* A request every segment has served is deleted, whichever finishes last
\* (FinishReplay: "the second sees the first one done").
SucceededIsDeleted ==
    \A n \in DOMAIN replays : \E s \in Segments : Rows(n)[s] \in {"pending", "failed"}

\* Every ReplayStream is answered, and every request tried, also one whose
\* caller has left: none is forgotten when claims move, instances restart, a
\* poll reads an old list or a request comes while another is served.
ReplayAnswered ==
    "finish" \notin setup.failing => \A n \in Numbers :
      caller[n] # None \/ Outcome(n) = "pending" ~> caller[n] = None /\ Outcome(n) # "pending"

\* Nor are they when an outcome could not be recorded (serveReplays: "the next
\* poll queues it again").
UnrecordedIsServedAgain == \A n \in Numbers : caller[n] # None ~> caller[n] = None

=============================================================================
