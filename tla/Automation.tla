----------------------------- MODULE Automation -----------------------------
(***************************************************************************)
(* The automation runner and its claim scheduler, automation/automation.go   *)
(* and automation/claim_scheduler.go, over the store of AutomationStore.     *)
(*                                                                          *)
(* Instances of one automation share a todo list and a store. Each runs one  *)
(* loop (Run or RunOnce) that asks its scheduler for batches, and one        *)
(* goroutine per batch that works its items off. A call of Next is two       *)
(* steps, between which the other instances, the batches and the clock move. *)
(* An unsegmented list is one segment, the key 0.                            *)
(***************************************************************************)
EXTENDS AutomationStore

CONSTANTS
    Items,          \* the todo list, a finite set of numbers in claim order
    segmentOf,      \* [Items -> Segments], the column of a segmented list
    OrderingKey,    \* [Items -> ordering keys]
    Setups,         \* the definitions the instances may be started with, each
                    \* with its bounds: mortal, the instances that may crash or
                    \* be stopped; failing, the calls that may fail; maxFaults,
                    \* how many calls and items fail, items defer, instances die; maxToggles, how often the
                    \* automation is paused or resumed
    Lease,          \* how long an item is claimed for
    PollInterval,
    Term,           \* how long a segment is kept while others wait
    Concurrency     \* items of one batch that run at once

\* What a setup fixes of a Definition, and the bounds that go with it.
Definition ==
    [segmented : BOOLEAN, sharded : BOOLEAN, items : SUBSET Items, run : SUBSET Owners,
     once : SUBSET Owners, maxSegments : Nat \ {0}, batchSize : Nat \ {0},
     mortal : SUBSET Owners,
     failing : SUBSET {"check", "live", "renew", "acquire", "claim", "release", "defer"},
     maxFaults : Nat, maxToggles : Nat,
     maxDelay : 0 .. TTL - Lease - 1]

ASSUME AutomationAssumption ==
    /\ Setups \subseteq Definition
    /\ Items \subseteq Nat /\ IsFiniteSet(Items) /\ 0 \in Segments
    /\ segmentOf \in [Items -> Segments]
    /\ Lease \in Nat \ {0} /\ PollInterval \in Nat \ {0} /\ Term \in Nat
    /\ TTL = 3 * Lease + PollInterval
    /\ PollInterval \in Pauses /\ Pauses \subseteq 1 .. TTL
    /\ Oldest = 0
    /\ Concurrency \in Nat \ {0}

VARIABLES
    setup,          \* [segmented, sharded, items, run, once, maxSegments,
                    \* batchSize, mortal, failing, maxFaults, maxToggles,
                    \* maxDelay]: its Definition and the bounds that go with it
    todo,           \* [done, fresh, lease, deadline] of each item: its lease
                    \* in the list, and when its scheduler takes it to end
    paused,         \* the automation is paused in the store
    pc,             \* where an instance's loop is
    left,           \* when its wait times out
    held,           \* the segments its scheduler holds
    lastEligible,   \* its last Acquire left segments waiting
    busy,           \* unsegmented: a batch is running
    batches,        \* the batches it runs
    nudge,          \* its nudge channel, of capacity 1
    released,       \* it gave its segments back for this pause
    drained,        \* a batch finished since it last asked for work
    stopping,       \* its ctx is done
    spent,          \* the time its Next has taken
    faults, toggles,
    leftover        \* the items a deferred batch gave up, until their leases end

schedVars == <<held, lastEligible, busy>>
loopVars == <<pc, left, nudge, released, drained, stopping, spent>>
vars == <<setup, rows, line, todo, paused, schedVars, loopVars, batches, faults,
          toggles, leftover>>

NotHeld == [held |-> FALSE]
Held(e) == [held |-> TRUE, epoch |-> e, since |-> 0, served |-> FALSE, busy |-> FALSE,
            leaseEnd |-> 0, deferred |-> FALSE, deferUntil |-> 0]

HeldSegment == [held : {TRUE}, epoch : 0 .. Epochs - 1, since : 0 .. Term,
                served : BOOLEAN, busy : BOOLEAN, leaseEnd : Instants,
                deferred : BOOLEAN, deferUntil : Instants]

Batch == [key : Segments, items : SUBSET Items, started : SUBSET Items,
          running : SUBSET Items, parked : SUBSET {OrderingKey[x] : x \in Items},
          stopped : {"no", "deferred", "stopping"}, deadline : Instants]

TypeOK ==
    /\ StoreTypeOK
    /\ setup \in Setups
    /\ todo \in [Items -> [done : BOOLEAN, fresh : BOOLEAN, lease : Instants,
                         deadline : Instants]]
    /\ paused \in BOOLEAN
    /\ pc \in [Owners -> {"check", "claim", "decide", "wait",
                          "stall", "drain", "returned", "crashed"}]
    /\ left \in [Owners -> 0 .. PollInterval]
    /\ held \in [Owners -> [Segments -> HeldSegment \cup {NotHeld}]]
    /\ \A f \in {lastEligible, busy, nudge, released, drained, stopping} :
         f \in [Owners -> BOOLEAN]
    /\ \A i \in Owners : batches[i] \subseteq Batch
    /\ spent \in [Owners -> 0 .. setup.maxDelay]
    /\ faults \in 0 .. setup.maxFaults /\ toggles \in 0 .. setup.maxToggles
    /\ leftover \subseteq Items

Init ==
    /\ setup \in Setups
    /\ StoreInit
    /\ todo = [x \in Items |-> [done |-> x \notin setup.items, fresh |-> x \in setup.items,
                             lease |-> 0, deadline |-> 0]]
    /\ paused = FALSE
    /\ pc = [i \in Owners |-> IF i \in setup.run THEN "check" ELSE "returned"]
    /\ left = [i \in Owners |-> 0]
    /\ held = [i \in Owners |-> [k \in Segments |-> NotHeld]]
    /\ lastEligible = [i \in Owners |-> FALSE]
    /\ busy = [i \in Owners |-> FALSE]
    /\ batches = [i \in Owners |-> {}]
    /\ nudge = [i \in Owners |-> FALSE]
    /\ released = [i \in Owners |-> FALSE]
    /\ drained = [i \in Owners |-> FALSE]
    /\ stopping = [i \in Owners |-> FALSE]
    /\ spent = [i \in Owners |-> 0]
    /\ faults = 0 /\ toggles = 0
    /\ leftover = {}

-----------------------------------------------------------------------------
(* The todo list.                                                            *)

KeyOf(x) == IF setup.segmented THEN segmentOf[x] ELSE 0

Claimable(x) == ~todo[x].done /\ todo[x].lease = 0

\* What a claim returns for a segment: its first pending items, in the order
\* of their numbers.
ClaimOf(k) ==
    LET pending == {x \in Items : KeyOf(x) = k /\ Claimable(x)} IN
    {x \in pending : Cardinality({y \in pending : y < x}) < setup.batchSize}

\* The list leases the items from its own clock.
Claimed(xs, end) ==
    [x \in Items |-> IF x \in xs
       THEN [done |-> FALSE, fresh |-> FALSE, lease |-> Lease, deadline |-> end] ELSE todo[x]]

\* The deadline of items claimed d after the scheduler looked at its clock.
DeadlineAt(d) == IF d < Lease THEN Lease - d ELSE 0

\* Shards names every bucket, Query the segments with pending items.
segments == IF setup.sharded THEN Segments
            ELSE {k \in Segments : \E x \in Items : KeyOf(x) = k /\ Claimable(x)}

-----------------------------------------------------------------------------
(* The scheduler.                                                            *)

HeldBy(i) == {k \in Segments : held[i][k].held}

LeaseOf(i, k) == [key |-> k, owner |-> i, epoch |-> held[i][k].epoch]

Giving(i, k, d) == [lease |-> LeaseOf(i, k), deferFor |-> d, served |-> held[i][k].served]

\* Next holds the scheduler's mutex between its two halves.
Unlocked(i) == pc[i] # "claim"

\* The held segments that no batch runs for.
Free(i) == {k \in HeldBy(i) : ~held[i][k].busy}

Fault == faults < setup.maxFaults /\ faults' = faults + 1

\* Release, when its error is only logged: with or without effect.
GiveBack(rel) ==
    \/ rows' = ReleaseTo(rows, rel, 0) /\ line' = ReleaseLine(rows, line, rel)
    \/ "release" \in setup.failing /\ UNCHANGED storeVars

Goto(i, where) == pc' = [pc EXCEPT ![i] = where]

\* The top of the loop: the automation is not paused and its dependencies are
\* live, so ask the scheduler, having read how many batches have drained.
Asks(i) ==
    /\ pc[i] = "check" /\ ~stopping[i] /\ ~paused
    /\ released' = [released EXCEPT ![i] = FALSE]
    /\ drained' = [drained EXCEPT ![i] = FALSE]

\* Renew: keep what is held, learn what was lost, and pass the pause a lost
\* batch asked for on to the others.
Kept(i) == {k \in HeldBy(i) : Renewable(rows, {LeaseOf(i, k)}, 0) # {}}

RenewedRows(i) ==
    LET after == RenewTo(rows, {LeaseOf(i, k) : k \in HeldBy(i)}, 0)
        kept  == Kept(i)
    IN [k \in Segments |->
          IF held[i][k].held /\ k \notin kept /\ held[i][k].deferred
          THEN DeferTo(after, k, held[i][k].deferUntil, 0)[k] ELSE after[k]]

\* At its cap, with segments waiting, the scheduler gives one free segment
\* back that it has held for its term; which are past it are not told apart.
Rotations(i) ==
    LET kept == Kept(i)
        turn == {k \in kept \cap Free(i) : held[i][k].since >= Term}
    IN IF lastEligible[i] /\ Cardinality(kept) >= setup.maxSegments /\ turn # {}
       THEN {{k} : k \in turn} ELSE {{}}

\* Renewed, and without the segment of the rotation.
Rotated(i, out) == ReleaseTo(RenewedRows(i), {Giving(i, k, 0) : k \in out}, 0)

RotatedLine(i, out) == ReleaseLine(RenewedRows(i), line, {Giving(i, k, 0) : k \in out})

Room(i, out) ==
    LET n == setup.maxSegments - Cardinality(Kept(i) \ out) IN IF n < 0 THEN 0 ELSE n

\* Next, first half: renew, rotate, and acquire up to the cap.
Acquiring(i) ==
    /\ Asks(i) /\ setup.segmented
    /\ \E out \in Rotations(i) :
         LET cands == segments
             rs    == Rotated(i, out)
             ln    == Seen(RotatedLine(i, out), cands)
             grant == Granted(rs, ln, cands, Room(i, out), 0)
         IN /\ line' = ln
            /\ rows' = GrantTo(rs, grant, i, 0)
            /\ lastEligible' = [lastEligible EXCEPT ![i] = Eligible(rs, cands, 0) # grant]
            /\ held' = [held EXCEPT ![i] = [k \in Segments |->
                           CASE k \in grant -> Held(rows'[k].epoch)
                             [] k \in (Kept(i) \ out) \ grant -> @[k]
                             [] OTHER -> NotHeld]]
    /\ Goto(i, "claim")
    /\ spent' = [spent EXCEPT ![i] = 0]
    /\ UNCHANGED <<setup, todo, paused, busy, batches, left, nudge, stopping, faults,
                   toggles, leftover>>

NewBatch(k, end) == [key |-> k, items |-> ClaimOf(k), started |-> {}, running |-> {},
                     parked |-> {}, stopped |-> "no", deadline |-> end]

\* The segments of ks that have something to claim.
WithWork(ks) == {k \in ks : ClaimOf(k) # {}}

MutantServingNotBusy(i, ks, end) ==
    [k \in Segments |-> IF k \in ks
       THEN [held[i][k] EXCEPT !.served = TRUE, !.leaseEnd = end] ELSE held[i][k]]

\* The held segments once batches with that deadline were claimed for ks.
Serving(i, ks, end) ==
    [k \in Segments |-> IF k \in ks
       THEN [held[i][k] EXCEPT !.served = TRUE, !.busy = TRUE, !.leaseEnd = end]
       ELSE held[i][k]]

\* Next, second half: take the deadline, claim for every free segment in one
\* call and start the batches; a segment with nothing to claim is given back
\* and not taken again before the next poll.
Claiming(i) ==
    LET ks   == WithWork(Free(i))
        idle == Free(i) \ ks
        rel  == {Giving(i, k, PollInterval) : k \in idle}
    IN /\ pc[i] = "claim"
       /\ \E d \in 0 .. spent[i] :
            LET end == DeadlineAt(d) IN
            /\ todo' = Claimed(UNION {ClaimOf(k) : k \in ks}, end)
            /\ held' = [held EXCEPT ![i] = [k \in Segments |->
                           IF k \in idle THEN NotHeld ELSE Serving(i, ks, end)[k]]]
            /\ batches' = [batches EXCEPT ![i] = @ \cup {NewBatch(k, end) : k \in ks}]
       /\ leftover' = leftover \ UNION {ClaimOf(k) : k \in ks}
       /\ rows' = ReleaseTo(rows, rel, 0)
       /\ line' = ReleaseLine(rows, line, rel)
       /\ Goto(i, IF ks # {} THEN "check" ELSE "decide")
       /\ UNCHANGED <<setup, paused, lastEligible, busy, left, nudge, released, drained,
                      stopping, spent, faults, toggles>>

\* Unsegmented: no batch runs, and the automation is not deferred.
MayClaim(i) == ~busy[i] /\ ~pausedAt(rows[0], 0)

\* Next for an unsegmented list, in one step: a claim over the whole list, by
\* a clock looked at before.
nextUnsegmented(i) ==
    LET claims == MayClaim(i) /\ ClaimOf(0) # {} IN
    /\ Asks(i) /\ ~setup.segmented
    /\ \E d \in 0 .. setup.maxDelay :
         LET end == DeadlineAt(d) IN
         /\ todo' = IF claims THEN Claimed(ClaimOf(0), end) ELSE todo
         /\ batches' = [batches EXCEPT ![i] = IF claims THEN @ \cup {NewBatch(0, end)} ELSE @]
    /\ leftover' = IF claims THEN leftover \ ClaimOf(0) ELSE leftover
    /\ busy' = [busy EXCEPT ![i] = @ \/ claims]
    /\ Goto(i, IF claims THEN "check" ELSE "decide")
    /\ UNCHANGED <<setup, rows, line, paused, held, lastEligible, left, nudge, stopping,
                   spent, faults, toggles>>

\* Run backs off and tries again; RunOnce ends with the error.
AfterError(i) == IF i \in setup.once THEN "drain" ELSE "stall"

\* A call of the store or the list fails: without effect or, when its answer
\* was lost, with the effect the scheduler did not learn of.
RenewFails(i) ==
    /\ Asks(i) /\ "renew" \in setup.failing /\ HeldBy(i) # {}
    /\ rows' \in {rows, RenewTo(rows, {LeaseOf(i, k) : k \in HeldBy(i)}, 0)}
    /\ UNCHANGED <<line, todo, held>>

\* The Release of the rotation, the query for segments, or Acquire.
AcquireFails(i) ==
    /\ Asks(i) /\ "acquire" \in setup.failing /\ setup.segmented
    /\ \E out \in Rotations(i) :
         LET rs == Rotated(i, out)
             ln == Seen(RotatedLine(i, out), segments)
         IN /\ \/ rows' = RenewedRows(i) /\ line' = line
               \/ rows' = rs /\ line' = RotatedLine(i, out)
               \/ /\ rows' = GrantTo(rs, Granted(rs, ln, segments, Room(i, out), 0), i, 0)
                  /\ line' = ln
            /\ held' = [held EXCEPT ![i] = [k \in Segments |->
                           IF k \in Kept(i) \ out THEN @[k] ELSE NotHeld]]
    /\ UNCHANGED todo

\* The claim; or, unsegmented, the look at the deferral before it.
ClaimFails(i) ==
    /\ "claim" \in setup.failing
    /\ \/ /\ pc[i] = "claim"
          /\ todo' \in {todo, Claimed(UNION {ClaimOf(k) : k \in Free(i)}, 0)}
          /\ UNCHANGED <<released, drained>>
       \/ /\ Asks(i) /\ ~setup.segmented /\ ~busy[i]
          /\ \/ todo' = todo
             \/ MayClaim(i) /\ todo' = Claimed(ClaimOf(0), 0)
    /\ UNCHANGED <<rows, line, held>>

NextFails(i) ==
    /\ Fault
    /\ RenewFails(i) \/ AcquireFails(i) \/ ClaimFails(i)
    /\ Goto(i, AfterError(i))
    /\ UNCHANGED <<setup, paused, lastEligible, busy, batches, left, nudge, stopping,
                   spent, toggles, leftover>>

\* The release of an idle segment fails when batches have been claimed: Next
\* returns the error and not the batches.
IdleReleaseFails(i) ==
    LET ks == WithWork(Free(i)) IN
    /\ pc[i] = "claim" /\ "release" \in setup.failing /\ Fault
    /\ \E d \in 0 .. spent[i], k \in Free(i) \ ks, done \in SUBSET (Free(i) \ ks) :
         LET rel == {Giving(i, j, PollInterval) : j \in done \ {k}}
             end == DeadlineAt(d)
         IN
         /\ todo' = Claimed(UNION {ClaimOf(j) : j \in ks}, end)
         /\ rows' = ReleaseTo(rows, rel, 0)
         /\ line' = ReleaseLine(rows, line, rel)
         /\ held' = [held EXCEPT ![i] = [j \in Segments |->
                        IF j \in done \cup {k} THEN NotHeld ELSE Serving(i, ks, end)[j]]]
    /\ Goto(i, AfterError(i))
    /\ UNCHANGED <<setup, paused, lastEligible, busy, batches, left, nudge, released,
                   drained, stopping, spent, toggles, leftover>>

-----------------------------------------------------------------------------
(* The loop of Run and RunOnce.                                              *)

\* Close gives back every held segment, with the pause a batch asked for.
Close(i) ==
    LET rel == {Giving(i, k, IF held[i][k].deferred THEN held[i][k].deferUntil ELSE 0)
                  : k \in HeldBy(i)}
    IN /\ GiveBack(rel)
       /\ held' = [held EXCEPT ![i] = [k \in Segments |-> NotHeld]]

Wait(i) == Goto(i, "wait") /\ left' = [left EXCEPT ![i] = PollInterval]

MutantGiveBackAtOnce(i) == ~released[i]

MutantGiveNothingBack(i) == FALSE

\* While it is paused, Run gives its segments back once, when no batch runs.
MayGiveBack(i) == ~released[i] /\ batches[i] = {}

\* The top of the loop while the automation is paused.
StandPaused(i) ==
    /\ pc[i] = "check" /\ ~stopping[i] /\ paused
    /\ IF i \in setup.once
       THEN Goto(i, "drain") /\ UNCHANGED <<rows, line, held, left, released>>
       ELSE /\ Wait(i)
            /\ IF MayGiveBack(i)
               THEN Close(i) /\ released' = [released EXCEPT ![i] = TRUE]
               ELSE UNCHANGED <<rows, line, held, released>>
    /\ UNCHANGED <<setup, todo, paused, lastEligible, busy, batches, nudge, drained,
                   stopping, spent, faults, toggles, leftover>>

\* The check of the pause or of a dependency fails.
CheckFails(i) ==
    /\ pc[i] = "check" /\ ~stopping[i] /\ "check" \in setup.failing /\ Fault
    /\ Goto(i, AfterError(i))
    /\ UNCHANGED <<setup, storeVars, todo, paused, schedVars, batches, left, nudge,
                   released, drained, stopping, spent, toggles, leftover>>

\* A dependency is not live: wait and look again.
NotLive(i) ==
    /\ pc[i] = "check" /\ ~stopping[i] /\ ~paused /\ "live" \in setup.failing /\ Fault
    /\ Wait(i)
    /\ released' = [released EXCEPT ![i] = FALSE]
    /\ UNCHANGED <<setup, storeVars, todo, paused, schedVars, batches, nudge, drained,
                   stopping, spent, toggles, leftover>>

MutantNothingMore(i) == batches[i] = {}

\* RunOnce is done: no batch runs and none finished since Next was asked.
NothingMore(i) == batches[i] = {} /\ ~drained[i]

\* Next returned no batch.
Decide(i) ==
    /\ pc[i] = "decide"
    /\ IF i \in setup.once /\ NothingMore(i) THEN Goto(i, "drain") /\ UNCHANGED left
                                             ELSE Wait(i)
    /\ UNCHANGED <<setup, storeVars, todo, paused, schedVars, batches, nudge, released,
                   drained, stopping, spent, faults, toggles, leftover>>

MutantWakeByNudge(i) ==
    /\ pc[i] \in {"wait", "stall"} /\ (nudge[i] \/ stopping[i])
    /\ nudge' = [nudge EXCEPT ![i] = FALSE]
    /\ Goto(i, "check")
    /\ left' = [left EXCEPT ![i] = 0]
    /\ UNCHANGED <<setup, storeVars, todo, paused, schedVars, batches, released, drained,
                   stopping, spent, faults, toggles, leftover>>

\* The wait ends: by a nudge, by the poll interval, or because ctx is done.
Wake(i) ==
    /\ \/ pc[i] = "wait" /\ nudge[i] /\ nudge' = [nudge EXCEPT ![i] = FALSE]
       \/ pc[i] = "wait" /\ (left[i] = 0 \/ stopping[i]) /\ UNCHANGED nudge
       \/ pc[i] = "stall" /\ UNCHANGED nudge
    /\ Goto(i, "check")
    /\ left' = [left EXCEPT ![i] = 0]
    /\ UNCHANGED <<setup, storeVars, todo, paused, schedVars, batches, released, drained,
                   stopping, spent, faults, toggles, leftover>>

Stop(i) ==
    /\ i \in setup.mortal /\ ~stopping[i] /\ pc[i] \notin {"returned", "crashed"} /\ Fault
    /\ stopping' = [stopping EXCEPT ![i] = TRUE]
    /\ UNCHANGED <<setup, storeVars, todo, paused, schedVars, batches, pc, left, nudge,
                   released, drained, spent, toggles, leftover>>

LeaveLoop(i) ==
    /\ pc[i] = "check" /\ stopping[i]
    /\ Goto(i, "drain")
    /\ UNCHANGED <<setup, storeVars, todo, paused, schedVars, batches, left, nudge,
                   released, drained, stopping, spent, faults, toggles, leftover>>

\* Wait for the batches, close the scheduler, return.
Return(i) ==
    /\ pc[i] = "drain" /\ batches[i] = {}
    /\ Close(i)
    /\ Goto(i, "returned")
    /\ UNCHANGED <<setup, todo, paused, lastEligible, busy, batches, left, nudge, released,
                   drained, stopping, spent, faults, toggles, leftover>>

Crash(i) ==
    /\ i \in setup.mortal /\ pc[i] \notin {"returned", "crashed"} /\ Fault
    /\ Goto(i, "crashed")
    /\ batches' = [batches EXCEPT ![i] = {}]
    /\ held' = [held EXCEPT ![i] = [k \in Segments |-> NotHeld]]
    /\ UNCHANGED <<setup, storeVars, todo, paused, lastEligible, busy, left, nudge,
                   released, drained, stopping, spent, toggles, leftover>>

SetPaused(b) ==
    /\ toggles < setup.maxToggles /\ toggles' = toggles + 1
    /\ paused # b /\ paused' = b
    /\ UNCHANGED <<setup, storeVars, todo, schedVars, loopVars, batches, faults, leftover>>

-----------------------------------------------------------------------------
(* A batch.                                                                  *)

Chain(b, x) == {y \in b.items : OrderingKey[y] = OrderingKey[x]}

InUse(b, x) == \E y \in b.running : OrderingKey[y] = OrderingKey[x]

\* The heads of the queues whose ordering key is free and not parked.
Ready(b) ==
    {x \in b.items \ b.started :
       /\ ~InUse(b, x) /\ OrderingKey[x] \notin b.parked
       /\ \A y \in Chain(b, x) : y < x => y \in b.started}

\* The item next() picks: the head of the ordering key that appears first in
\* the batch. Nothing once the batch has stopped or its slots are taken.
next(b) ==
    IF b.stopped # "no" \/ Cardinality(b.running) >= Concurrency THEN {}
    ELSE {x \in Ready(b) : \A y \in Ready(b) : Min(Chain(b, x)) <= Min(Chain(b, y))}

Becomes(i, b, c) == batches' = [batches EXCEPT ![i] = (@ \ {b}) \cup {c}]

\* An item whose lease ran out in the batch fails without being worked.
StartItem(i, b) ==
    /\ \E x \in next(b) :
         Becomes(i, b, IF b.deadline > 0
           THEN [b EXCEPT !.started = @ \cup {x}, !.running = @ \cup {x}]
           ELSE [b EXCEPT !.started = @ \cup {x}, !.parked = @ \cup {OrderingKey[x]}])
    /\ UNCHANGED <<setup, storeVars, todo, paused, schedVars, loopVars, faults, toggles,
                   leftover>>

WorkDone(i, b, x) ==
    /\ Becomes(i, b, [b EXCEPT !.running = @ \ {x}])
    /\ todo' = [todo EXCEPT ![x].done = TRUE]
    /\ leftover' = leftover \ {x}
    /\ UNCHANGED <<setup, storeVars, paused, schedVars, loopVars, faults, toggles>>

\* Work returned an error; or, when ctx is done, ctx's own error, which is
\* no outcome.
WorkFails(i, b, x) ==
    /\ \/ Fault /\ Becomes(i, b, [b EXCEPT !.running = @ \ {x},
                                           !.parked = @ \cup {OrderingKey[x]}])
       \/ /\ stopping[i] /\ UNCHANGED faults
          /\ Becomes(i, b, [b EXCEPT !.running = @ \ {x},
                                     !.stopped = IF @ = "no" THEN "stopping" ELSE @])
    /\ UNCHANGED <<setup, storeVars, todo, paused, schedVars, loopVars, toggles, leftover>>

\* Work asked to pause its segment for d; Done notes it with the segment, or
\* writes it at once when the segment is not held. An error is only logged.
WorkDefers(i, b, x, d) ==
    LET k == b.key IN
    /\ Fault /\ Unlocked(i)
    /\ Becomes(i, b, [b EXCEPT !.running = @ \ {x}, !.stopped = "deferred"])
    /\ IF setup.segmented /\ held[i][k].held
       THEN /\ held' = [held EXCEPT ![i][k].deferred = TRUE,
                                    ![i][k].deferUntil = Max({@, d})]
            /\ UNCHANGED storeVars
       ELSE /\ Defer(k, d, 0) \/ ("defer" \in setup.failing /\ UNCHANGED storeVars)
            /\ UNCHANGED held
    /\ UNCHANGED <<setup, todo, paused, lastEligible, busy, loopVars, toggles, leftover>>

MutantPauseOf(h) == h.deferUntil

\* How long a drained segment that deferred is paused: items the batch did
\* not start stay leased until leaseEnd, or a little longer.
PauseOf(h) == Max({h.deferUntil, h.leaseEnd})

\* The batch is over: its segment is given back if it deferred, else it may
\* be claimed for again, and the loop is nudged.
Drained(i, b) ==
    LET k == b.key
        h == held[i][k]
        rel == {Giving(i, k, PauseOf(h))}
    IN /\ b.running = {} /\ next(b) = {} /\ Unlocked(i)
       /\ batches' = [batches EXCEPT ![i] = @ \ {b}]
       /\ nudge' = [nudge EXCEPT ![i] = TRUE]
       /\ drained' = [drained EXCEPT ![i] = i \in setup.once]
       /\ busy' = [busy EXCEPT ![i] = FALSE]
       /\ IF setup.segmented /\ h.held /\ h.deferred
          THEN GiveBack(rel) /\ held' = [held EXCEPT ![i][k] = NotHeld]
          ELSE /\ UNCHANGED storeVars
               /\ held' = IF setup.segmented /\ h.held
                          THEN [held EXCEPT ![i][k].busy = FALSE] ELSE held
       /\ leftover' = IF b.stopped = "deferred"
                      THEN leftover \cup {x \in b.items \ b.started : todo[x].lease > 0}
                      ELSE leftover
       /\ UNCHANGED <<setup, todo, paused, lastEligible, pc, left, released, stopping, spent,
                      faults, toggles>>

-----------------------------------------------------------------------------

\* A loop comes round to Renew before the lease of a segment it runs a batch
\* for ends: the lease is several polls long.
InTime(i) ==
    \A b \in batches[i] : rows[b.key].owner = i => rows[b.key].leaseUntil > 1

\* Time passes. Dispatching an item takes none, a Next at most maxDelay, and
\* work, which heeds its context, no longer than its deadline.
Tick ==
    /\ \A i \in Owners : Unlocked(i) \/ spent[i] < setup.maxDelay
    /\ \A i \in Owners : InTime(i)
    /\ \A i \in Owners : \A b \in batches[i] :
         /\ next(b) = {}
         /\ b.running = {} \/ b.deadline > 0
    /\ Pass
    /\ todo' = [x \in Items |-> [todo[x] EXCEPT !.lease = Nearer(@), !.deadline = Nearer(@)]]
    /\ leftover' = {x \in leftover : todo[x].lease > 1}
    /\ left' = [i \in Owners |-> Nearer(left[i])]
    /\ spent' = [i \in Owners |-> IF Unlocked(i) THEN spent[i] ELSE spent[i] + 1]
    /\ held' = [i \in Owners |-> [k \in Segments |->
         IF ~held[i][k].held THEN NotHeld
         ELSE [held[i][k] EXCEPT !.since = IF @ < Term THEN @ + 1 ELSE @,
                                 !.leaseEnd = Nearer(@), !.deferUntil = Nearer(@)]]]
    /\ batches' = [i \in Owners |->
         {[b EXCEPT !.deadline = Nearer(@)] : b \in batches[i]}]
    /\ UNCHANGED <<setup, paused, lastEligible, busy, pc, nudge, released, drained, stopping,
                   faults, toggles>>

Loop(i) ==
    \/ StandPaused(i) \/ Acquiring(i) \/ Claiming(i)
    \/ nextUnsegmented(i) \/ Decide(i) \/ Wake(i) \/ LeaveLoop(i) \/ Return(i)

RunBatch(i) ==
    \E b \in batches[i] :
      \/ StartItem(i, b)
      \/ \E x \in b.running : WorkDone(i, b, x)

DrainBatch(i) == \E b \in batches[i] : Drained(i, b)

Faulty(i) ==
    \/ NextFails(i) \/ IdleReleaseFails(i) \/ CheckFails(i) \/ NotLive(i)
    \/ Stop(i) \/ Crash(i)
    \/ \E b \in batches[i] : \E x \in b.running :
         WorkFails(i, b, x) \/ \E d \in Pauses : WorkDefers(i, b, x, d)

Next ==
    \/ Tick
    \/ \E b \in BOOLEAN : SetPaused(b)
    \/ \E i \in Owners : Loop(i) \/ RunBatch(i) \/ DrainBatch(i) \/ Faulty(i)

Spec == Init /\ [][Next]_vars

\* Loops and batches keep running and time passes; a batch that waits for the
\* scheduler's mutex gets it between two calls of Next, as Go's mutexes do not
\* starve a waiter. Instances die, calls and work fail only finitely often.
FairSpec ==
    /\ Spec
    /\ WF_vars(Tick)
    /\ \A i \in Owners : WF_vars(Loop(i)) /\ WF_vars(RunBatch(i)) /\ SF_vars(DrainBatch(i))

-----------------------------------------------------------------------------
(* Properties.                                                               *)

\* The batches whose items may still be worked.
Leased(i) == {b \in batches[i] : b.deadline > 0}

\* A segment is its instance's, in the store, until the deadline of the items
\* of a batch it runs: the segment lease is longer (newClaimScheduler), it is
\* renewed before every claim, and a busy segment is not given back.
SegmentOutlivesBatch ==
    setup.segmented =>
      \A i \in Owners : \A b \in Leased(i) :
        heldAt(rows[b.key], 0) /\ rows[b.key].owner = i

\* Items of one ordering key of a segmented list never run at once, on one
\* instance or on two, before their deadlines (Definition.OrderingKey,
\* Definition.Concurrency).
ChainRunsAlone ==
    setup.segmented =>
      \A i, j \in Owners : \A b \in Leased(i), c \in Leased(j) :
        \A x \in b.running, y \in c.running :
          OrderingKey[x] = OrderingKey[y] => x = y

\* y is claimed for the first time from the segment of x.
Overtakes(y, x) ==
    setup.segmented /\ KeyOf(y) = KeyOf(x) /\ todo[y].fresh /\ ~todo'[y].fresh

\* Until the deadline of items that a deferred batch did not start, nothing
\* more is claimed from their segment, also when giving it back failed
\* (Drained).
DeferralHoldsSegment ==
    [][\A x \in leftover : todo[x].deadline > 0 =>
         \A y \in Items : ~Overtakes(y, x)]_vars

\* Nor while they are leased, which may be longer: false, see the README
\* (Drained: "items the batch did not start stay leased until then").
NothingOvertakes ==
    [][\A x \in leftover \cap leftover' : \A y \in Items : ~Overtakes(y, x)]_vars

\* RunOnce returns of its own accord only when no item of a segment it holds
\* is still waiting for its first claim (RunOnce: "none finished since the
\* scheduler was last asked").
OnceLeavesNothing ==
    [][\A i \in setup.once : pc[i] = "decide" /\ pc'[i] = "drain" =>
         \A x \in Items : todo[x].fresh => ~held[i][KeyOf(x)].held]_vars

\* Every item is worked in the end, unless the automation stays paused or no
\* instance keeps running (Run never gives up).
EveryItemIsDone ==
    setup.run \ (setup.mortal \cup setup.once) # {} =>
      <>(paused \/ \A x \in Items : todo[x].done)

\* A pause reaches every instance: each gives its segments back, unless the
\* automation is resumed first.
PauseFreesSegments == paused ~> (~paused \/ \A i \in Owners : HeldBy(i) = {})

=============================================================================
