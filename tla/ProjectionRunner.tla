-------------------------- MODULE ProjectionRunner --------------------------
(***************************************************************************)
(* The runners of one segmented projection (projection/runner.go,            *)
(* segment.go, status.go) over a shared log and a shared store.              *)
(*                                                                          *)
(* Every instance runs one loop per segment (runSegment): claim, read,       *)
(* apply a batch in Store.Commit, publish.  The loop of segment 0 also       *)
(* serves rebuild requests, and any loop rebuilds when its instance has a    *)
(* newer Version than the checkpoint.  A rebuild resets every segment.       *)
(*                                                                          *)
(* With Transactional, what the handler and the wipe write lands with the    *)
(* checkpoint or not at all, and a claim waits for a batch in progress (the  *)
(* SQL stores).  Without, writes land as they are made and stay (the memory  *)
(* store).  Event types, dead letters and quotas are left out: a segment may *)
(* be shed at any time, and OnError is Stall.                                *)
(***************************************************************************)
EXTENDS ProjectionStore, FiniteSetsExt

CONSTANTS
    Version,        \* [Instances -> Nat]: Definition.Version
    SegmentOf,      \* [1..MaxHead -> Segments]: the segment of an event
    Transactional,  \* the store rolls a failed unit of work back
    Pauses,         \* a runner may stop for longer than its claim's ttl
    BatchSize,      \* Definition.BatchSize
    MaxHead,        \* bound: events appended
    MaxRequests,    \* bound: rebuilds requested
    MaxFaults,      \* bound: failures, sheds, stops, crashes and pauses
    MaxEpoch        \* bound: takeovers of a segment

ASSUME RunnerAssumption ==
    /\ Version \in [Instances -> Nat]
    /\ SegmentOf \in [1..MaxHead -> Segments]
    /\ Transactional \in BOOLEAN
    /\ Pauses \in BOOLEAN
    /\ BatchSize \in Nat \ {0}
    /\ MaxHead \in Nat
    /\ MaxRequests \in Nat
    /\ MaxFaults \in Nat
    /\ MaxEpoch \in Nat

VARIABLES
    head,           \* the length of the log
    model,          \* the read model: how often an event is in it, and by whom
    up,             \* whether an instance runs
    pc,             \* where the loop of a segment is
    lease,          \* the epoch of r.segs[seg].lease
    cp,             \* work's local checkpoint position
    opLease,        \* the lease the store call in progress was made with
    opTo,           \* the position it moves the checkpoint to
    upTo,           \* applyOneByOne: where the failed batch ends, or 0
    serving,        \* the request the rebuild in progress serves, or 0
    mem,            \* r.segs[seg].status: position, and whether it names us
    resetting,      \* r.resetting
    faults          \* failures so far

runnerVars == <<up, pc, lease, cp, opLease, opTo, upTo, serving, mem, resetting>>
vars == <<storeVars, head, model, runnerVars, faults>>

PCs == {"off", "claim", "aside", "work", "commit", "written", "committed",
        "stalled", "upgrade", "lockwait", "wiping", "wiped", "reset", "reclaim"}

\* How often an event is in the read model: more than once counts as twice.
Many == 2
Events == 1..MaxHead

TypeOK ==
    /\ StoreTypeOK
    /\ head \in 0..MaxHead
    /\ model \in [Events -> [n : 0..Many, by : Nat]]
    /\ up \in [Instances -> {"new", "up", "stopping", "down"}]
    /\ pc \in [Instances -> [Segments -> PCs]]
    /\ lease \in [Instances -> [Segments -> Nat]]
    /\ cp \in [Instances -> [Segments -> 0..MaxHead]]
    /\ opLease \in [Instances -> [Segments -> Nat]]
    /\ opTo \in [Instances -> [Segments -> 0..MaxHead]]
    /\ upTo \in [Instances -> [Segments -> 0..MaxHead]]
    /\ serving \in [Instances -> [Segments -> 0..MaxRequests]]
    /\ mem \in [Instances -> [Segments -> [pos : 0..MaxHead, owned : BOOLEAN]]]
    /\ resetting \in [Instances -> BOOLEAN]
    /\ faults \in 0..MaxFaults

PerLoop(x) == [i \in Instances |-> [s \in Segments |-> x]]

Empty == [p \in Events |-> [n |-> 0, by |-> 0]]

Init ==
    /\ StoreInit
    /\ head = 0
    /\ model = Empty
    /\ up = [i \in Instances |-> "new"]
    /\ pc = PerLoop("off")
    /\ lease = PerLoop(0)
    /\ cp = PerLoop(0)
    /\ opLease = PerLoop(0)
    /\ opTo = PerLoop(0)
    /\ upTo = PerLoop(0)
    /\ serving = PerLoop(0)
    /\ mem = PerLoop([pos |-> 0, owned |-> FALSE])
    /\ resetting = [i \in Instances |-> FALSE]
    /\ faults = 0

-----------------------------------------------------------------------------

Goto(i, s, where) == pc' = [pc EXCEPT ![i][s] = where]

Fault == faults < MaxFaults /\ faults' = faults + 1

\* A Commit of segment s, or a Reset, is between its two critical sections.
Committing(s) == \E i \in Instances : pc[i][s] \in {"commit", "written"}
Resetting == \E i \in Instances, s \in Segments : pc[i][s] \in {"wiping", "wiped"}

\* The SQL stores: a row a transaction has locked; other statements wait.
RowLocked(s) == Transactional /\ (Committing(s) \/ Resetting)

\* Commit may start: units.RLock, or the row's lock.
MayCommit(s) == ~Resetting /\ (Transactional => ~Committing(s))

\* Reset may start: units.Lock, or the lock of every row.
MayReset == ~Resetting /\ \A s \in Segments : ~Committing(s)

\* The events of segment s in (from, to].
Own(s, from, to) == {p \in Events : from < p /\ p <= to /\ SegmentOf[p] = s}

\* setPhase(seg, _, _, owned): the position stays.
Phase(i, s, owned) == mem' = [mem EXCEPT ![i][s].owned = owned]

\* The handler of instance i applies the events in ps.
Handled(i, ps) ==
    [p \in Events |->
        IF p \in ps THEN [n |-> Min({Many, model[p].n + 1}), by |-> Version[i]]
                    ELSE model[p]]

MutantDropSegmentEnds(i, s) == Goto(i, s, "off") /\ Phase(i, s, FALSE)

\* ErrClaimLost: the segment is dropped and competed for again.
DropSegment(i, s) == Goto(i, s, "claim") /\ Phase(i, s, FALSE)

-----------------------------------------------------------------------------
(***************************************************************************)
(* Run, and the end of it.                                                   *)
(***************************************************************************)
Start(i) ==
    /\ up[i] = "new"
    /\ up' = [up EXCEPT ![i] = "up"]
    /\ pc' = [pc EXCEPT ![i] = [s \in Segments |-> "claim"]]
    /\ UNCHANGED <<storeVars, head, model, lease, cp, opLease, opTo, upTo,
                   serving, mem, resetting, faults>>

Append ==
    /\ head < MaxHead
    /\ head' = head + 1
    /\ UNCHANGED <<storeVars, model, runnerVars, faults>>

Request ==
    /\ requested < MaxRequests
    /\ RequestRebuild
    /\ UNCHANGED <<head, model, runnerVars, faults>>

\* Run's ctx is done.
Stop(i) ==
    /\ up[i] = "up"
    /\ Fault
    /\ up' = [up EXCEPT ![i] = "stopping"]
    /\ UNCHANGED <<storeVars, head, model, pc, lease, cp, opLease, opTo, upTo,
                   serving, mem, resetting>>

\* A loop that sees ctx done releases its segment; the Release may fail.
Exit(i, s) ==
    /\ up[i] = "stopping"
    /\ pc[i][s] \in {"claim", "work", "stalled"}
    /\ ~RowLocked(s)
    /\ \/ rows' = Released(i, s, lease[i][s]) /\ UNCHANGED faults
       \/ Fault /\ UNCHANGED rows
    /\ Goto(i, s, "off")
    /\ Phase(i, s, FALSE)
    /\ up' = [up EXCEPT ![i] =
                IF \A t \in Segments \ {s} : pc[i][t] = "off" THEN "down" ELSE @]
    /\ UNCHANGED <<requested, served, failed, head, model, lease, cp, opLease,
                   opTo, upTo, serving, resetting>>

\* A process dies; only a store outside it outlives it.
Crash(i) ==
    /\ Transactional
    /\ up[i] \in {"up", "stopping"}
    /\ Fault
    /\ up' = [up EXCEPT ![i] = "down"]
    /\ pc' = [pc EXCEPT ![i] = [s \in Segments |-> "off"]]
    /\ mem' = [mem EXCEPT ![i] = [s \in Segments |-> [pos |-> 0, owned |-> FALSE]]]
    /\ resetting' = [resetting EXCEPT ![i] = FALSE]
    /\ UNCHANGED <<storeVars, head, model, lease, cp, opLease, opTo, upTo, serving>>

\* The holder of the claim on s is gone, or its lease was retired.
Abandoned(s) ==
    \A i \in Instances : Owned(i, s, lease[i][s]) => up[i] \in {"new", "down"}

(***************************************************************************)
(* A claim nobody refreshes expires; one whose holder is alive only when     *)
(* the holder pauses for longer than the ttl.                                *)
(***************************************************************************)
Expire(s) ==
    /\ rows[s].owner # None /\ rows[s].fresh
    /\ \/ Abandoned(s) /\ UNCHANGED faults
       \/ Pauses /\ Fault
    /\ rows' = Expired(s)
    /\ UNCHANGED <<requested, served, failed, head, model, runnerVars>>

-----------------------------------------------------------------------------
(***************************************************************************)
(* runSegment.                                                               *)
(***************************************************************************)
MutantAfterClaimNeverAside(i, s) ==
    IF rows[s].version < Version[i] /\ rows[s].pos > 0 THEN "upgrade" ELSE "work"

\* What the checkpoint's Version makes of a granted claim.
AfterClaim(i, s) ==
    CASE rows[s].version > Version[i] -> "aside"
      [] rows[s].version < Version[i] /\ rows[s].pos > 0 -> "upgrade"
      [] OTHER -> "work"

ClaimGranted(i, s) ==
    /\ up[i] = "up" /\ pc[i][s] = "claim"
    /\ ~RowLocked(s)
    /\ Claimable(i, s, lease[i][s])
    /\ Owned(i, s, lease[i][s]) \/ rows[s].epoch < MaxEpoch
    /\ rows' = [rows EXCEPT ![s] = Claimed(i, s, lease[i][s])]
    /\ lease' = [lease EXCEPT ![i][s] = rows'[s].epoch]
    /\ cp' = [cp EXCEPT ![i][s] = rows[s].pos]
    /\ upTo' = [upTo EXCEPT ![i][s] = 0]
    /\ Goto(i, s, AfterClaim(i, s))
    /\ UNCHANGED <<requested, served, failed, head, model, up, opLease, opTo,
                   serving, mem, resetting, faults>>

ClaimRefused(i, s) ==
    /\ up[i] = "up" /\ pc[i][s] = "claim"
    /\ ~RowLocked(s)
    /\ ~Claimable(i, s, lease[i][s])
    /\ Phase(i, s, FALSE)
    /\ UNCHANGED <<storeVars, head, model, up, pc, lease, cp, opLease, opTo,
                   upTo, serving, resetting, faults>>

(***************************************************************************)
(* Claim returns an error.  The SQL store may have granted it all the same:  *)
(* the runner then does not know its epoch.                                  *)
(***************************************************************************)
ClaimFails(i, s) ==
    /\ up[i] = "up" /\ pc[i][s] = "claim"
    /\ Transactional /\ Fault
    /\ \/ UNCHANGED rows
       \/ /\ ~RowLocked(s)
          /\ Claimable(i, s, lease[i][s])
          /\ rows[s].epoch < MaxEpoch
          /\ rows' = [rows EXCEPT ![s] = Claimed(i, s, lease[i][s])]
    /\ Phase(i, s, FALSE)
    /\ UNCHANGED <<requested, served, failed, head, model, up, pc, lease, cp,
                   opLease, opTo, upTo, serving, resetting>>

\* The checkpoint has a newer Version: leave the segment to newer instances.
StepAside(i, s) ==
    /\ pc[i][s] = "aside"
    /\ ~RowLocked(s)
    /\ rows' = Released(i, s, lease[i][s])
    /\ DropSegment(i, s)
    /\ UNCHANGED <<requested, served, failed, head, model, up, lease, cp,
                   opLease, opTo, upTo, serving, resetting, faults>>

(***************************************************************************)
(* instances.go: an instance above its quota gives up its highest segment.   *)
(* With no more instances than segments the quota is 0, and segment 0 goes,  *)
(* only while an instance of a newer Version is live.                        *)
(***************************************************************************)
shouldShed(i, s) ==
    /\ ~ \E t \in Segments : t > s /\ Owned(i, t, lease[i][t])
    /\ s = 0 => \E j \in Instances : up[j] = "up" /\ Version[j] > Version[i]

Shed(i, s) ==
    /\ up[i] = "up"
    /\ pc[i][s] \in {"claim", "work"} /\ upTo[i][s] = 0
    /\ Owned(i, s, lease[i][s])
    /\ shouldShed(i, s)
    /\ ~RowLocked(s)
    /\ Fault
    /\ rows' = Released(i, s, lease[i][s])
    /\ DropSegment(i, s)
    /\ UNCHANGED <<requested, served, failed, head, model, up, lease, cp,
                   opLease, opTo, upTo, serving, resetting>>

\* work failed: the segment keeps its claim and publishes the stall.
Stall(i, s) ==
    /\ up[i] = "up" /\ pc[i][s] = "stalled"
    /\ ~RowLocked(s)
    /\ rows' = Refreshed(i, s, lease[i][s])
    /\ Phase(i, s, TRUE)
    /\ Goto(i, s, "claim")
    /\ UNCHANGED <<requested, served, failed, head, model, up, lease, cp,
                   opLease, opTo, upTo, serving, resetting, faults>>

-----------------------------------------------------------------------------
(***************************************************************************)
(* work, commit and Store.Commit.  The read and the start of the commit are  *)
(* one step: the log only grows, and the lease is read after the events.     *)
(***************************************************************************)
Reads(i, s, to) ==
    IF upTo[i][s] = 0
    THEN to \in cp[i][s] + 1 .. Min({head, cp[i][s] + BatchSize})
    ELSE to = Min(Own(s, cp[i][s], upTo[i][s]) \cup {upTo[i][s]})

CommitBegins(i, s) ==
    /\ up[i] = "up" /\ pc[i][s] = "work"
    /\ MayCommit(s)
    /\ \E to \in Events :
          /\ Reads(i, s, to)
          /\ opTo' = [opTo EXCEPT ![i][s] = to]
    /\ opLease' = [opLease EXCEPT ![i][s] = lease[i][s]]
    /\ IF Owned(i, s, lease[i][s])
       THEN Goto(i, s, "commit") /\ UNCHANGED mem
       ELSE DropSegment(i, s)
    /\ UNCHANGED <<storeVars, head, model, up, lease, cp, upTo, serving,
                   resetting, faults>>

\* fn runs to its end.
HandlerRuns(i, s) ==
    /\ pc[i][s] = "commit"
    /\ model' = IF Transactional THEN model
                ELSE Handled(i, Own(s, cp[i][s], opTo[i][s]))
    /\ Goto(i, s, "written")
    /\ UNCHANGED <<storeVars, head, up, lease, cp, opLease, opTo, upTo, serving,
                   mem, resetting, faults>>

(***************************************************************************)
(* The handler fails on event p.  A batch is then retried event by event; an *)
(* event on its own stalls the segment.                                      *)
(***************************************************************************)
HandlerFails(i, s) ==
    /\ pc[i][s] = "commit"
    /\ Fault
    /\ \E p \in Own(s, cp[i][s], opTo[i][s]) :
          model' = IF Transactional THEN model
                   ELSE Handled(i, Own(s, cp[i][s], p - 1))
    /\ IF upTo[i][s] = 0
       THEN Goto(i, s, "work") /\ upTo' = [upTo EXCEPT ![i][s] = opTo[i][s]]
       ELSE Goto(i, s, "stalled") /\ UNCHANGED upTo
    /\ UNCHANGED <<storeVars, head, up, lease, cp, opLease, opTo, serving, mem,
                   resetting>>

\* The claim is checked again before the checkpoint moves.
CommitEnds(i, s) ==
    /\ pc[i][s] = "written"
    /\ IF Owned(i, s, opLease[i][s])
       THEN /\ rows' = [rows EXCEPT ![s] = Committed(s, opTo[i][s], Version[i])]
            /\ model' = IF Transactional
                        THEN Handled(i, Own(s, cp[i][s], opTo[i][s])) ELSE model
            /\ Goto(i, s, "committed") /\ UNCHANGED mem
       ELSE UNCHANGED <<rows, model>> /\ DropSegment(i, s)
    /\ UNCHANGED <<requested, served, failed, head, up, lease, cp, opLease, opTo,
                   upTo, serving, resetting, faults>>

(***************************************************************************)
(* The transaction fails; or it commits and the answer is lost, which the    *)
(* runner cannot tell apart.                                                 *)
(***************************************************************************)
CommitFails(i, s) ==
    /\ Transactional
    /\ pc[i][s] = "written"
    /\ Fault
    /\ \/ UNCHANGED <<rows, model>>
       \/ /\ rows' = [rows EXCEPT ![s] = Committed(s, opTo[i][s], Version[i])]
          /\ model' = Handled(i, Own(s, cp[i][s], opTo[i][s]))
    /\ Goto(i, s, "stalled")
    /\ UNCHANGED <<requested, served, failed, head, up, lease, cp, opLease, opTo,
                   upTo, serving, mem, resetting>>

(***************************************************************************)
(* At the head of the log: SaveStatus.  Any error but ErrClaimLost is let    *)
(* pass.                                                                     *)
(***************************************************************************)
Publish(i, s) ==
    /\ up[i] = "up" /\ pc[i][s] = "work"
    /\ upTo[i][s] = 0 /\ cp[i][s] = head
    /\ ~RowLocked(s)
    /\ opLease' = [opLease EXCEPT ![i][s] = lease[i][s]]
    /\ opTo' = [opTo EXCEPT ![i][s] = cp[i][s]]
    /\ \/ /\ Owned(i, s, lease[i][s])
          /\ rows' = Refreshed(i, s, lease[i][s])
          /\ Goto(i, s, "committed")
          /\ UNCHANGED <<mem, faults>>
       \/ /\ ~Owned(i, s, lease[i][s])
          /\ DropSegment(i, s)
          /\ UNCHANGED <<rows, faults>>
       \/ /\ Transactional /\ Fault
          /\ Goto(i, s, "committed")
          /\ UNCHANGED <<rows, mem>>
    /\ UNCHANGED <<requested, served, failed, head, model, up, lease, cp, upTo,
                   serving, resetting>>

MutantSetStatusUnfenced(i, s) ==
    /\ pc[i][s] = "committed"
    /\ mem' = [mem EXCEPT ![i][s] = [pos |-> opTo[i][s], owned |-> TRUE]]
    /\ cp' = [cp EXCEPT ![i][s] = opTo[i][s]]
    /\ upTo' = [upTo EXCEPT ![i][s] = IF @ = opTo[i][s] THEN 0 ELSE @]
    /\ Goto(i, s, "work")
    /\ UNCHANGED <<storeVars, head, model, up, lease, opLease, opTo, serving,
                   resetting, faults>>

\* setStatus: does nothing when the lease is no longer the segment's.
SetStatus(i, s) ==
    /\ pc[i][s] = "committed"
    /\ mem' = IF lease[i][s] = opLease[i][s]
              THEN [mem EXCEPT ![i][s] = [pos |-> opTo[i][s], owned |-> TRUE]]
              ELSE mem
    /\ cp' = [cp EXCEPT ![i][s] = opTo[i][s]]
    /\ upTo' = [upTo EXCEPT ![i][s] = IF @ = opTo[i][s] THEN 0 ELSE @]
    /\ Goto(i, s, "work")
    /\ UNCHANGED <<storeVars, head, model, up, lease, opLease, opTo, serving,
                   resetting, faults>>

-----------------------------------------------------------------------------
(***************************************************************************)
(* rebuild, Store.Reset and rebuildTried.                                    *)
(***************************************************************************)
Rebuild(i, s, request) ==
    /\ resetting' = [resetting EXCEPT ![i] = TRUE]
    /\ serving' = [serving EXCEPT ![i][s] = request]
    /\ opLease' = [opLease EXCEPT ![i][s] = lease[i][s]]
    /\ Goto(i, s, "lockwait")
    /\ UNCHANGED <<storeVars, head, model, up, lease, cp, opTo, upTo, mem, faults>>

\* The checkpoint has an older Version than this instance.
RebuildUpgrade(i, s) == pc[i][s] = "upgrade" /\ Rebuild(i, s, 0)

MutantRebuildDueLate(i) ==
    /\ up[i] = "up" /\ pc[i][0] = "work" /\ upTo[i][0] = 0
    /\ requested > served + 1
    /\ Rebuild(i, 0, requested)

\* rebuildDue, between two batches of segment 0.
RebuildDue(i) ==
    /\ up[i] = "up" /\ pc[i][0] = "work" /\ upTo[i][0] = 0
    /\ RebuildOpen
    /\ Rebuild(i, 0, requested)

\* rebuildTried after a rebuild that lost its claim.
RebuildLost(i, s) ==
    /\ resetting' = [resetting EXCEPT ![i] = FALSE]
    /\ DropSegment(i, s)

ResetBegins(i, s) ==
    /\ pc[i][s] = "lockwait"
    /\ MayReset
    /\ IF Owned(i, s, opLease[i][s])
       THEN Goto(i, s, "wiping") /\ UNCHANGED <<mem, resetting>>
       ELSE RebuildLost(i, s)
    /\ UNCHANGED <<storeVars, head, model, up, lease, cp, opLease, opTo, upTo,
                   serving, faults>>

Wipe(i, s) ==
    /\ pc[i][s] = "wiping"
    /\ model' = IF Transactional THEN model ELSE Empty
    /\ Goto(i, s, "wiped")
    /\ UNCHANGED <<storeVars, head, up, lease, cp, opLease, opTo, upTo, serving,
                   mem, resetting, faults>>

(***************************************************************************)
(* The wipe, or the transaction around it, fails.  Without rollback it may   *)
(* have emptied the read model already.                                      *)
(***************************************************************************)
WipeFails(i, s) ==
    /\ pc[i][s] = "wiping"
    /\ Fault
    /\ model' \in IF Transactional THEN {model} ELSE {model, Empty}
    /\ failed' = IF serving[i][s] > 0 /\ up[i] = "up"
                 THEN FailedAfter(i, lease[i][0], serving[i][s]) ELSE failed
    /\ resetting' = [resetting EXCEPT ![i] = FALSE]
    /\ Goto(i, s, "stalled")
    /\ UNCHANGED <<rows, requested, served, head, up, lease, cp, opLease, opTo,
                   upTo, serving, mem>>

MutantResetEndsServesLost(i, s) ==
    /\ pc[i][s] = "wiped"
    /\ served' = requested
    /\ IF Owned(i, s, opLease[i][s])
       THEN /\ rows' = ResetRows(s, Version[i])
            /\ model' = IF Transactional THEN Empty ELSE model
            /\ Goto(i, s, "reset")
            /\ UNCHANGED <<mem, resetting>>
       ELSE RebuildLost(i, s) /\ UNCHANGED <<rows, model>>
    /\ UNCHANGED <<requested, failed, head, up, lease, cp, opLease, opTo, upTo,
                   serving, faults>>

ResetEnds(i, s) ==
    /\ pc[i][s] = "wiped"
    /\ IF Owned(i, s, opLease[i][s])
       THEN /\ rows' = ResetRows(s, Version[i])
            /\ served' = requested
            /\ model' = IF Transactional THEN Empty ELSE model
            /\ Goto(i, s, "reset")
            /\ UNCHANGED <<mem, resetting>>
       ELSE RebuildLost(i, s) /\ UNCHANGED <<rows, served, model>>
    /\ UNCHANGED <<requested, failed, head, up, lease, cp, opLease, opTo, upTo,
                   serving, faults>>

(***************************************************************************)
(* The transaction of Reset fails; or it commits and the answer is lost.     *)
(***************************************************************************)
ResetFails(i, s) ==
    /\ Transactional
    /\ pc[i][s] = "wiped"
    /\ Fault
    /\ \/ UNCHANGED <<rows, served, model>>
       \/ /\ rows' = ResetRows(s, Version[i])
          /\ served' = requested
          /\ model' = Empty
    /\ failed' = IF serving[i][s] > 0 /\ up[i] = "up"
                 THEN FailedAfter(i, lease[i][0], serving[i][s]) ELSE failed
    /\ resetting' = [resetting EXCEPT ![i] = FALSE]
    /\ Goto(i, s, "stalled")
    /\ UNCHANGED <<requested, head, up, lease, cp, opLease, opTo, upTo, serving, mem>>

(***************************************************************************)
(* Every position in memory goes back to 0, and the lease of every other     *)
(* segment is retired.                                                       *)
(***************************************************************************)
Forget(i, s) ==
    /\ pc[i][s] = "reset"
    /\ mem' = [mem EXCEPT ![i] = [t \in Segments |-> [mem[i][t] EXCEPT !.pos = 0]]]
    /\ lease' = [lease EXCEPT ![i] =
                   [t \in Segments |-> IF t = s THEN @[t] ELSE 0]]
    /\ Goto(i, s, "reclaim")
    /\ UNCHANGED <<storeVars, head, model, up, cp, opLease, opTo, upTo, serving,
                   resetting, faults>>

(***************************************************************************)
(* reclaim and rebuildTried.  reclaim does not look at the Version of the    *)
(* checkpoint it is given.                                                   *)
(***************************************************************************)
Reclaim(i, s) ==
    /\ pc[i][s] = "reclaim"
    /\ ~RowLocked(s)
    /\ IF Claimable(i, s, lease[i][s])
       THEN /\ Owned(i, s, lease[i][s]) \/ rows[s].epoch < MaxEpoch
            /\ rows' = [rows EXCEPT ![s] = Claimed(i, s, lease[i][s])]
            /\ lease' = [lease EXCEPT ![i][s] = rows'[s].epoch]
            /\ cp' = [cp EXCEPT ![i][s] = rows[s].pos]
            /\ upTo' = [upTo EXCEPT ![i][s] = 0]
            /\ mem' = [mem EXCEPT ![i][s] = [pos |-> rows[s].pos, owned |-> TRUE]]
            /\ resetting' = [resetting EXCEPT ![i] = FALSE]
            /\ Goto(i, s, "work")
       ELSE RebuildLost(i, s) /\ UNCHANGED <<rows, lease, cp, upTo>>
    /\ UNCHANGED <<requested, served, failed, head, model, up, opLease, opTo,
                   serving, faults>>

-----------------------------------------------------------------------------

\* What a loop does by itself, failures and sheds aside.
Step(i, s) ==
    \/ ClaimGranted(i, s) \/ ClaimRefused(i, s) \/ StepAside(i, s)
    \/ CommitBegins(i, s) \/ HandlerRuns(i, s) \/ CommitEnds(i, s)
    \/ Publish(i, s) \/ SetStatus(i, s) \/ Stall(i, s)
    \/ RebuildUpgrade(i, s) \/ Wipe(i, s) \/ ResetEnds(i, s)
    \/ Forget(i, s) \/ Reclaim(i, s) \/ Exit(i, s)

Failure(i, s) ==
    \/ ClaimFails(i, s) \/ Shed(i, s) \/ HandlerFails(i, s)
    \/ CommitFails(i, s) \/ WipeFails(i, s) \/ ResetFails(i, s)

Next ==
    \/ \E i \in Instances :
          \/ Start(i) \/ Stop(i) \/ Crash(i) \/ RebuildDue(i)
          \/ \E s \in Segments : Step(i, s) \/ Failure(i, s) \/ ResetBegins(i, s)
    \/ \E s \in Segments : Expire(s)
    \/ Append
    \/ Request

Spec == Init /\ [][Next]_vars

(***************************************************************************)
(* The goroutines run; an unrefreshed claim's ttl passes; segment 0 looks    *)
(* for rebuild requests at least once per PollInterval, however many         *)
(* batches it has; and a waiting Reset keeps new Commits out (RWMutex) or    *)
(* queues for the row locks.                                                 *)
(***************************************************************************)
Fairness ==
    /\ \A i \in Instances : WF_vars(Start(i)) /\ SF_vars(RebuildDue(i))
    /\ \A i \in Instances, s \in Segments :
          WF_vars(Step(i, s)) /\ SF_vars(ResetBegins(i, s))
    /\ \A s \in Segments : WF_vars(Expire(s) /\ Abandoned(s))

FairSpec == Spec /\ Fairness

-----------------------------------------------------------------------------

(***************************************************************************)
(* With a transactional store every event is in the read model exactly once  *)
(* when its segment's checkpoint has passed it, and not at all otherwise:    *)
(* across takeovers, crashes, retries, lost answers and rebuilds.            *)
(***************************************************************************)
ExactlyOnce ==
    Transactional => \A p \in Events :
        model[p].n = IF p <= rows[SegmentOf[p]].pos THEN 1 ELSE 0

(***************************************************************************)
(* Without one, no event a checkpoint has passed is missing from the read    *)
(* model, unless a rebuild that will apply it again is still due             *)
(* (memory/projection_store.go, Commit and Reset).                           *)
(***************************************************************************)
NothingMissing ==
    requested = served => \A p \in Events :
        p <= rows[SegmentOf[p]].pos => model[p].n > 0

(***************************************************************************)
(* The events a checkpoint has passed were applied by the Version the        *)
(* checkpoint names: deployments of two versions do not share a read model   *)
(* (segment.go, work and runSegment).                                        *)
(***************************************************************************)
VersionsDoNotMix ==
    \A p \in Events : LET row == rows[SegmentOf[p]]
                      IN  p <= row.pos => model[p].by = row.version

(***************************************************************************)
(* What WaitUntil answers from memory is true: when an instance believes it  *)
(* owns every segment and no rebuild is due or under way, the read model     *)
(* has every event up to the lowest position it reports (status.go).         *)
(***************************************************************************)
AnswersFromMemory(i) ==
    up[i] \in {"up", "stopping"} /\ \A s \in Segments : mem[i][s].owned

NoRebuild == requested = served /\ \A i \in Instances : ~resetting[i]

WaitUntilIsTrue ==
    NoRebuild => \A i \in Instances : AnswersFromMemory(i) =>
        \A p \in Events :
            (\A s \in Segments : mem[i][s].pos >= p) => model[p].n > 0

(***************************************************************************)
(* Rebuild returns on an instance once a Reset has served the request and    *)
(* `resetting` is false there.  From then on no position in its memory is    *)
(* from before the wipe: each is at most the stored checkpoint of a segment  *)
(* the instance still owns, so a WaitUntil waits for the replay.             *)
(***************************************************************************)
NoPositionFromBeforeWipe ==
    \A i \in Instances : ~resetting[i] /\ requested = served =>
        \A s \in Segments : mem[i][s].pos <= rows[s].pos

(***************************************************************************)
(* An instance never waits for a claim of its own to expire: after a rebuild *)
(* retired its lease, one more claim gives it the segment back               *)
(* (segment.go, rebuild).                                                    *)
(***************************************************************************)
NotRefusedByOwnClaim ==
    \A i \in Instances, s \in Segments :
        up[i] = "up" /\ pc[i][s] = "claim" /\ rows[s].owner = Owner[i]
            => Claimable(i, s, lease[i][s])

\* Every instance has been stopped or has crashed.
NobodyRuns == \A i \in Instances : up[i] \in {"stopping", "down"}

(***************************************************************************)
(* Every rebuild request is served, wherever segment 0 moves meanwhile, as   *)
(* long as an instance runs (runner.go, Rebuild).                            *)
(***************************************************************************)
RebuildIsServed == (requested > served) ~> (requested = served \/ NobodyRuns)

(***************************************************************************)
(* Every segment reaches the end of the log and stays there once nothing     *)
(* more is appended and no rebuild is asked for, as long as an instance      *)
(* runs: no claim is stuck with an instance that cannot use it.              *)
(***************************************************************************)
CatchesUp == <>[]((\A s \in Segments : rows[s].pos = head) \/ NobodyRuns)

=============================================================================
