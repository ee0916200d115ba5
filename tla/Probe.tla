--------------------------------- MODULE Probe ---------------------------------
(***************************************************************************)
(* Probe of projection/probe.go: the waits of one process share a poller,     *)
(* which the first of them starts and the last one stops.                     *)
(***************************************************************************)
EXTENDS ProjectionStatuses

CONSTANT Waits      \* calls of WaitUntil

VARIABLES
    wait,           \* a call: where it is, what it waits for, what it returns
    waiters,        \* how many are inside
    stop,           \* the poller that runs, or 0
    since,          \* the moment it was started
    statuses,       \* its latest good read, as a moment of the store, or 0
    poller          \* the pollers started, stopped ones that still run included

probeVars == <<wait, waiters, stop, since, statuses, poller>>

ProbeInit ==
    /\ wait \in [Waits -> {[pc |-> "idle", position |-> p, woken |-> FALSE,
                            result |-> "none"] : p \in 1..MaxPosition}]
    /\ waiters = 0
    /\ stop = 0
    /\ since = 0
    /\ statuses = 0
    /\ poller = [g \in Generations |-> [pc |-> "new", ctxDone |-> FALSE, read |-> 0]]

complete(st) == st # <<>> /\ DOMAIN st = Segments

reached(st, position) == complete(st) /\ \A s \in Segments : st[s] >= position

\* What a moment of the store says; 0 is no read yet.
At(moment) == IF moment = 0 THEN <<>> ELSE history[moment]

\* WaitUntil is called; the first wait starts the poller.
Join(w) ==
    /\ wait[w].pc = "idle"
    /\ waiters' = waiters + 1
    /\ IF waiters = 0
       THEN \E g \in Generations :
              /\ poller[g].pc = "new"
              /\ \A h \in Generations : h < g => poller[h].pc # "new"
              /\ poller' = [poller EXCEPT ![g].pc = "timer"]
              /\ stop' = g
              /\ since' = Now
              /\ statuses' = 0
       ELSE UNCHANGED <<poller, stop, since, statuses>>
    /\ wait' = [wait EXCEPT ![w].pc = "checking"]

\* Takes the statuses and the open channel, then looks at what it took.
Check(w) ==
    /\ wait[w].pc = "checking"
    /\ wait' = [wait EXCEPT ![w] =
          IF reached(At(statuses), @.position)
          THEN [@ EXCEPT !.pc = "leaving", !.result = "nil"]
          ELSE [@ EXCEPT !.pc = "waiting", !.woken = FALSE]]
    /\ UNCHANGED <<waiters, stop, since, statuses, poller>>

Wake(w) ==
    /\ wait[w].pc = "waiting"
    /\ wait[w].woken
    /\ wait' = [wait EXCEPT ![w].pc = "checking"]
    /\ UNCHANGED <<waiters, stop, since, statuses, poller>>

\* ctx is done.
NotReached(w) ==
    /\ wait[w].pc = "waiting"
    /\ wait' = [wait EXCEPT ![w].pc = "leaving", ![w].result = "NotReachedError"]
    /\ UNCHANGED <<waiters, stop, since, statuses, poller>>

MutantLastOut(n) == TRUE

LastOut(n) == n = 0

\* The deferred call: the last wait stops the poller.
Leave(w) ==
    /\ wait[w].pc = "leaving"
    /\ waiters' = waiters - 1
    /\ IF LastOut(waiters') /\ stop # 0
       THEN poller' = [poller EXCEPT ![stop].ctxDone = TRUE] /\ stop' = 0 /\ since' = 0
       ELSE UNCHANGED <<poller, stop, since>>
    /\ wait' = [wait EXCEPT ![w] = [@ EXCEPT !.pc = "done", !.result = "none"]]
    /\ UNCHANGED statuses

-----------------------------------------------------------------------------

Gone == [pc |-> "gone", ctxDone |-> TRUE, read |-> 0]

\* ctx is done when poll looks.
Quit(g) ==
    /\ poller[g].pc = "timer"
    /\ poller[g].ctxDone
    /\ poller' = [poller EXCEPT ![g] = Gone]
    /\ UNCHANGED <<wait, waiters, stop, since, statuses>>

(***************************************************************************)
(* The timer fires, perhaps beside a ctx that is done, and LoadStatuses sees  *)
(* the store at one moment.                                                   *)
(***************************************************************************)
Read(g) ==
    /\ poller[g].pc = "timer"
    /\ poller' = [poller EXCEPT ![g].pc = "read", ![g].read = Now]
    /\ UNCHANGED <<wait, waiters, stop, since, statuses>>

\* It fails, or probeReadTimeout passes.
ReadFails(g) ==
    /\ poller[g].pc = "timer"
    /\ poller' = [poller EXCEPT ![g].pc = "read", ![g].read = 0]
    /\ UNCHANGED <<wait, waiters, stop, since, statuses>>

MutantStoppedMidRead(g) == FALSE

\* A poller started since owns the results.
StoppedMidRead(g) == poller[g].ctxDone

\* Closing the channel wakes every wait that blocks on it.
Publish(g) ==
    /\ poller[g].pc = "read"
    /\ IF StoppedMidRead(g)
       THEN /\ poller' = [poller EXCEPT ![g] = Gone]
            /\ UNCHANGED <<statuses, wait>>
       ELSE /\ statuses' = IF poller[g].read = 0 THEN statuses ELSE poller[g].read
            /\ wait' = [w \in Waits |->
                   IF wait[w].pc = "waiting" THEN [wait[w] EXCEPT !.woken = TRUE] ELSE wait[w]]
            /\ poller' = [poller EXCEPT ![g].pc = "timer", ![g].read = 0]
    /\ UNCHANGED <<waiters, stop, since>>

-----------------------------------------------------------------------------

WaitStep(w) == Check(w) \/ Wake(w) \/ Leave(w)
PollStep(g) == Quit(g) \/ Read(g) \/ Publish(g)

ProbeNext ==
    \/ \E w \in Waits : Join(w) \/ WaitStep(w) \/ NotReached(w)
    \/ \E g \in Generations : PollStep(g) \/ ReadFails(g)

(***************************************************************************)
(* A wait that returned nil was told the truth, of a moment since the poller  *)
(* that answered was started: never of one before a rebuild that happened     *)
(* while no wait was in progress (WaitUntil and poll of probe.go).            *)
(***************************************************************************)
AnswerIsCurrent ==
    \A w \in Waits : wait[w].result = "nil" =>
        \E m \in since..Now : reached(history[m], wait[w].position)

(***************************************************************************)
(* A wait ends when the store has reached its position and stays there.       *)
(***************************************************************************)
WaitsEnd ==
    \A w \in Waits :
        (wait[w].pc \in {"checking", "waiting", "leaving"}) ~>
            (wait[w].pc = "done" \/ ~reached(history[Now], wait[w].position))

=============================================================================
