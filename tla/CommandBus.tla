----------------------------- MODULE CommandBus -----------------------------
(***************************************************************************)
(* The command bus (command_bus.go): dispatchers, one worker per shard, and  *)
(* callers of Stop.                                                          *)
(*                                                                          *)
(* A select is one action per ready case.  wg and enqueueWG are the sets of  *)
(* dispatchers counted in them.  Each command is dispatched once; what its   *)
(* handler does is its result only.                                          *)
(***************************************************************************)
EXTENDS Naturals, Sequences, FiniteSets

CONSTANTS
    Commands,       \* calls of Dispatch, each with a command of its own
    Types,          \* command types
    CommandType,    \* [Commands -> Types]
    Shards,         \* shard numbers
    selectShard,    \* [Commands -> Shards]: the shard of its AggregateID
    BufferSizes,    \* capacities a bus may be made with; 0 is unbuffered
    Stoppers        \* calls of Stop

ASSUME BusAssumption ==
    /\ selectShard \in [Commands -> Shards]
    /\ BufferSizes \subseteq Nat
    /\ CommandType \in [Commands -> Types]

VARIABLES
    bufferSize,     \* NewCommandBus's argument: capacity of a shard's queue
    handlers,       \* types with a registered handler
    queues,         \* [Shards -> Seq(Commands)]
    stopCh,         \* closed
    drainCh,        \* closed
    dispatch,       \* [Commands -> where the Dispatch is]
    cancelled,      \* [Commands -> BOOLEAN]: its ctx is done
    response,       \* [Commands -> what its ResponseCh holds]
    result,         \* [Commands -> what its Dispatch returned]
    worker,         \* [Shards -> where the worker is]
    current,        \* [Shards -> the command taken, as a sequence]
    runs,           \* [Commands -> how often its handler was called]
    stop            \* [Stoppers -> where the Stop is]

vars == <<bufferSize, handlers, queues, stopCh, drainCh, dispatch, cancelled,
          response, result, worker, current, runs, stop>>

Results == {"none", "ok", "error", "panicked", "unregistered", "cancelled", "closed"}

TypeOK ==
    /\ bufferSize \in BufferSizes
    /\ handlers \subseteq Types
    /\ queues \in [Shards -> Seq(Commands)]
    /\ \A sh \in Shards : Len(queues[sh]) <= bufferSize
    /\ stopCh \in BOOLEAN
    /\ drainCh \in BOOLEAN
    /\ dispatch \in [Commands -> {"idle", "enqueue", "wait", "done"}]
    /\ cancelled \in [Commands -> BOOLEAN]
    /\ response \in [Commands -> Results]
    /\ result \in [Commands -> Results]
    /\ worker \in [Shards -> {"select", "taken", "checked", "running", "exited"}]
    /\ current \in [Shards -> Seq(Commands)]
    /\ runs \in [Commands -> 0..1]
    /\ stop \in [Stoppers -> {"idle", "closed", "draining", "done"}]

Init ==
    /\ bufferSize \in BufferSizes
    /\ handlers = {}
    /\ queues = [sh \in Shards |-> <<>>]
    /\ stopCh = FALSE
    /\ drainCh = FALSE
    /\ dispatch = [c \in Commands |-> "idle"]
    /\ cancelled = [c \in Commands |-> FALSE]
    /\ response = [c \in Commands |-> "none"]
    /\ result = [c \in Commands |-> "none"]
    /\ worker = [sh \in Shards |-> "select"]
    /\ current = [sh \in Shards |-> <<>>]
    /\ runs = [c \in Commands |-> 0]
    /\ stop = [k \in Stoppers |-> "idle"]

-----------------------------------------------------------------------------

enqueueWG == {c \in Commands : dispatch[c] = "enqueue"}
wg == {c \in Commands : dispatch[c] \in {"enqueue", "wait"}}

Register(t) ==
    /\ t \notin handlers
    /\ handlers' = handlers \cup {t}
    /\ UNCHANGED <<bufferSize, queues, stopCh, drainCh, dispatch, cancelled,
                   response, result, worker, current, runs, stop>>

Cancel(c) ==
    /\ ~cancelled[c] /\ dispatch[c] # "done"
    /\ cancelled' = [cancelled EXCEPT ![c] = TRUE]
    /\ UNCHANGED <<bufferSize, handlers, queues, stopCh, drainCh, dispatch,
                   response, result, worker, current, runs, stop>>

(***************************************************************************)
(* Dispatch.  The stopCh check and both Adds are under b.mu, which Stop      *)
(* takes to close stopCh: one step.                                          *)
(***************************************************************************)
Return(c, how) ==
    /\ dispatch' = [dispatch EXCEPT ![c] = "done"]
    /\ result' = [result EXCEPT ![c] = how]

Dispatch(c) ==
    /\ dispatch[c] = "idle"
    /\ IF stopCh
       THEN Return(c, "closed")
       ELSE dispatch' = [dispatch EXCEPT ![c] = "enqueue"] /\ UNCHANGED result
    /\ UNCHANGED <<bufferSize, handlers, queues, stopCh, drainCh, cancelled,
                   response, worker, current, runs, stop>>

\* The queue has room.
Enqueue(c) ==
    /\ dispatch[c] = "enqueue"
    /\ Len(queues[selectShard[c]]) < bufferSize
    /\ queues' = [queues EXCEPT ![selectShard[c]] = Append(@, c)]
    /\ dispatch' = [dispatch EXCEPT ![c] = "wait"]
    /\ UNCHANGED <<bufferSize, handlers, stopCh, drainCh, cancelled, response,
                   result, worker, current, runs, stop>>

\* The worker is receiving from an unbuffered queue.
HandOver(c) ==
    LET sh == selectShard[c] IN
    /\ dispatch[c] = "enqueue"
    /\ bufferSize = 0 /\ worker[sh] = "select"
    /\ current' = [current EXCEPT ![sh] = <<c>>]
    /\ worker' = [worker EXCEPT ![sh] = "taken"]
    /\ dispatch' = [dispatch EXCEPT ![c] = "wait"]
    /\ UNCHANGED <<bufferSize, handlers, queues, stopCh, drainCh, cancelled,
                   response, result, runs, stop>>

EnqueueStopped(c) ==
    /\ dispatch[c] = "enqueue"
    /\ stopCh
    /\ Return(c, "closed")
    /\ UNCHANGED <<bufferSize, handlers, queues, stopCh, drainCh, cancelled,
                   response, worker, current, runs, stop>>

EnqueueCancelled(c) ==
    /\ dispatch[c] = "enqueue"
    /\ cancelled[c]
    /\ Return(c, "cancelled")
    /\ UNCHANGED <<bufferSize, handlers, queues, stopCh, drainCh, cancelled,
                   response, worker, current, runs, stop>>

Answered(c) ==
    /\ dispatch[c] = "wait"
    /\ response[c] # "none"
    /\ Return(c, response[c])
    /\ UNCHANGED <<bufferSize, handlers, queues, stopCh, drainCh, cancelled,
                   response, worker, current, runs, stop>>

MutantWaitStopped(c) ==
    /\ dispatch[c] = "wait"
    /\ cancelled[c] \/ stopCh
    /\ Return(c, IF cancelled[c] THEN "cancelled" ELSE "closed")
    /\ UNCHANGED <<bufferSize, handlers, queues, stopCh, drainCh, cancelled,
                   response, worker, current, runs, stop>>

WaitCancelled(c) ==
    /\ dispatch[c] = "wait"
    /\ cancelled[c]
    /\ Return(c, "cancelled")
    /\ UNCHANGED <<bufferSize, handlers, queues, stopCh, drainCh, cancelled,
                   response, worker, current, runs, stop>>

-----------------------------------------------------------------------------
(***************************************************************************)
(* worker.                                                                   *)
(***************************************************************************)
Take(sh) ==
    /\ worker[sh] = "select"
    /\ queues[sh] # <<>>
    /\ current' = [current EXCEPT ![sh] = <<Head(queues[sh])>>]
    /\ queues' = [queues EXCEPT ![sh] = Tail(@)]
    /\ worker' = [worker EXCEPT ![sh] = "taken"]
    /\ UNCHANGED <<bufferSize, handlers, stopCh, drainCh, dispatch, cancelled,
                   response, result, runs, stop>>

MutantExitOnStop(sh) ==
    /\ worker[sh] = "select"
    /\ stopCh /\ queues[sh] = <<>>
    /\ worker' = [worker EXCEPT ![sh] = "exited"]
    /\ UNCHANGED <<bufferSize, handlers, queues, stopCh, drainCh, dispatch,
                   cancelled, response, result, current, runs, stop>>

\* drainCh is closed and nothing is queued.
Exit(sh) ==
    /\ worker[sh] = "select"
    /\ drainCh /\ queues[sh] = <<>>
    /\ worker' = [worker EXCEPT ![sh] = "exited"]
    /\ UNCHANGED <<bufferSize, handlers, queues, stopCh, drainCh, dispatch,
                   cancelled, response, result, current, runs, stop>>

\* A result goes into the command's ResponseCh, which has room for one.
Respond(sh, how) ==
    /\ response' = [response EXCEPT ![Head(current[sh])] = how]
    /\ current' = [current EXCEPT ![sh] = <<>>]
    /\ worker' = [worker EXCEPT ![sh] = "select"]

MutantCheckContextAfterwards(sh) ==
    /\ worker[sh] = "taken"
    /\ worker' = [worker EXCEPT ![sh] = "checked"]
    /\ UNCHANGED <<response, current>>
    /\ UNCHANGED <<bufferSize, handlers, queues, stopCh, drainCh, dispatch,
                   cancelled, result, runs, stop>>

\* A command whose ctx ended while it was queued is skipped.
CheckContext(sh) ==
    /\ worker[sh] = "taken"
    /\ IF cancelled[Head(current[sh])]
       THEN Respond(sh, "cancelled")
       ELSE worker' = [worker EXCEPT ![sh] = "checked"] /\ UNCHANGED <<response, current>>
    /\ UNCHANGED <<bufferSize, handlers, queues, stopCh, drainCh, dispatch,
                   cancelled, result, runs, stop>>

\* handlerFor, and the call.
CallHandler(sh) ==
    /\ worker[sh] = "checked"
    /\ IF CommandType[Head(current[sh])] \in handlers
       THEN /\ runs' = [runs EXCEPT ![Head(current[sh])] = @ + 1]
            /\ worker' = [worker EXCEPT ![sh] = "running"]
            /\ UNCHANGED <<response, current>>
       ELSE Respond(sh, "unregistered") /\ UNCHANGED runs
    /\ UNCHANGED <<bufferSize, handlers, queues, stopCh, drainCh, dispatch,
                   cancelled, result, stop>>

\* The handler returns, or panics and is recovered.
HandlerEnds(sh) ==
    /\ worker[sh] = "running"
    /\ \E how \in {"ok", "error", "panicked"} : Respond(sh, how)
    /\ UNCHANGED <<bufferSize, handlers, queues, stopCh, drainCh, dispatch,
                   cancelled, result, runs, stop>>

-----------------------------------------------------------------------------
(***************************************************************************)
(* Stop.                                                                     *)
(***************************************************************************)
CloseStop(k) ==
    /\ stop[k] = "idle"
    /\ stopCh' = TRUE
    /\ stop' = [stop EXCEPT ![k] = "closed"]
    /\ UNCHANGED <<bufferSize, handlers, queues, drainCh, dispatch, cancelled,
                   response, result, worker, current, runs>>

CloseDrain(k) ==
    /\ stop[k] = "closed"
    /\ enqueueWG = {}
    /\ drainCh' = TRUE
    /\ stop' = [stop EXCEPT ![k] = "draining"]
    /\ UNCHANGED <<bufferSize, handlers, queues, stopCh, dispatch, cancelled,
                   response, result, worker, current, runs>>

StopReturns(k) ==
    /\ stop[k] = "draining"
    /\ wg = {}
    /\ stop' = [stop EXCEPT ![k] = "done"]
    /\ UNCHANGED <<bufferSize, handlers, queues, stopCh, drainCh, dispatch,
                   cancelled, response, result, worker, current, runs>>

-----------------------------------------------------------------------------

DispatchStep(c) ==
    \/ Enqueue(c) \/ HandOver(c) \/ EnqueueStopped(c) \/ EnqueueCancelled(c)
    \/ Answered(c) \/ WaitCancelled(c)

WorkerStep(sh) ==
    \/ Take(sh) \/ Exit(sh) \/ CheckContext(sh) \/ CallHandler(sh) \/ HandlerEnds(sh)

StopStep(k) == CloseDrain(k) \/ StopReturns(k)

Next ==
    \/ \E t \in Types : Register(t)
    \/ \E c \in Commands : Dispatch(c) \/ DispatchStep(c) \/ Cancel(c)
    \/ \E sh \in Shards : WorkerStep(sh)
    \/ \E k \in Stoppers : CloseStop(k) \/ StopStep(k)

Spec == Init /\ [][Next]_vars

(***************************************************************************)
(* Goroutines are scheduled and every handler returns.  A sender parked on   *)
(* a full queue gets its turn: Go queues blocked senders first in, first     *)
(* out, so it cannot be overtaken for ever.                                  *)
(***************************************************************************)
FairSpec ==
    /\ Spec
    /\ \A c \in Commands : WF_vars(DispatchStep(c)) /\ SF_vars(Enqueue(c) \/ HandOver(c))
    /\ \A sh \in Shards : WF_vars(WorkerStep(sh))
    /\ \A k \in Stoppers : WF_vars(StopStep(k))

-----------------------------------------------------------------------------

\* c is in its shard's queue or with the worker, not yet answered.
Queued(c) == \E n \in DOMAIN queues[selectShard[c]] : queues[selectShard[c]][n] = c
Taken(c) == current[selectShard[c]] = <<c>>

(***************************************************************************)
(* What Dispatch tells its caller is what happened: a command reported as    *)
(* handled was handled, once, and one refused because the bus is closed, or  *)
(* for want of a handler, is not handled then or later.                      *)
(***************************************************************************)
ResultIsTrue ==
    \A c \in Commands :
        /\ result[c] \in {"ok", "error", "panicked"} => runs[c] = 1
        /\ result[c] \in {"closed", "unregistered"} =>
              runs[c] = 0 /\ ~Queued(c) /\ ~Taken(c)

(***************************************************************************)
(* A command its caller gave up while it was queued is never handled         *)
(* (command_bus.go, worker).                                                 *)
(***************************************************************************)
GivenUpIsNotHandled ==
    \A c \in Commands : [](Queued(c) /\ result[c] = "cancelled" => [](runs[c] = 0))

(***************************************************************************)
(* Every Dispatch returns, whatever happens to its context, its handler and  *)
(* the bus meanwhile; and Stop returns, with the workers gone and nobody     *)
(* left behind in a queue (command_bus.go, Dispatch, worker and Stop).       *)
(***************************************************************************)
CallsComplete ==
    /\ \A c \in Commands : (dispatch[c] = "enqueue") ~> (dispatch[c] = "done")
    /\ \A k \in Stoppers : (stop[k] = "closed") ~>
          (stop[k] = "done" /\ \A sh \in Shards : worker[sh] = "exited")

(***************************************************************************)
(* When Stop has returned no handler is running: what the handlers use can   *)
(* be torn down (docs/reference/command-bus.md).                             *)
(***************************************************************************)
StopWaitsForHandlers ==
    (\E k \in Stoppers : stop[k] = "done") =>
        \A sh \in Shards : worker[sh] \notin {"checked", "running"}

=============================================================================
