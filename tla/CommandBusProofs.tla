-------------------------- MODULE CommandBusProofs --------------------------
(***************************************************************************)
(* Proofs about CommandBus, for any commands, types, shards, buffer sizes    *)
(* and callers of Stop.                                                      *)
(***************************************************************************)
EXTENDS CommandBus, TLAPS

(***************************************************************************)
(* The inductive invariant.  A command is in one place at a time: not sent,  *)
(* in the queue of its shard, with the worker of its shard, or answered; and *)
(* what has been said about it, in its ResponseCh and to its caller, agrees  *)
(* with where it is and with how often its handler ran.                      *)
(***************************************************************************)
Waiting(c) ==
    /\ dispatch[c] \in {"wait", "done"}
    /\ response[c] = "none"
    /\ result[c] \in {"none", "cancelled"}

QueuesSound ==
    \A sh \in Shards :
        /\ \A n \in 1..Len(queues[sh]) :
              /\ selectShard[queues[sh][n]] = sh
              /\ Waiting(queues[sh][n])
              /\ runs[queues[sh][n]] = 0
              /\ current[sh] # <<queues[sh][n]>>
        /\ \A m, n \in 1..Len(queues[sh]) : queues[sh][m] = queues[sh][n] => m = n

Busy(sh) == worker[sh] \in {"taken", "checked", "running"}

WorkersSound ==
    \A sh \in Shards :
        /\ ~Busy(sh) => current[sh] = <<>>
        /\ Busy(sh) => \E c \in Commands :
              /\ current[sh] = <<c>>
              /\ selectShard[c] = sh
              /\ Waiting(c)
              /\ runs[c] = IF worker[sh] = "running" THEN 1 ELSE 0

\* c has left no trace: its handler has not been called and will not be.
Unsent(c) == response[c] = "none" /\ runs[c] = 0 /\ ~Queued(c) /\ ~Taken(c)

CallerSound(c) ==
    /\ dispatch[c] \in {"idle", "enqueue"} => Unsent(c)
    /\ dispatch[c] = "done" <=> result[c] # "none"
    /\ result[c] = "closed" => Unsent(c)
    /\ result[c] = "cancelled" => cancelled[c]
    /\ result[c] \notin {"none", "closed", "cancelled"} => response[c] = result[c]

CallersSound == \A c \in Commands : CallerSound(c)

AnswerSound(c) ==
    /\ response[c] # "closed"
    /\ response[c] # "none" => ~Queued(c) /\ ~Taken(c)
    /\ response[c] \in {"ok", "error", "panicked"} => runs[c] = 1
    /\ response[c] \in {"unregistered", "cancelled"} => runs[c] = 0
    /\ response[c] = "cancelled" => cancelled[c]

AnswersSound == \A c \in Commands : AnswerSound(c)

IInv == TypeOK /\ QueuesSound /\ WorkersSound /\ CallersSound /\ AnswersSound

-----------------------------------------------------------------------------
LEMMA InitIInv == Init => IInv
<1> SUFFICES ASSUME Init PROVE IInv
  OBVIOUS
<1> USE BusAssumption DEF Init
<1>1. TypeOK
  <2>1. \A sh \in Shards : Len(queues[sh]) <= bufferSize
    OBVIOUS
  <2>2. queues \in [Shards -> Seq(Commands)] /\ current \in [Shards -> Seq(Commands)]
    OBVIOUS
  <2>3. stopCh \in BOOLEAN /\ drainCh \in BOOLEAN /\ cancelled \in [Commands -> BOOLEAN]
    OBVIOUS
  <2>4. response \in [Commands -> Results] /\ result \in [Commands -> Results]
    BY DEF Results
  <2> QED BY <2>1, <2>2, <2>3, <2>4 DEF TypeOK
<1>2. QueuesSound /\ WorkersSound
  BY DEF QueuesSound, WorkersSound, Busy
<1>3. CallersSound /\ AnswersSound
  BY DEF CallersSound, CallerSound, AnswersSound, AnswerSound, Unsent, Queued, Taken
<1> QED BY <1>1, <1>2, <1>3 DEF IInv

(***************************************************************************)
(* Steps that leave the queues, the workers and the answers alone: what a    *)
(* caller does, registration, and Stop.                                      *)
(***************************************************************************)
busVars == <<bufferSize, queues, response, worker, current, runs>>

LEMMA CallerStep ==
    ASSUME IInv, UNCHANGED busVars, TypeOK',
           \A c \in Commands : Waiting(c) => Waiting(c)',
           CallersSound', AnswersSound'
    PROVE  IInv'
<1> USE BusAssumption DEF IInv, TypeOK, busVars
<1>1. QueuesSound'
  <2>1. \A sh \in Shards : \A n \in 1..Len(queues[sh]) : queues[sh][n] \in Commands
    OBVIOUS
  <2> QED BY <2>1 DEF QueuesSound
<1>2. WorkersSound'
  BY DEF WorkersSound, Busy
<1> QED BY <1>1, <1>2

LEMMA CallerActions ==
    ASSUME IInv,
           \/ \E t \in Types : Register(t)
           \/ \E c \in Commands :
                 \/ Dispatch(c) \/ Cancel(c) \/ EnqueueStopped(c)
                 \/ EnqueueCancelled(c) \/ Answered(c) \/ WaitCancelled(c)
           \/ \E k \in Stoppers : CloseStop(k) \/ CloseDrain(k) \/ StopReturns(k)
    PROVE  IInv'
<1> USE BusAssumption DEF IInv, TypeOK, busVars
<1> DEFINE Quiet == UNCHANGED busVars /\ TypeOK' /\ CallersSound' /\ AnswersSound'
                    /\ \A d \in Commands : Waiting(d) => Waiting(d)'
<1>1. ASSUME NEW t \in Types, Register(t) PROVE Quiet
  <2>1. UNCHANGED <<busVars, dispatch, result, cancelled>> /\ TypeOK'
    BY <1>1 DEF Register
  <2> QED BY <2>1 DEF CallersSound, CallerSound, AnswersSound, AnswerSound, Waiting,
                      Unsent, Queued, Taken
<1>2. ASSUME NEW c \in Commands, Dispatch(c) PROVE Quiet
  <2>1. UNCHANGED busVars /\ TypeOK'
    BY <1>2 DEF Dispatch, Return, Results
  <2>2. \A d \in Commands : Waiting(d) => Waiting(d)'
    BY <1>2 DEF Dispatch, Return, Waiting
  <2>3. CallerSound(c)'
    BY <1>2 DEF Dispatch, Return, CallersSound, CallerSound, AnswersSound, AnswerSound,
                 Unsent, Queued, Taken
  <2>4. \A d \in Commands \ {c} : CallerSound(d)'
    BY <1>2 DEF Dispatch, Return, CallersSound, CallerSound, Unsent, Queued, Taken
  <2>5. AnswersSound'
    BY <1>2 DEF Dispatch, Return, AnswersSound, AnswerSound, Queued, Taken
  <2> QED BY <2>1, <2>2, <2>3, <2>4, <2>5 DEF CallersSound
<1>3. ASSUME NEW c \in Commands, Cancel(c) PROVE Quiet
  <2>1. UNCHANGED busVars /\ TypeOK'
    BY <1>3 DEF Cancel, Results
  <2>2. \A d \in Commands : Waiting(d) => Waiting(d)'
    BY <1>3 DEF Cancel, Waiting
  <2>3. CallerSound(c)'
    BY <1>3 DEF Cancel, CallersSound, CallerSound, AnswersSound, AnswerSound,
                 Unsent, Queued, Taken
  <2>4. \A d \in Commands \ {c} : CallerSound(d)'
    BY <1>3 DEF Cancel, CallersSound, CallerSound, Unsent, Queued, Taken
  <2>5. AnswersSound'
    BY <1>3 DEF Cancel, AnswersSound, AnswerSound, Queued, Taken
  <2> QED BY <2>1, <2>2, <2>3, <2>4, <2>5 DEF CallersSound
<1>4. ASSUME NEW c \in Commands, EnqueueStopped(c) PROVE Quiet
  <2>1. UNCHANGED busVars /\ TypeOK'
    BY <1>4 DEF EnqueueStopped, Return, Results
  <2>2. \A d \in Commands : Waiting(d) => Waiting(d)'
    BY <1>4 DEF EnqueueStopped, Return, Waiting
  <2>3. CallerSound(c)'
    BY <1>4 DEF EnqueueStopped, Return, CallersSound, CallerSound, AnswersSound, AnswerSound,
                 Unsent, Queued, Taken
  <2>4. \A d \in Commands \ {c} : CallerSound(d)'
    BY <1>4 DEF EnqueueStopped, Return, CallersSound, CallerSound, Unsent, Queued, Taken
  <2>5. AnswersSound'
    BY <1>4 DEF EnqueueStopped, Return, AnswersSound, AnswerSound, Queued, Taken
  <2> QED BY <2>1, <2>2, <2>3, <2>4, <2>5 DEF CallersSound
<1>5. ASSUME NEW c \in Commands, EnqueueCancelled(c) PROVE Quiet
  <2>1. UNCHANGED busVars /\ TypeOK'
    BY <1>5 DEF EnqueueCancelled, Return, Results
  <2>2. \A d \in Commands : Waiting(d) => Waiting(d)'
    BY <1>5 DEF EnqueueCancelled, Return, Waiting
  <2>3. CallerSound(c)'
    BY <1>5 DEF EnqueueCancelled, Return, CallersSound, CallerSound, AnswersSound, AnswerSound,
                 Unsent, Queued, Taken
  <2>4. \A d \in Commands \ {c} : CallerSound(d)'
    BY <1>5 DEF EnqueueCancelled, Return, CallersSound, CallerSound, Unsent, Queued, Taken
  <2>5. AnswersSound'
    BY <1>5 DEF EnqueueCancelled, Return, AnswersSound, AnswerSound, Queued, Taken
  <2> QED BY <2>1, <2>2, <2>3, <2>4, <2>5 DEF CallersSound
<1>6. ASSUME NEW c \in Commands, Answered(c) PROVE Quiet
  <2>1. UNCHANGED busVars /\ TypeOK'
    BY <1>6 DEF Answered, Return, Results
  <2>2. \A d \in Commands : Waiting(d) => Waiting(d)'
    BY <1>6 DEF Answered, Return, Waiting
  <2>3. CallerSound(c)'
    BY <1>6 DEF Answered, Return, CallersSound, CallerSound, AnswersSound, AnswerSound,
                 Unsent, Queued, Taken
  <2>4. \A d \in Commands \ {c} : CallerSound(d)'
    BY <1>6 DEF Answered, Return, CallersSound, CallerSound, Unsent, Queued, Taken
  <2>5. AnswersSound'
    BY <1>6 DEF Answered, Return, AnswersSound, AnswerSound, Queued, Taken
  <2> QED BY <2>1, <2>2, <2>3, <2>4, <2>5 DEF CallersSound
<1>7. ASSUME NEW c \in Commands, WaitCancelled(c) PROVE Quiet
  <2>1. UNCHANGED busVars /\ TypeOK'
    BY <1>7 DEF WaitCancelled, Return, Results
  <2>2. \A d \in Commands : Waiting(d) => Waiting(d)'
    BY <1>7 DEF WaitCancelled, Return, Waiting
  <2>3. CallerSound(c)'
    BY <1>7 DEF WaitCancelled, Return, CallersSound, CallerSound, AnswersSound, AnswerSound,
                 Unsent, Queued, Taken
  <2>4. \A d \in Commands \ {c} : CallerSound(d)'
    BY <1>7 DEF WaitCancelled, Return, CallersSound, CallerSound, Unsent, Queued, Taken
  <2>5. AnswersSound'
    BY <1>7 DEF WaitCancelled, Return, AnswersSound, AnswerSound, Queued, Taken
  <2> QED BY <2>1, <2>2, <2>3, <2>4, <2>5 DEF CallersSound
<1>8. ASSUME NEW k \in Stoppers, CloseStop(k) \/ CloseDrain(k) \/ StopReturns(k) PROVE Quiet
  <2>1. UNCHANGED <<busVars, dispatch, result, cancelled>> /\ TypeOK'
    BY <1>8, ZenonT(60) DEF CloseStop, CloseDrain, StopReturns
  <2> QED BY <2>1 DEF CallersSound, CallerSound, AnswersSound, AnswerSound, Waiting,
                      Unsent, Queued, Taken
<1>9. Quiet
  BY <1>1, <1>2, <1>3, <1>4, <1>5, <1>6, <1>7, <1>8
<1> HIDE DEF IInv, TypeOK, busVars
<1> QED BY <1>9, CallerStep

-----------------------------------------------------------------------------
(***************************************************************************)
(* Steps that move a command from one place to the next.                     *)
(***************************************************************************)
LEMMA EnqueueStep == ASSUME IInv, NEW c \in Commands, Enqueue(c) PROVE IInv'
<1> DEFINE sh == selectShard[c]
<1> USE BusAssumption DEF IInv
<1>1. /\ sh \in Shards /\ queues \in [Shards -> Seq(Commands)]
      /\ queues' = [queues EXCEPT ![sh] = Append(@, c)]
      /\ dispatch' = [dispatch EXCEPT ![c] = "wait"]
      /\ dispatch \in [Commands -> {"idle", "enqueue", "wait", "done"}]
      /\ UNCHANGED <<bufferSize, handlers, stopCh, drainCh, cancelled, response,
                     result, worker, current, runs, stop>>
  BY DEF Enqueue, TypeOK
<1>2. /\ queues'[sh] \in Seq(Commands)
      /\ Len(queues'[sh]) = Len(queues[sh]) + 1
      /\ queues'[sh][Len(queues[sh]) + 1] = c
      /\ \A n \in 1..Len(queues[sh]) : queues'[sh][n] = queues[sh][n]
      /\ \A t \in Shards : t # sh => queues'[t] = queues[t]
  BY <1>1
<1>3. Unsent(c) /\ result[c] = "none" /\ dispatch[c] = "enqueue"
  BY DEF Enqueue, CallersSound, CallerSound
<1>4. TypeOK'
  <2>1. queues' \in [Shards -> Seq(Commands)]
    BY <1>1, <1>2
  <2>2. \A t \in Shards : Len(queues'[t]) <= bufferSize'
    BY <1>1, <1>2 DEF Enqueue, TypeOK
  <2> QED BY <1>1, <2>1, <2>2 DEF TypeOK
<1>5. \A d \in Commands : (Waiting(d) => Waiting(d)') /\ (d # c => dispatch'[d] = dispatch[d])
  BY <1>1 DEF Waiting
<1>6. Waiting(c)'
  BY <1>1, <1>3 DEF Waiting, Unsent
<1>7. \A t \in Shards : \A n \in 1..Len(queues[t]) : queues[t][n] \in Commands /\ queues[t][n] # c
  BY <1>1, <1>3 DEF Unsent, Queued, QueuesSound
<1>8. QueuesSound'
  <2> SUFFICES ASSUME NEW t \in Shards
               PROVE  /\ \A n \in 1..Len(queues'[t]) :
                            /\ selectShard[queues'[t][n]] = t
                            /\ Waiting(queues[t][n])'
                            /\ runs'[queues'[t][n]] = 0
                            /\ current'[t] # <<queues'[t][n]>>
                      /\ \A m, n \in 1..Len(queues'[t]) : queues'[t][m] = queues'[t][n] => m = n
    BY DEF QueuesSound
  <2>1. CASE t # sh
    BY <2>1, <1>1, <1>2, <1>5, <1>7 DEF QueuesSound
  <2>2. CASE t = sh
    <3>1. ASSUME NEW n \in 1..Len(queues'[t])
          PROVE  /\ selectShard[queues'[t][n]] = t
                 /\ Waiting(queues[t][n])'
                 /\ runs'[queues'[t][n]] = 0
                 /\ current'[t] # <<queues'[t][n]>>
      <4>1. CASE n \in 1..Len(queues[sh])
        <5>1. queues'[t][n] = queues[sh][n] /\ queues[sh][n] \in Commands \ {c}
          BY <4>1, <2>2, <1>2, <1>7
        <5>2. /\ selectShard[queues[sh][n]] = sh /\ Waiting(queues[sh][n])
              /\ runs[queues[sh][n]] = 0 /\ current[sh] # <<queues[sh][n]>>
          BY <4>1, <1>1 DEF QueuesSound
        <5> QED BY <5>1, <5>2, <2>2, <1>1 DEF Waiting
      <4>2. CASE n = Len(queues[sh]) + 1
        BY <4>2, <2>2, <1>1, <1>2, <1>3, <1>6 DEF Unsent, Taken
      <4> QED BY <4>1, <4>2, <1>1, <1>2, <2>2
    <3>2. \A m, n \in 1..Len(queues'[t]) : queues'[t][m] = queues'[t][n] => m = n
      <4> SUFFICES ASSUME NEW m \in 1..Len(queues'[t]), NEW n \in 1..Len(queues'[t]),
                          queues'[t][m] = queues'[t][n]
                   PROVE  m = n
        OBVIOUS
      <4>1. \A i \in 1..Len(queues[sh]) : queues'[t][i] = queues[sh][i] /\ queues[sh][i] # c
        BY <2>2, <1>2, <1>7
      <4>2. queues'[t][Len(queues[sh]) + 1] = c /\ Len(queues'[t]) = Len(queues[sh]) + 1
        BY <2>2, <1>1, <1>2
      <4>3. \A i, j \in 1..Len(queues[sh]) : queues[sh][i] = queues[sh][j] => i = j
        BY DEF QueuesSound
      <4>4. Len(queues[sh]) \in Nat
        BY <1>1
      <4>5. \A i \in 1..Len(queues'[t]) :
               i \in 1..Len(queues[sh]) \/ (i = Len(queues[sh]) + 1 /\ queues'[t][i] = c)
        BY <4>2, <4>4
      <4>6. CASE m \in 1..Len(queues[sh]) /\ n \in 1..Len(queues[sh])
        <5>1. queues[sh][m] = queues[sh][n]
          BY <4>1, <4>6
        <5> QED BY <4>3, <4>6, <5>1
      <4>7. CASE m \in 1..Len(queues[sh]) /\ n = Len(queues[sh]) + 1
        BY <4>1, <4>2, <4>7
      <4>8. CASE m = Len(queues[sh]) + 1 /\ n \in 1..Len(queues[sh])
        BY <4>1, <4>2, <4>8
      <4>9. CASE m = Len(queues[sh]) + 1 /\ n = Len(queues[sh]) + 1
        BY <4>9
      <4> QED BY <4>5, <4>6, <4>7, <4>8, <4>9
    <3> QED BY <3>1, <3>2
  <2> QED BY <2>1, <2>2
<1>9. WorkersSound'
  BY <1>1, <1>5 DEF WorkersSound, Busy
<1>10. \A d \in Commands : d # c => (Queued(d)' <=> Queued(d)) /\ (Taken(d)' <=> Taken(d))
  <2> SUFFICES ASSUME NEW d \in Commands, d # c
               PROVE  (Queued(d)' <=> Queued(d)) /\ (Taken(d)' <=> Taken(d))
    OBVIOUS
  <2>1. CASE selectShard[d] # sh
    BY <2>1, <1>1, <1>2 DEF Queued, Taken
  <2>2. CASE selectShard[d] = sh
    <3>1. DOMAIN queues[sh] = 1..Len(queues[sh]) /\ DOMAIN queues'[sh] = 1..Len(queues'[sh])
      BY <1>1, <1>2
    <3>2. Queued(d)' <=> \E n \in 1..Len(queues'[sh]) : queues'[sh][n] = d
      BY <3>1, <2>2 DEF Queued
    <3>3. Queued(d) <=> \E n \in 1..Len(queues[sh]) : queues[sh][n] = d
      BY <3>1, <2>2 DEF Queued
    <3>4. \A n \in 1..Len(queues'[sh]) : n \in 1..Len(queues[sh]) \/ queues'[sh][n] = c
      BY <1>1, <1>2
    <3> QED BY <3>2, <3>3, <3>4, <2>2, <1>1, <1>2 DEF Taken
  <2> QED BY <2>1, <2>2
<1>11. CallersSound'
  BY <1>1, <1>3, <1>10 DEF CallersSound, CallerSound, Unsent
<1>12. AnswersSound'
  BY <1>1, <1>3, <1>10 DEF AnswersSound, AnswerSound, Unsent
<1> QED BY <1>4, <1>8, <1>9, <1>11, <1>12

LEMMA HandOverStep == ASSUME IInv, NEW c \in Commands, HandOver(c) PROVE IInv'
<1> DEFINE sh == selectShard[c]
<1> USE BusAssumption DEF IInv
<1>1. /\ sh \in Shards /\ worker[sh] = "select"
      /\ queues \in [Shards -> Seq(Commands)] /\ current \in [Shards -> Seq(Commands)]
      /\ worker \in [Shards -> {"select", "taken", "checked", "running", "exited"}]
      /\ current' = [current EXCEPT ![sh] = <<c>>]
      /\ worker' = [worker EXCEPT ![sh] = "taken"]
      /\ dispatch' = [dispatch EXCEPT ![c] = "wait"]
      /\ dispatch \in [Commands -> {"idle", "enqueue", "wait", "done"}]
      /\ UNCHANGED <<bufferSize, handlers, queues, stopCh, drainCh, cancelled,
                     response, result, runs, stop>>
  BY DEF HandOver, TypeOK
<1>2. Unsent(c) /\ result[c] = "none" /\ dispatch[c] = "enqueue"
  BY DEF HandOver, CallersSound, CallerSound
<1>3. TypeOK'
  <2>1. current' \in [Shards -> Seq(Commands)]
    BY <1>1
  <2> QED BY <1>1, <2>1 DEF TypeOK
<1>4. \A d \in Commands : Waiting(d) => Waiting(d)'
  BY <1>1 DEF Waiting
<1>5. Waiting(c)'
  BY <1>1, <1>2 DEF Waiting, Unsent
<1>6. \A t \in Shards : \A n \in 1..Len(queues[t]) : queues[t][n] \in Commands /\ queues[t][n] # c
  BY <1>1, <1>2 DEF Unsent, Queued, QueuesSound
<1>7. QueuesSound'
  <2>1. \A t \in Shards : \A n \in 1..Len(queues[t]) : current'[t] # <<queues[t][n]>>
    <3>1. current'[sh] = <<c>> /\ \A d : <<c>> = <<d>> => c = d
      BY <1>1
    <3>2. \A t \in Shards : t # sh => current'[t] = current[t]
      BY <1>1
    <3> QED BY <3>1, <3>2, <1>6 DEF QueuesSound
  <2>2. \A t \in Shards : \A n \in 1..Len(queues[t]) :
           /\ selectShard[queues[t][n]] = t
           /\ Waiting(queues[t][n])'
           /\ runs'[queues[t][n]] = 0
    BY <1>1, <1>4, <1>6 DEF QueuesSound
  <2>3. \A t \in Shards : \A m, n \in 1..Len(queues[t]) : queues[t][m] = queues[t][n] => m = n
    BY DEF QueuesSound
  <2>4. queues' = queues
    BY <1>1
  <2> QED BY <2>1, <2>2, <2>3, <2>4 DEF QueuesSound
<1>8. WorkersSound'
  <2>1. runs[c] = 0
    BY <1>2 DEF Unsent
  <2>2. ASSUME NEW t \in Shards, t # sh
        PROVE  current'[t] = current[t] /\ worker'[t] = worker[t]
    BY <2>2, <1>1
  <2>3. current'[sh] = <<c>> /\ worker'[sh] = "taken"
    BY <1>1
  <2> QED BY <1>1, <1>4, <1>5, <2>1, <2>2, <2>3 DEF WorkersSound, Busy
<1>9. \A d \in Commands : d # c => (Queued(d)' <=> Queued(d)) /\ (Taken(d)' => Taken(d))
  <2>1. <<c>> # <<>>
    OBVIOUS
  <2> QED BY <1>1, <2>1 DEF Queued, Taken
<1>10. CallersSound'
  BY <1>1, <1>2, <1>9 DEF CallersSound, CallerSound, Unsent
<1>11. AnswersSound'
  BY <1>1, <1>2, <1>9 DEF AnswersSound, AnswerSound, Unsent
<1> QED BY <1>3, <1>7, <1>8, <1>10, <1>11

LEMMA TakeStep == ASSUME IInv, NEW sh \in Shards, Take(sh) PROVE IInv'
<1> DEFINE c == Head(queues[sh])
<1> USE BusAssumption DEF IInv
<1>1. /\ queues \in [Shards -> Seq(Commands)] /\ current \in [Shards -> Seq(Commands)]
      /\ worker \in [Shards -> {"select", "taken", "checked", "running", "exited"}]
      /\ worker[sh] = "select" /\ queues[sh] # <<>>
      /\ current' = [current EXCEPT ![sh] = <<c>>]
      /\ queues' = [queues EXCEPT ![sh] = Tail(@)]
      /\ worker' = [worker EXCEPT ![sh] = "taken"]
      /\ UNCHANGED <<bufferSize, handlers, stopCh, drainCh, dispatch, cancelled,
                     response, result, runs, stop>>
  BY DEF Take, TypeOK
<1>2. /\ 1 \in 1..Len(queues[sh]) /\ c = queues[sh][1] /\ c \in Commands
      /\ queues'[sh] \in Seq(Commands)
      /\ Len(queues'[sh]) = Len(queues[sh]) - 1
      /\ \A n \in 1..Len(queues'[sh]) :
            n + 1 \in 1..Len(queues[sh]) /\ queues'[sh][n] = queues[sh][n + 1]
      /\ \A t \in Shards : t # sh => queues'[t] = queues[t]
  BY <1>1
<1>3. selectShard[c] = sh /\ Waiting(c) /\ runs[c] = 0
  <2>1. /\ selectShard[queues[sh][1]] = sh /\ Waiting(queues[sh][1])
        /\ runs[queues[sh][1]] = 0
    BY <1>2 DEF QueuesSound
  <2> QED BY <2>1, <1>2
<1>4. TypeOK'
  <2>1. queues' \in [Shards -> Seq(Commands)] /\ current' \in [Shards -> Seq(Commands)]
    BY <1>1, <1>2
  <2>2. \A t \in Shards : Len(queues'[t]) <= bufferSize'
    BY <1>1, <1>2 DEF TypeOK
  <2> QED BY <1>1, <2>1, <2>2 DEF TypeOK
<1>5. QueuesSound'
  <2>1. ASSUME NEW t \in Shards, t # sh, NEW n \in 1..Len(queues'[t])
        PROVE  /\ selectShard[queues'[t][n]] = t
               /\ Waiting(queues[t][n])'
               /\ runs'[queues'[t][n]] = 0
               /\ current'[t] # <<queues'[t][n]>>
    BY <2>1, <1>1, <1>2 DEF QueuesSound, Waiting
  <2>2. ASSUME NEW n \in 1..Len(queues'[sh])
        PROVE  /\ selectShard[queues'[sh][n]] = sh
               /\ Waiting(queues[sh][n])'
               /\ runs'[queues'[sh][n]] = 0
               /\ current'[sh] # <<queues'[sh][n]>>
    <3>1. queues'[sh][n] = queues[sh][n + 1] /\ n + 1 \in 1..Len(queues[sh])
          /\ queues[sh][n + 1] # c
      <4>1. queues'[sh][n] = queues[sh][n + 1] /\ n + 1 \in 1..Len(queues[sh])
            /\ 1 \in 1..Len(queues[sh]) /\ n + 1 # 1
        BY <1>1, <1>2
      <4>2. queues[sh][n + 1] = queues[sh][1] => n + 1 = 1
        BY <4>1 DEF QueuesSound
      <4>3. c = queues[sh][1]
        BY <1>2
      <4> QED BY <4>1, <4>2, <4>3
    <3>2. current'[sh] = <<c>> /\ \A d : <<c>> = <<d>> => c = d
      BY <1>1
    <3> QED BY <3>1, <3>2, <1>1 DEF QueuesSound, Waiting
  <2>3. ASSUME NEW t \in Shards, NEW m \in 1..Len(queues'[t]), NEW n \in 1..Len(queues'[t]),
               queues'[t][m] = queues'[t][n]
        PROVE  m = n
    <3>1. CASE t = sh
      <4>1. m + 1 = n + 1
        <5>1. \A i, j \in 1..Len(queues[sh]) : queues[sh][i] = queues[sh][j] => i = j
          BY DEF QueuesSound
        <5>2. m + 1 \in 1..Len(queues[sh]) /\ n + 1 \in 1..Len(queues[sh])
              /\ queues[sh][m + 1] = queues[sh][n + 1]
          BY <2>3, <3>1, <1>2
        <5> QED BY <5>1, <5>2
      <4> QED BY <4>1, <3>1, <1>2
    <3>2. CASE t # sh
      BY <2>3, <3>2, <1>1, <1>2 DEF QueuesSound
    <3> QED BY <3>1, <3>2
  <2> QED BY <2>1, <2>2, <2>3 DEF QueuesSound
<1>6. WorkersSound'
  <2>1. ASSUME NEW t \in Shards, t # sh
        PROVE  current'[t] = current[t] /\ worker'[t] = worker[t]
    BY <2>1, <1>1
  <2>2. current'[sh] = <<c>> /\ worker'[sh] = "taken"
    BY <1>1
  <2>3. \A d \in Commands : Waiting(d)' <=> Waiting(d)
    BY <1>1 DEF Waiting
  <2> QED BY <1>1, <1>2, <1>3, <2>1, <2>2, <2>3 DEF WorkersSound, Busy
<1>7. \A d \in Commands : (Queued(d)' => Queued(d)) /\ (Taken(d)' => Taken(d) \/ Queued(d))
  <2> SUFFICES ASSUME NEW d \in Commands
               PROVE  (Queued(d)' => Queued(d)) /\ (Taken(d)' => Taken(d) \/ Queued(d))
    OBVIOUS
  <2>1. CASE selectShard[d] # sh
    BY <2>1, <1>1, <1>2 DEF Queued, Taken
  <2>2. CASE selectShard[d] = sh
    <3>1. DOMAIN queues[sh] = 1..Len(queues[sh]) /\ DOMAIN queues'[sh] = 1..Len(queues'[sh])
      BY <1>1, <1>2
    <3>2. Queued(d)' => Queued(d)
      BY <3>1, <2>2, <1>2 DEF Queued
    <3>3. Taken(d)' => d = c
      BY <2>2, <1>1 DEF Taken
    <3>4. Queued(c)
      BY <3>1, <1>2, <1>3 DEF Queued
    <3> QED BY <3>2, <3>3, <3>4
  <2> QED BY <2>1, <2>2
<1>8. CallersSound'
  BY <1>1, <1>7 DEF CallersSound, CallerSound, Unsent
<1>9. AnswersSound'
  BY <1>1, <1>7 DEF AnswersSound, AnswerSound
<1> QED BY <1>4, <1>5, <1>6, <1>8, <1>9

(***************************************************************************)
(* The worker of shard sh answers its command: with a context's error before *)
(* it calls the handler, for want of a handler, or with what the handler     *)
(* returned.                                                                 *)
(***************************************************************************)
LEMMA RespondStep ==
    ASSUME IInv, NEW sh \in Shards, Busy(sh), NEW how \in Results \ {"none", "closed"},
           Respond(sh, how),
           UNCHANGED <<bufferSize, handlers, queues, stopCh, drainCh, dispatch,
                       cancelled, result, runs, stop>>,
           IF worker[sh] = "running" THEN how \in {"ok", "error", "panicked"}
                                     ELSE how \in {"unregistered", "cancelled"},
           how = "cancelled" => cancelled[Head(current[sh])]
    PROVE  IInv'
<1> USE BusAssumption DEF IInv
<1>1. PICK c \in Commands : /\ current[sh] = <<c>>
                            /\ selectShard[c] = sh
                            /\ Waiting(c)
                            /\ runs[c] = IF worker[sh] = "running" THEN 1 ELSE 0
  BY DEF WorkersSound
<1>2. /\ queues \in [Shards -> Seq(Commands)] /\ current \in [Shards -> Seq(Commands)]
      /\ worker \in [Shards -> {"select", "taken", "checked", "running", "exited"}]
      /\ response \in [Commands -> Results]
      /\ Head(current[sh]) = c
      /\ response' = [response EXCEPT ![c] = how]
      /\ current' = [current EXCEPT ![sh] = <<>>]
      /\ worker' = [worker EXCEPT ![sh] = "select"]
  BY <1>1 DEF Respond, TypeOK
<1>3. TypeOK'
  <2>1. current' \in [Shards -> Seq(Commands)]
    BY <1>2
  <2>2. response' \in [Commands -> Results]
    BY <1>2
  <2> QED BY <1>2, <2>1, <2>2 DEF TypeOK
<1>4. \A t \in Shards : \A n \in 1..Len(queues[t]) : queues[t][n] \in Commands \ {c}
  <2> TAKE t \in Shards
  <2> TAKE n \in 1..Len(queues[t])
  <2>1. queues[t][n] \in Commands
    BY <1>2
  <2>2. selectShard[queues[t][n]] = t /\ current[t] # <<queues[t][n]>>
    BY DEF QueuesSound
  <2> QED BY <1>1, <2>1, <2>2
<1>5. \A d \in Commands \ {c} : Waiting(d) => Waiting(d)'
  BY <1>2 DEF Waiting
<1>6. \A t \in Shards : t # sh => current'[t] = current[t] /\ worker'[t] = worker[t]
  BY <1>2
<1>7. QueuesSound'
  <2>1. current'[sh] = <<>> /\ \A d : <<>> # <<d>>
    BY <1>2
  <2>2. \A t \in Shards : \A n \in 1..Len(queues[t]) :
           Waiting(queues[t][n])' /\ current'[t] # <<queues[t][n]>>
    <3> SUFFICES ASSUME NEW t \in Shards, NEW n \in 1..Len(queues[t])
                 PROVE  Waiting(queues[t][n])' /\ current'[t] # <<queues[t][n]>>
      OBVIOUS
    <3>1. Waiting(queues[t][n]) /\ current[t] # <<queues[t][n]>>
      BY DEF QueuesSound
    <3>2. queues'[t][n] = queues[t][n]
      OBVIOUS
    <3>3. current'[t] # <<queues[t][n]>>
      BY <1>6, <2>1, <3>1
    <3> QED BY <1>4, <1>5, <3>1, <3>2, <3>3 DEF Waiting
  <2> QED BY <2>2 DEF QueuesSound
<1>8. WorkersSound'
  <2>1. current'[sh] = <<>> /\ worker'[sh] = "select"
    BY <1>2
  <2>2. ASSUME NEW t \in Shards, t # sh, Busy(t)
        PROVE  \E d \in Commands :
                  /\ current'[t] = <<d>>
                  /\ selectShard[d] = t
                  /\ Waiting(d)'
                  /\ runs'[d] = IF worker'[t] = "running" THEN 1 ELSE 0
    <3>1. PICK d \in Commands : /\ current[t] = <<d>>
                                /\ selectShard[d] = t
                                /\ Waiting(d)
                                /\ runs[d] = IF worker[t] = "running" THEN 1 ELSE 0
      BY <2>2 DEF WorkersSound
    <3>2. d # c
      BY <3>1, <1>1, <2>2
    <3> QED BY <3>1, <3>2, <1>5, <1>6, <2>2
  <2>3. ASSUME NEW t \in Shards, t # sh PROVE Busy(t)' <=> Busy(t)
    BY <2>3, <1>6 DEF Busy
  <2>4. ~Busy(sh)'
    BY <2>1 DEF Busy
  <2> QED BY <1>6, <2>1, <2>2, <2>3, <2>4 DEF WorkersSound
<1>9. \A d \in Commands : (Queued(d)' <=> Queued(d)) /\ (Taken(d)' => Taken(d))
  BY <1>2, <1>6 DEF Queued, Taken
<1>10. ~Queued(c)' /\ ~Taken(c)'
  <2>1. ~Taken(c)'
    BY <1>1, <1>2 DEF Taken
  <2>2. ~Queued(c)'
    BY <1>1, <1>2, <1>4 DEF Queued
  <2> QED BY <2>1, <2>2
<1>11. CallersSound'
  <2>1. ~Unsent(c)
    BY <1>1 DEF Unsent, Taken
  <2>2. CallerSound(c)'
    BY <1>1, <1>2, <2>1 DEF CallersSound, CallerSound, Waiting
  <2>3. \A d \in Commands \ {c} : CallerSound(d)'
    BY <1>2, <1>9 DEF CallersSound, CallerSound, Unsent
  <2> QED BY <2>2, <2>3 DEF CallersSound
<1>12. AnswersSound'
  <2>1. AnswerSound(c)'
    BY <1>1, <1>2, <1>10 DEF AnswerSound
  <2>2. \A d \in Commands \ {c} : AnswerSound(d)'
    BY <1>2, <1>9 DEF AnswersSound, AnswerSound
  <2> QED BY <2>1, <2>2 DEF AnswersSound
<1> QED BY <1>3, <1>7, <1>8, <1>11, <1>12

(***************************************************************************)
(* The worker goes on without an answer: from the context check to the       *)
(* lookup, and from the lookup into the handler.                             *)
(***************************************************************************)
LEMMA ProceedStep ==
    ASSUME IInv, NEW sh \in Shards,
           \/ /\ worker[sh] = "taken" /\ UNCHANGED runs
              /\ worker' = [worker EXCEPT ![sh] = "checked"]
           \/ /\ worker[sh] = "checked"
              /\ runs' = [runs EXCEPT ![Head(current[sh])] = @ + 1]
              /\ worker' = [worker EXCEPT ![sh] = "running"],
           UNCHANGED <<bufferSize, handlers, queues, stopCh, drainCh, dispatch,
                       cancelled, response, result, current, stop>>
    PROVE  IInv'
<1> USE BusAssumption DEF IInv
<1>1. PICK c \in Commands : /\ current[sh] = <<c>>
                            /\ selectShard[c] = sh
                            /\ Waiting(c)
                            /\ runs[c] = 0
  BY DEF WorkersSound, Busy
<1>2. /\ queues \in [Shards -> Seq(Commands)] /\ current \in [Shards -> Seq(Commands)]
      /\ worker \in [Shards -> {"select", "taken", "checked", "running", "exited"}]
      /\ runs \in [Commands -> 0..1]
      /\ Head(current[sh]) = c
  BY <1>1 DEF TypeOK
<1>3. /\ worker' \in [Shards -> {"select", "taken", "checked", "running", "exited"}]
      /\ worker'[sh] \in {"checked", "running"}
      /\ \A t \in Shards : t # sh => worker'[t] = worker[t]
      /\ runs' \in [Commands -> 0..1]
      /\ runs'[c] = IF worker'[sh] = "running" THEN 1 ELSE 0
      /\ \A d \in Commands : d # c => runs'[d] = runs[d]
  <2>1. CASE /\ worker[sh] = "taken" /\ UNCHANGED runs
             /\ worker' = [worker EXCEPT ![sh] = "checked"]
    BY <2>1, <1>1, <1>2
  <2>2. CASE /\ worker[sh] = "checked"
             /\ runs' = [runs EXCEPT ![Head(current[sh])] = @ + 1]
             /\ worker' = [worker EXCEPT ![sh] = "running"]
    BY <2>2, <1>1, <1>2
  <2> QED BY <2>1, <2>2
<1>4. TypeOK'
  BY <1>3 DEF TypeOK
<1>5. \A d \in Commands : Waiting(d)' <=> Waiting(d)
  BY DEF Waiting
<1>6. QueuesSound'
  <2>1. \A t \in Shards : \A n \in 1..Len(queues[t]) : queues[t][n] \in Commands \ {c}
    <3> TAKE t \in Shards
    <3> TAKE n \in 1..Len(queues[t])
    <3>1. queues[t][n] \in Commands
      BY <1>2
    <3>2. selectShard[queues[t][n]] = t /\ current[t] # <<queues[t][n]>>
      BY DEF QueuesSound
    <3> QED BY <1>1, <3>1, <3>2
  <2> QED BY <1>3, <1>5, <2>1 DEF QueuesSound
<1>7. WorkersSound'
  <2>1. ASSUME NEW t \in Shards, t # sh, Busy(t)
        PROVE  \E d \in Commands :
                  /\ current'[t] = <<d>>
                  /\ selectShard[d] = t
                  /\ Waiting(d)'
                  /\ runs'[d] = IF worker'[t] = "running" THEN 1 ELSE 0
    <3>1. PICK d \in Commands : /\ current[t] = <<d>>
                                /\ selectShard[d] = t
                                /\ Waiting(d)
                                /\ runs[d] = IF worker[t] = "running" THEN 1 ELSE 0
      BY <2>1 DEF WorkersSound
    <3> QED BY <3>1, <1>1, <1>3, <1>5, <2>1
  <2>2. ASSUME NEW t \in Shards, t # sh PROVE Busy(t)' <=> Busy(t)
    BY <2>2, <1>3 DEF Busy
  <2>3. Busy(sh)'
    BY <1>3 DEF Busy
  <2> QED BY <1>1, <1>3, <1>5, <2>1, <2>2, <2>3 DEF WorkersSound
<1>8. \A d \in Commands : (Queued(d)' <=> Queued(d)) /\ (Taken(d)' <=> Taken(d))
  BY DEF Queued, Taken
<1>9. Taken(c) /\ response[c] = "none"
  BY <1>1 DEF Taken, Waiting
<1>10. CallersSound'
  BY <1>3, <1>8, <1>9 DEF CallersSound, CallerSound, Unsent
<1>11. AnswersSound'
  BY <1>3, <1>8, <1>9 DEF AnswersSound, AnswerSound
<1> QED BY <1>4, <1>6, <1>7, <1>10, <1>11

LEMMA WorkerActions == ASSUME IInv, NEW sh \in Shards, WorkerStep(sh) PROVE IInv'
<1>1. CASE Take(sh)
  BY <1>1, TakeStep
<1>2. CASE Exit(sh)
  <2> USE BusAssumption DEF IInv
  <2>1. /\ UNCHANGED <<queues, dispatch, cancelled, response, result, current, runs>>
        /\ worker \in [Shards -> {"select", "taken", "checked", "running", "exited"}]
        /\ worker[sh] = "select" /\ worker' = [worker EXCEPT ![sh] = "exited"]
    BY <1>2 DEF Exit, TypeOK
  <2>2. TypeOK'
    BY <1>2 DEF Exit, TypeOK
  <2>3. \A d \in Commands : Waiting(d)' <=> Waiting(d)
    BY <2>1 DEF Waiting
  <2>4. QueuesSound'
    <3>1. \A t \in Shards : \A n \in 1..Len(queues[t]) : queues[t][n] \in Commands
      BY DEF TypeOK
    <3> QED BY <2>1, <2>3, <3>1 DEF QueuesSound
  <2>5. WorkersSound'
    BY <2>1, <2>3 DEF WorkersSound, Busy
  <2>6. CallersSound' /\ AnswersSound'
    BY <2>1 DEF CallersSound, CallerSound, AnswersSound, AnswerSound, Unsent, Queued, Taken
  <2> QED BY <2>2, <2>4, <2>5, <2>6
<1>3. CASE CheckContext(sh)
  <2>1. CASE cancelled[Head(current[sh])]
    BY <1>3, <2>1, RespondStep DEF CheckContext, Busy, Results
  <2>2. CASE ~cancelled[Head(current[sh])]
    BY <1>3, <2>2, ProceedStep DEF CheckContext
  <2> QED BY <2>1, <2>2
<1>4. CASE CallHandler(sh)
  <2>1. CASE CommandType[Head(current[sh])] \in handlers
    BY <1>4, <2>1, ProceedStep DEF CallHandler
  <2>2. CASE CommandType[Head(current[sh])] \notin handlers
    BY <1>4, <2>2, RespondStep DEF CallHandler, Busy, Results
  <2> QED BY <2>1, <2>2
<1>5. CASE HandlerEnds(sh)
  <2>1. PICK how \in {"ok", "error", "panicked"} : Respond(sh, how)
    BY <1>5 DEF HandlerEnds
  <2> QED BY <1>5, <2>1, RespondStep DEF HandlerEnds, Busy, Results
<1> QED BY <1>1, <1>2, <1>3, <1>4, <1>5 DEF WorkerStep

LEMMA NextIInv == IInv /\ [Next]_vars => IInv'
<1> SUFFICES ASSUME IInv, [Next]_vars PROVE IInv'
  OBVIOUS
<1>1. ASSUME NEW c \in Commands, Dispatch(c) \/ DispatchStep(c) \/ Cancel(c) PROVE IInv'
  BY <1>1, CallerActions, EnqueueStep, HandOverStep DEF DispatchStep
<1>2. ASSUME NEW t \in Types, Register(t) PROVE IInv'
  BY <1>2, CallerActions
<1>3. ASSUME NEW k \in Stoppers, CloseStop(k) \/ StopStep(k) PROVE IInv'
  BY <1>3, CallerActions DEF StopStep
<1>4. CASE UNCHANGED vars
  <2>1. UNCHANGED busVars /\ TypeOK' /\ CallersSound' /\ AnswersSound'
        /\ \A d \in Commands : Waiting(d) => Waiting(d)'
    BY <1>4, ZenonT(60) DEF vars, busVars, IInv, TypeOK, CallersSound, CallerSound, AnswersSound,
                AnswerSound, Unsent, Queued, Taken, Waiting
  <2> QED BY <2>1, CallerStep
<1> QED BY <1>1, <1>2, <1>3, <1>4, WorkerActions DEF Next

(***************************************************************************)
(* The invariant holds in every reachable state.                             *)
(***************************************************************************)
THEOREM Inductive == Spec => []IInv
<1> QED BY InitIInv, NextIInv, PTL DEF Spec

(***************************************************************************)
(* Type correctness, with its two real bounds: no queue outgrows the buffer  *)
(* the bus was made with, and no handler is called twice for one Dispatch.   *)
(***************************************************************************)
THEOREM TypeCorrect == Spec => []TypeOK
<1>1. IInv => TypeOK
  BY DEF IInv
<1> QED BY <1>1, Inductive, PTL

(***************************************************************************)
(* What Dispatch returns is what happened to the command: handled once, or   *)
(* never sent, never to be handled.                                          *)
(***************************************************************************)
THEOREM ResultCorrect == Spec => []ResultIsTrue
<1>1. IInv => ResultIsTrue
  <2> SUFFICES ASSUME IInv, NEW c \in Commands
               PROVE  /\ result[c] \in {"ok", "error", "panicked"} => runs[c] = 1
                      /\ result[c] \in {"closed", "unregistered"} =>
                            runs[c] = 0 /\ ~Queued(c) /\ ~Taken(c)
    BY DEF ResultIsTrue
  <2> QED BY DEF IInv, CallersSound, CallerSound, AnswersSound, AnswerSound, Unsent
<1> QED BY <1>1, Inductive, PTL

(***************************************************************************)
(* A command given up in the queue stays unhandled: wherever it is from then *)
(* on, its context is done and no worker has passed the check of it.         *)
(***************************************************************************)
GivenUp(c) ==
    /\ cancelled[c]
    /\ runs[c] = 0
    /\ response[c] # "none" \/ Queued(c)
       \/ (Taken(c) /\ worker[selectShard[c]] = "taken")

LEMMA GivenUpStays ==
    ASSUME NEW c \in Commands
    PROVE  IInv /\ GivenUp(c) /\ [Next]_vars => GivenUp(c)'
<1> SUFFICES ASSUME IInv, GivenUp(c), [Next]_vars PROVE GivenUp(c)'
  OBVIOUS
<1> USE BusAssumption DEF IInv
<1> DEFINE s == selectShard[c]
<1>1. s \in Shards /\ queues \in [Shards -> Seq(Commands)]
      /\ current \in [Shards -> Seq(Commands)]
      /\ worker \in [Shards -> {"select", "taken", "checked", "running", "exited"}]
      /\ response \in [Commands -> Results] /\ runs \in [Commands -> 0..1]
  BY DEF TypeOK
<1>2. ASSUME NEW t \in Shards, WorkerStep(t) PROVE GivenUp(c)'
  <2>1. UNCHANGED cancelled
    BY <1>2 DEF WorkerStep, Take, Exit, CheckContext, CallHandler, HandlerEnds
  <2>2. CASE t # s
    <3>1. queues'[s] = queues[s] /\ worker'[s] = worker[s] /\ current'[s] = current[s]
      BY <1>1, <1>2, <2>2 DEF WorkerStep, Take, Exit, CheckContext, CallHandler,
                              HandlerEnds, Respond
    <3>2. Busy(t) => Head(current[t]) # c
      BY <1>1, <2>2 DEF WorkersSound
    <3>3. response'[c] = response[c] /\ runs'[c] = runs[c]
      BY <1>1, <1>2, <3>2 DEF WorkerStep, Take, Exit, CheckContext, CallHandler,
                              HandlerEnds, Respond, Busy
    <3> QED BY <2>1, <3>1, <3>3 DEF GivenUp, Queued, Taken
  <2>3. CASE t = s /\ response[c] # "none"
    <3>1. ~Taken(c)
      BY <2>3 DEF AnswersSound, AnswerSound
    <3>2. Busy(t) => Head(current[t]) # c
      BY <1>1, <2>3, <3>1 DEF WorkersSound, Taken
    <3>3. response'[c] = response[c] /\ runs'[c] = runs[c]
      BY <1>1, <1>2, <3>2 DEF WorkerStep, Take, Exit, CheckContext, CallHandler,
                              HandlerEnds, Respond, Busy
    <3> QED BY <2>1, <2>3, <3>3 DEF GivenUp
  <2>4. CASE t = s /\ Queued(c)
    <3>1. PICK n \in 1..Len(queues[s]) : queues[s][n] = c
      BY <1>1, <2>4 DEF Queued
    <3>2. Busy(t) => Head(current[t]) # c
      <4>1. current[s] # <<c>>
        BY <1>1, <3>1 DEF QueuesSound
      <4> QED BY <1>1, <2>4, <4>1 DEF WorkersSound
    <3>3. response'[c] = response[c] /\ runs'[c] = runs[c]
      BY <1>1, <1>2, <3>2 DEF WorkerStep, Take, Exit, CheckContext, CallHandler,
                              HandlerEnds, Respond, Busy
    <3>4. CASE ~Take(t)
      <4>1. UNCHANGED queues
        BY <1>2, <3>4 DEF WorkerStep, Exit, CheckContext, CallHandler, HandlerEnds
      <4> QED BY <2>1, <2>4, <3>3, <4>1 DEF GivenUp, Queued
    <3>5. CASE Take(t) /\ n = 1
      <4>1. Taken(c)' /\ worker'[s] = "taken"
        BY <1>1, <2>4, <3>1, <3>5 DEF Take, Taken
      <4> QED BY <2>1, <3>3, <4>1 DEF GivenUp
    <3>6. CASE Take(t) /\ n # 1
      <4>1. queues'[s] = Tail(queues[s]) /\ queues[s] \in Seq(Commands) /\ queues[s] # <<>>
        BY <1>1, <2>4, <3>6 DEF Take
      <4>2. n - 1 \in DOMAIN queues'[s] /\ queues'[s][n - 1] = c
        BY <3>1, <3>6, <4>1
      <4> QED BY <2>1, <3>3, <4>2 DEF GivenUp, Queued
    <3> QED BY <3>4, <3>5, <3>6
  <2>5. CASE t = s /\ Taken(c) /\ worker[s] = "taken"
    <3>1. Head(current[s]) = c
      BY <2>5 DEF Taken
    <3>2. CheckContext(t) /\ cancelled[c]
      BY <1>2, <2>5 DEF WorkerStep, Take, Exit, CallHandler, HandlerEnds, GivenUp
    <3>3. response'[c] = "cancelled" /\ runs'[c] = runs[c]
      BY <1>1, <2>5, <3>1, <3>2 DEF CheckContext, Respond
    <3> QED BY <2>1, <3>3 DEF GivenUp
  <2> QED BY <2>2, <2>3, <2>4, <2>5 DEF GivenUp
<1>3. ASSUME NEW d \in Commands, Enqueue(d) PROVE GivenUp(c)'
  <2>1. UNCHANGED <<cancelled, response, worker, current, runs>>
        /\ queues' = [queues EXCEPT ![selectShard[d]] = Append(@, d)]
    BY <1>3 DEF Enqueue
  <2>2. Queued(c) => Queued(c)'
    <3>1. CASE selectShard[d] # s
      BY <1>1, <2>1, <3>1 DEF Queued
    <3>2. CASE selectShard[d] = s
      <4>1. queues'[s] = Append(queues[s], d) /\ queues[s] \in Seq(Commands)
        BY <1>1, <2>1, <3>2
      <4>2. \A n \in DOMAIN queues[s] : n \in DOMAIN queues'[s] /\ queues'[s][n] = queues[s][n]
        BY <4>1
      <4> QED BY <4>2 DEF Queued
    <3> QED BY <3>1, <3>2
  <2> QED BY <2>1, <2>2 DEF GivenUp, Taken
<1>4. ASSUME NEW d \in Commands, HandOver(d) PROVE GivenUp(c)'
  <2>1. UNCHANGED <<cancelled, response, queues, runs>> /\ worker[selectShard[d]] = "select"
        /\ current' = [current EXCEPT ![selectShard[d]] = <<d>>]
        /\ worker' = [worker EXCEPT ![selectShard[d]] = "taken"]
    BY <1>4 DEF HandOver
  <2>2. worker[s] = "taken" => worker'[s] = "taken" /\ current'[s] = current[s]
    BY <1>1, <2>1
  <2> QED BY <2>1, <2>2 DEF GivenUp, Queued, Taken
<1>5. ASSUME UNCHANGED <<queues, response, worker, current, runs>>,
             cancelled'[c] PROVE GivenUp(c)'
  BY <1>5 DEF GivenUp, Queued, Taken
<1>6. ASSUME NEW d \in Commands,
             \/ Dispatch(d) \/ Cancel(d) \/ EnqueueStopped(d) \/ EnqueueCancelled(d)
             \/ Answered(d) \/ WaitCancelled(d)
      PROVE  GivenUp(c)'
  <2>1. UNCHANGED <<queues, response, worker, current, runs>>
    BY <1>6 DEF Dispatch, Cancel, EnqueueStopped, EnqueueCancelled, Answered, WaitCancelled
  <2>2. cancelled'[c]
    BY <1>6 DEF Dispatch, Cancel, EnqueueStopped, EnqueueCancelled, Answered, WaitCancelled,
                GivenUp, TypeOK
  <2> QED BY <1>5, <2>1, <2>2
<1>7. ASSUME NEW t \in Types, Register(t) PROVE GivenUp(c)'
  BY <1>5, <1>7 DEF Register, GivenUp
<1>8. ASSUME NEW k \in Stoppers, CloseStop(k) \/ StopStep(k) PROVE GivenUp(c)'
  BY <1>5, <1>8 DEF CloseStop, StopStep, CloseDrain, StopReturns, GivenUp
<1>9. CASE UNCHANGED vars
  BY <1>5, <1>9 DEF vars, GivenUp
<1> QED BY <1>2, <1>3, <1>4, <1>6, <1>7, <1>8, <1>9 DEF Next, DispatchStep

(***************************************************************************)
(* A command its caller gave up while it was queued is never handled.        *)
(***************************************************************************)
THEOREM GivenUpCorrect == Spec => GivenUpIsNotHandled
<1>1. ASSUME NEW c \in Commands
      PROVE  Spec => [](Queued(c) /\ result[c] = "cancelled" => [](runs[c] = 0))
  <2>1. IInv /\ Queued(c) /\ result[c] = "cancelled" => GivenUp(c)
    BY BusAssumption DEF IInv, CallersSound, CallerSound, QueuesSound, Queued, GivenUp, TypeOK
  <2>2. GivenUp(c) => runs[c] = 0
    BY DEF GivenUp
  <2> QED BY <2>1, <2>2, GivenUpStays, Inductive, PTL DEF Spec
<1> QED BY <1>1 DEF GivenUpIsNotHandled

=============================================================================
