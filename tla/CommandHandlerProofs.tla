------------------------ MODULE CommandHandlerProofs ------------------------
(***************************************************************************)
(* Proofs about CommandHandler, for any sets of calls and streams, any       *)
(* stream states, batch size, retry budget and bound on the log.             *)
(***************************************************************************)
EXTENDS CommandHandler, TLAPS

(***************************************************************************)
(* What an append does to the streams: the records that were there stay      *)
(* where they are, and n new ones follow with the next versions.             *)
(***************************************************************************)
LEMMA AppendFacts ==
    ASSUME StoreTypeOK, NEW s \in Streams, NEW n \in Nat, NEW w \in Writers,
           AppendBatch(s, n, w)
    PROVE  /\ StoreTypeOK'
           /\ Len(events'[s]) = Len(events[s]) + n
           /\ \A t \in Streams : t # s => events'[t] = events[t]
           /\ \A t \in Streams : \A i \in 1..Len(events[t]) :
                 events'[t][i] = events[t][i]
           /\ \A i \in 1..n : events'[s][Len(events[s]) + i] = Batch(s, n, w)[i]
<1>1. events \in [Streams -> Seq(Record)] /\ global \in Seq(Record)
  BY DEF StoreTypeOK
<1>2. Batch(s, n, w) \in Seq(Record) /\ Len(Batch(s, n, w)) = n
  <2>1. \A i \in 1..n : [stream |-> s, version |-> Len(events[s]) + i,
                         pos |-> Len(global) + i, by |-> w] \in Record
    BY <1>1 DEF Record
  <2> QED BY <2>1 DEF Batch
<1>3. events' = [events EXCEPT ![s] = @ \o Batch(s, n, w)] /\ closed' = closed
      /\ global' = global \o Batch(s, n, w)
  BY DEF AppendBatch
<1>4. events'[s] = events[s] \o Batch(s, n, w)
  BY <1>1, <1>3
<1>5. events'[s] \in Seq(Record) /\ Len(events'[s]) = Len(events[s]) + n
  BY <1>1, <1>2, <1>4, SMTT(40)
<1>6. \A t \in Streams : t # s => events'[t] = events[t]
  BY <1>1, <1>3
<1>7. StoreTypeOK'
  BY <1>1, <1>2, <1>3, <1>5, <1>6 DEF StoreTypeOK
<1>8. \A i \in 1..Len(events[s]) : events'[s][i] = events[s][i]
  BY <1>1, <1>2, <1>4
<1>9. \A i \in 1..n : events'[s][Len(events[s]) + i] = Batch(s, n, w)[i]
  BY <1>1, <1>2, <1>4
<1> QED BY <1>5, <1>6, <1>7, <1>8, <1>9

-----------------------------------------------------------------------------
(***************************************************************************)
(* The inductive invariant.  The fold of a call is a prefix of its stream,   *)
(* the next read starts right behind it, and a pinned revision is one the    *)
(* stream has reached, and the fold too once the call has folded.  The last  *)
(* two parts need every pin to be a version the caller has read.             *)
(***************************************************************************)
VersionsDense ==
    \A s \in Streams : \A i \in 1..Len(events[s]) : events[s][i].version = i

ResumesBehindFold == \A c \in Calls : LoadOffset(loadState[c]) = lastVersion[c]

Running(c) == pc[c] \in {"load", "decide", "save", "backoff"}

PinReached ==
    ~closed => \A c \in Calls : mode[c].kind = "Revision" =>
        /\ Running(c) => mode[c].rev <= Len(events[stream[c]])
        /\ pc[c] \in {"decide", "save"} => mode[c].rev <= lastVersion[c]

EndedIsDone == \A c \in Calls : outcome[c] # "none" => pc[c] = "done"

IdleIsFresh == \A c \in Calls : pc[c] = "idle" => lastVersion[c] = 0 /\ tries[c] = 0

SavedIsThere ==
    ~closed => \A c \in Calls : outcome[c] = "saved" =>
        next[c] <= Len(events[stream[c]])

FoldWasWhole ==
    ~closed => \A c \in Calls : outcome[c] = "saved" =>
        Len(state[c]) = next[c] - batch[c]

IInv ==
    /\ TypeOK
    /\ VersionsDense
    /\ FoldIsPrefix
    /\ ResumesBehindFold
    /\ EndedIsDone
    /\ IdleIsFresh
    /\ SavedIsThere
    /\ RetryFindsNewEvents
    /\ PinnedLandsOnPin
    /\ ~PinAhead => PinReached /\ FoldWasWhole

(***************************************************************************)
(* The sequences a load builds: a tail of the stream, the first k of it.     *)
(***************************************************************************)
LEMMA TailFacts ==
    ASSUME NEW S, NEW q \in Seq(S), NEW m \in Nat, m <= Len(q)
    PROVE  /\ SubSeq(q, m + 1, Len(q)) \in Seq(S)
           /\ Len(SubSeq(q, m + 1, Len(q))) = Len(q) - m
           /\ \A i \in 1..(Len(q) - m) : SubSeq(q, m + 1, Len(q))[i] = q[m + i]
OBVIOUS

(***************************************************************************)
(* The first k records of a stream are records, and there are k of them.     *)
(***************************************************************************)
LEMMA PrefixFacts ==
    ASSUME NEW S, NEW q \in Seq(S), NEW k \in Nat, k <= Len(q)
    PROVE  /\ SubSeq(q, 1, k) \in Seq(S)
           /\ Len(SubSeq(q, 1, k)) = k
           /\ \A i \in 1..k : SubSeq(q, 1, k)[i] = q[i]
OBVIOUS

(***************************************************************************)
(* What folding k of the records loaded does to the call's variables.        *)
(***************************************************************************)
LEMMA EvolveFacts ==
    ASSUME TypeOK, VersionsDense, ResumesBehindFold, NEW c \in Calls,
           LoadAccepted(stream[c], loadState[c]),
           NEW k \in 0..Len(Loaded(stream[c], loadState[c])), Evolve(c, k)
    PROVE  /\ lastVersion' = [lastVersion EXCEPT ![c] = lastVersion[c] + k]
           /\ lastVersion[c] + k <= Len(events[stream[c]])
           /\ k = Len(Loaded(stream[c], loadState[c]))
                 => lastVersion[c] + k = Len(events[stream[c]])
           /\ state' \in [Calls -> Seq(Record)]
           /\ \A d \in Calls : d # c => state'[d] = state[d]
           /\ Len(state'[c]) = Len(state[c]) + k
           /\ \A i \in 1..Len(state[c]) : state'[c][i] = state[c][i]
           /\ \A i \in 1..k : state'[c][Len(state[c]) + i]
                                = events[stream[c]][lastVersion[c] + i]
           /\ loadState' \in [Calls -> StreamStates]
           /\ LoadOffset(loadState'[c]) = lastVersion[c] + k
           /\ \A d \in Calls : d # c => loadState'[d] = loadState[d]
<1> DEFINE ev == events[stream[c]]
           L  == lastVersion[c]
           ld == Loaded(stream[c], loadState[c])
           new == SubSeq(ld, 1, k)
<1>1. /\ ev \in Seq(Record) /\ L \in Nat /\ state[c] \in Seq(Record)
      /\ loadState[c] \in StreamStates /\ stream[c] \in Streams
      /\ state \in [Calls -> Seq(Record)] /\ lastVersion \in [Calls -> Nat]
      /\ loadState \in [Calls -> StreamStates]
  BY DEF TypeOK, StoreTypeOK
<1>2. LoadOffset(loadState[c]) = L
  BY DEF ResumesBehindFold
<1>3. L <= Len(ev)
  <2>1. CASE loadState[c].kind = "Revision"
    BY <2>1, <1>1, <1>2 DEF LoadAccepted, LoadOffset, StreamStates
  <2>2. CASE loadState[c].kind # "Revision"
    BY <2>2, <1>1, <1>2 DEF LoadOffset
  <2> QED BY <2>1, <2>2
<1>4. ld = SubSeq(ev, L + 1, Len(ev))
  BY <1>2 DEF Loaded
<1> HIDE DEF ev, L, ld
<1>5. /\ ld \in Seq(Record) /\ Len(ld) = Len(ev) - L
      /\ \A i \in 1..Len(ld) : ld[i] = ev[L + i]
  BY <1>1, <1>3, <1>4, TailFacts
<1>6. k \in Nat /\ k <= Len(ld)
  BY <1>5 DEF ld
<1>7. /\ new \in Seq(Record) /\ Len(new) = k
      /\ \A i \in 1..k : new[i] = ev[L + i]
  <2>1. /\ new \in Seq(Record) /\ Len(new) = k
        /\ \A i \in 1..k : new[i] = ld[i]
    BY <1>5, <1>6, PrefixFacts
  <2> QED BY <2>1, <1>5, <1>6
<1> HIDE DEF new
<1>8. k # 0 => new[k].version = L + k
  <2> SUFFICES ASSUME k # 0 PROVE new[k].version = L + k
    OBVIOUS
  <2>1. new[k] = ev[L + k] /\ L + k \in 1..Len(ev)
    BY <1>1, <1>3, <1>5, <1>6, <1>7
  <2> QED BY <2>1, <1>1 DEF VersionsDense, ev
<1>9. /\ state' = [state EXCEPT ![c] = @ \o new]
      /\ lastVersion' = [lastVersion EXCEPT ![c] = IF k = 0 THEN @ ELSE new[k].version]
      /\ loadState' = [loadState EXCEPT ![c] =
                          IF k = 0 THEN @ ELSE Revision(new[k].version)]
  BY DEF Evolve, new, ld
<1>10. lastVersion' = [lastVersion EXCEPT ![c] = L + k]
  <2>1. CASE k = 0
    <3>1. L \in Nat /\ L + k = L
      BY <2>1, <1>1 DEF L
    <3>2. lastVersion' = [lastVersion EXCEPT ![c] = lastVersion[c]]
      BY <2>1, <1>9
    <3> QED BY <3>1, <3>2 DEF L
  <2>2. CASE k # 0
    BY <2>2, <1>1, <1>8, <1>9
  <2> QED BY <2>1, <2>2
<1>11. state'[c] = state[c] \o new /\ \A d \in Calls : d # c => state'[d] = state[d]
  BY <1>1, <1>9
<1>12. /\ state'[c] \in Seq(Record) /\ Len(state'[c]) = Len(state[c]) + k
       /\ \A i \in 1..Len(state[c]) : state'[c][i] = state[c][i]
       /\ \A i \in 1..k : state'[c][Len(state[c]) + i] = ev[L + i]
  <2>0. state[c] \in Seq(Record) /\ new \in Seq(Record) /\ Len(new) = k
    BY <1>1, <1>7
  <2>1. /\ state[c] \o new \in Seq(Record)
        /\ Len(state[c] \o new) = Len(state[c]) + Len(new)
        /\ \A i \in 1..Len(state[c]) : (state[c] \o new)[i] = state[c][i]
        /\ \A i \in 1..Len(new) : (state[c] \o new)[Len(state[c]) + i] = new[i]
    BY <2>0
  <2> QED BY <2>0, <2>1, <1>7, <1>11
<1>13. state' \in [Calls -> Seq(Record)]
  BY <1>1, <1>9, <1>11, <1>12
<1>14. loadState'[c] = IF k = 0 THEN loadState[c] ELSE Revision(L + k)
  BY <1>1, <1>8, <1>9
<1>15. loadState'[c] \in StreamStates /\ LoadOffset(loadState'[c]) = L + k
  <2>1. CASE k = 0
    BY <2>1, <1>1, <1>2, <1>14
  <2>2. CASE k # 0
    BY <2>2, <1>1, <1>6, <1>14 DEF StreamStates, Revision, LoadOffset
  <2> QED BY <2>1, <2>2
<1>16. loadState' \in [Calls -> StreamStates] /\ \A d \in Calls : d # c => loadState'[d] = loadState[d]
  BY <1>1, <1>9, <1>15
<1>17. L + k <= Len(ev) /\ (k = Len(ld) => L + k = Len(ev))
  BY <1>1, <1>3, <1>5, <1>6 DEF ev, L
<1> QED BY <1>10, <1>11, <1>12, <1>13, <1>15, <1>16, <1>17 DEF ev, L, ld

(***************************************************************************)
(* The inductive invariant holds of an empty store with no call started.     *)
(***************************************************************************)
LEMMA InitIInv == Init => IInv
<1> SUFFICES ASSUME Init PROVE IInv
  OBVIOUS
<1> USE DEF Init, StoreInit
<1>1. TypeOK
  <2>1. StoreTypeOK
    <3>1. <<>> \in Seq(Record)
      OBVIOUS
    <3> QED BY <3>1 DEF StoreTypeOK
  <2>2. AnyState \in StreamStates
    BY DEF AnyState, StreamStates
  <2> QED BY <2>1, <2>2, CallsAssumption DEF TypeOK, PCs, Outcomes
<1>2. VersionsDense /\ FoldIsPrefix /\ EndedIsDone /\ IdleIsFresh /\ SavedIsThere
  BY DEF VersionsDense, FoldIsPrefix, EndedIsDone, IdleIsFresh, SavedIsThere
<1>3. ResumesBehindFold
  BY DEF ResumesBehindFold, LoadOffset, AnyState
<1>4. PinReached /\ FoldWasWhole /\ RetryFindsNewEvents /\ PinnedLandsOnPin
  BY DEF PinReached, Running, FoldWasWhole, RetryFindsNewEvents, PinnedLandsOnPin
<1> QED BY <1>1, <1>2, <1>3, <1>4 DEF IInv

(***************************************************************************)
(* A step of a running call that touches neither the store nor what it has   *)
(* folded, and does not end in "saved".                                      *)
(***************************************************************************)
LEMMA QuietStep ==
    ASSUME IInv, NEW c \in Calls, Running(c), TypeOK',
           UNCHANGED <<storeVars, stream, mode, state, loadState, lastVersion>>,
           \A d \in Calls : d # c => /\ pc'[d] = pc[d] /\ batch'[d] = batch[d]
                                     /\ outcome'[d] = outcome[d] /\ next'[d] = next[d]
                                     /\ tries'[d] = tries[d],
           outcome'[c] # "saved", pc'[c] # "idle",
           ~closed /\ (pc'[c] = "backoff" \/ (pc'[c] = "load" /\ tries'[c] > 0))
               => lastVersion[c] < Len(events[stream[c]]),
           outcome'[c] # "none" => pc'[c] = "done",
           pc'[c] \in {"decide", "save"} => pc[c] \in {"decide", "save"}
    PROVE  IInv'
<1> USE DEF storeVars
<1>1. VersionsDense' /\ FoldIsPrefix' /\ ResumesBehindFold'
  BY DEF IInv, VersionsDense, FoldIsPrefix, ResumesBehindFold
<1>2. EndedIsDone' /\ IdleIsFresh'
  BY DEF IInv, EndedIsDone, IdleIsFresh
<1>3. SavedIsThere'
  BY DEF IInv, SavedIsThere
<1>4. ~PinAhead => PinReached' /\ FoldWasWhole'
  BY DEF IInv, PinReached, Running, FoldWasWhole
<1>5. RetryFindsNewEvents'
  BY DEF IInv, RetryFindsNewEvents
<1>6. PinnedLandsOnPin'
  BY DEF IInv, PinnedLandsOnPin, autoConverge
<1> QED BY <1>1, <1>2, <1>3, <1>4, <1>5, <1>6 DEF IInv

(***************************************************************************)
(* Folding k records keeps the invariant; the call goes on to decide when    *)
(* it has folded everything there is, or ends.                               *)
(***************************************************************************)
LEMMA EvolveStep ==
    ASSUME IInv, NEW c \in Calls, pc[c] = "load",
           LoadAccepted(stream[c], loadState[c]),
           NEW k \in 0..Len(Loaded(stream[c], loadState[c])), Evolve(c, k),
           UNCHANGED <<storeVars, stream, mode, batch, tries, cancelled>>,
           pc' \in [Calls -> PCs], outcome' \in [Calls -> Outcomes],
           next' \in [Calls -> Nat],
           \A d \in Calls : d # c => /\ pc'[d] = pc[d]
                                     /\ outcome'[d] = outcome[d] /\ next'[d] = next[d],
           \/ pc'[c] = "done" /\ outcome'[c] = "cancelled"
           \/ /\ pc'[c] = "decide" /\ outcome'[c] = outcome[c]
              /\ k = Len(Loaded(stream[c], loadState[c]))
    PROVE  IInv'
<1> USE DEF storeVars
<1> DEFINE ev == events[stream[c]]
           L  == lastVersion[c]
<1>0. TypeOK /\ VersionsDense /\ FoldIsPrefix /\ ResumesBehindFold /\ EndedIsDone /\ IdleIsFresh
      /\ SavedIsThere /\ RetryFindsNewEvents /\ PinnedLandsOnPin
      /\ (~PinAhead => PinReached /\ FoldWasWhole)
  BY DEF IInv
<1>1. /\ lastVersion' = [lastVersion EXCEPT ![c] = L + k]
      /\ L + k <= Len(ev)
      /\ k = Len(Loaded(stream[c], loadState[c])) => L + k = Len(ev)
      /\ state' \in [Calls -> Seq(Record)]
      /\ \A d \in Calls : d # c => state'[d] = state[d]
      /\ Len(state'[c]) = Len(state[c]) + k
      /\ \A i \in 1..Len(state[c]) : state'[c][i] = state[c][i]
      /\ \A i \in 1..k : state'[c][Len(state[c]) + i] = ev[L + i]
      /\ loadState' \in [Calls -> StreamStates]
      /\ LoadOffset(loadState'[c]) = L + k
      /\ \A d \in Calls : d # c => loadState'[d] = loadState[d]
  BY <1>0, EvolveFacts
<1>2. /\ L \in Nat /\ ev \in Seq(Record) /\ lastVersion \in [Calls -> Nat]
      /\ k \in Nat /\ stream[c] \in Streams /\ state[c] \in Seq(Record)
      /\ Len(ev) \in Nat
  <2>1. /\ L \in Nat /\ ev \in Seq(Record) /\ lastVersion \in [Calls -> Nat]
        /\ stream[c] \in Streams /\ state[c] \in Seq(Record)
    BY <1>0 DEF TypeOK, StoreTypeOK
  <2>2. k \in Nat
    OBVIOUS
  <2> QED BY <2>1, <2>2
<1>3. lastVersion'[c] = L + k /\ \A d \in Calls : d # c => lastVersion'[d] = lastVersion[d]
  BY <1>1, <1>2
<1>4. TypeOK'
  <2>1. TypeOK
    BY <1>0
  <2>2. lastVersion' \in [Calls -> Nat]
    BY <1>1, <1>2
  <2> QED BY <2>1, <2>2, <1>1 DEF TypeOK, StoreTypeOK
<1>5. VersionsDense'
  BY <1>0 DEF VersionsDense
<1>6. FoldIsPrefix'
  <2> SUFFICES ASSUME ~closed, NEW d \in Calls
               PROVE  /\ Len(state'[d]) = lastVersion'[d]
                      /\ lastVersion'[d] <= Len(events[stream[d]])
                      /\ \A i \in 1..lastVersion'[d] : state'[d][i] = events[stream[d]][i]
    BY DEF FoldIsPrefix
  <2>1. CASE d # c
    <3>1. FoldIsPrefix
      BY <1>0
    <3>2. state'[d] = state[d] /\ lastVersion'[d] = lastVersion[d]
      BY <2>1, <1>1, <1>3
    <3> QED BY <3>1, <3>2 DEF FoldIsPrefix
  <2>2. CASE d = c
    <3>1. Len(state[c]) = L /\ \A i \in 1..L : state[c][i] = ev[i]
      BY <1>0 DEF FoldIsPrefix
    <3>2. Len(state'[c]) = L + k /\ lastVersion'[c] = L + k /\ L + k <= Len(ev)
      BY <3>1, <1>1, <1>3
    <3>3. ASSUME NEW i \in 1..(L + k) PROVE state'[c][i] = ev[i]
      <4>1. CASE i <= L
        BY <4>1, <3>1, <1>1, <1>2
      <4>2. CASE i > L
        <5>1. i - L \in 1..k /\ L + (i - L) = i
          BY <4>2, <1>2
        <5>2. state'[c][Len(state[c]) + (i - L)] = ev[L + (i - L)]
          BY <5>1, <1>1
        <5>3. Len(state[c]) + (i - L) = i
          BY <5>1, <3>1
        <5> QED BY <5>1, <5>2, <5>3
      <4> QED BY <4>1, <4>2, <1>2
    <3> QED BY <2>2, <3>2, <3>3
  <2> QED BY <2>1, <2>2
<1>7. ResumesBehindFold'
  BY <1>0, <1>1, <1>3 DEF ResumesBehindFold
<1>8. EndedIsDone' /\ IdleIsFresh'
  BY <1>0, <1>3 DEF EndedIsDone, IdleIsFresh
<1>9. SavedIsThere'
  BY <1>0, <1>1 DEF SavedIsThere, EndedIsDone
<1>10. ASSUME ~PinAhead PROVE PinReached'
  <2>1. PinReached
    BY <1>0, <1>10
  <2> SUFFICES ASSUME ~closed, NEW d \in Calls, mode[d].kind = "Revision"
               PROVE  /\ Running(d)' => mode[d].rev <= Len(events[stream[d]])
                      /\ pc'[d] \in {"decide", "save"} => mode[d].rev <= lastVersion'[d]
    BY DEF PinReached
  <2>2. CASE d # c
    BY <2>1, <2>2, <1>3 DEF PinReached, Running
  <2>3. CASE d = c
    BY <2>1, <2>3, <1>1, <1>3 DEF PinReached, Running
  <2> QED BY <2>2, <2>3
<1>11. ASSUME ~PinAhead PROVE FoldWasWhole'
  BY <1>0, <1>1, <1>11 DEF FoldWasWhole, EndedIsDone
<1>12. RetryFindsNewEvents'
  BY <1>0, <1>3 DEF RetryFindsNewEvents
<1>13. PinnedLandsOnPin'
  BY <1>0 DEF PinnedLandsOnPin, autoConverge, EndedIsDone
<1> HIDE DEF ev, L
<1> QED BY <1>0, <1>4, <1>5, <1>6, <1>7, <1>8, <1>9, <1>10, <1>11, <1>12, <1>13 DEF IInv

(***************************************************************************)
(* An append by anyone leaves every fold a prefix of its stream.             *)
(***************************************************************************)
LEMMA AppendKeepsFolds ==
    ASSUME IInv, NEW s \in Streams, NEW n \in Nat, NEW w \in Writers,
           AppendBatch(s, n, w),
           UNCHANGED <<stream, state, loadState, lastVersion>>
    PROVE  /\ StoreTypeOK' /\ VersionsDense' /\ FoldIsPrefix' /\ ResumesBehindFold'
           /\ \A t \in Streams : Len(events[t]) <= Len(events'[t])
<1>0. /\ StoreTypeOK /\ VersionsDense /\ FoldIsPrefix /\ ResumesBehindFold
      /\ events \in [Streams -> Seq(Record)] /\ stream \in [Calls -> Streams]
      /\ lastVersion \in [Calls -> Nat]
  BY DEF IInv, TypeOK, StoreTypeOK
<1>1. /\ StoreTypeOK'
      /\ Len(events'[s]) = Len(events[s]) + n
      /\ \A t \in Streams : t # s => events'[t] = events[t]
      /\ \A t \in Streams : \A i \in 1..Len(events[t]) : events'[t][i] = events[t][i]
      /\ \A i \in 1..n : events'[s][Len(events[s]) + i] = Batch(s, n, w)[i]
  BY <1>0, AppendFacts
<1>2. \A t \in Streams : Len(events[t]) \in Nat /\ Len(events[t]) <= Len(events'[t])
  <2> SUFFICES ASSUME NEW t \in Streams
               PROVE  Len(events[t]) \in Nat /\ Len(events[t]) <= Len(events'[t])
    OBVIOUS
  <2>1. Len(events[t]) \in Nat
    BY <1>0
  <2>2. CASE t = s
    BY <2>1, <2>2, <1>1
  <2>3. CASE t # s
    BY <2>1, <2>3, <1>1
  <2> QED BY <2>1, <2>2, <2>3
<1>3. VersionsDense'
  <2> SUFFICES ASSUME NEW t \in Streams, NEW i \in 1..Len(events'[t])
               PROVE  events'[t][i].version = i
    BY DEF VersionsDense
  <2>1. CASE t # s \/ i <= Len(events[t])
    BY <2>1, <1>0, <1>1, <1>2 DEF VersionsDense
  <2>2. CASE t = s /\ i > Len(events[s])
    <3>1. i - Len(events[s]) \in 1..n
      BY <2>2, <1>1, <1>2
    <3>2. events'[s][Len(events[s]) + (i - Len(events[s]))]
              = Batch(s, n, w)[i - Len(events[s])]
      BY <3>1, <1>1
    <3>3. Batch(s, n, w)[i - Len(events[s])].version = Len(events[s]) + (i - Len(events[s]))
      BY <3>1 DEF Batch
    <3>4. Len(events[s]) + (i - Len(events[s])) = i
      BY <3>1, <1>2
    <3> QED BY <2>2, <3>2, <3>3, <3>4
  <2> QED BY <2>1, <2>2, <1>2
<1>4. FoldIsPrefix'
  <2> SUFFICES ASSUME ~closed, NEW c \in Calls
               PROVE  /\ Len(state[c]) = lastVersion[c]
                      /\ lastVersion[c] <= Len(events'[stream[c]])
                      /\ \A i \in 1..lastVersion[c] : state[c][i] = events'[stream[c]][i]
    BY DEF FoldIsPrefix, AppendBatch
  <2>1. stream[c] \in Streams /\ lastVersion[c] \in Nat
    BY <1>0
  <2>2. /\ Len(state[c]) = lastVersion[c] /\ lastVersion[c] <= Len(events[stream[c]])
        /\ \A i \in 1..lastVersion[c] : state[c][i] = events[stream[c]][i]
    BY <1>0 DEF FoldIsPrefix
  <2>3. \A i \in 1..lastVersion[c] : i \in 1..Len(events[stream[c]])
    BY <2>1, <2>2, <1>2
  <2>4. \A i \in 1..lastVersion[c] : state[c][i] = events'[stream[c]][i]
    BY <2>1, <2>2, <2>3, <1>1
  <2>5. lastVersion[c] <= Len(events'[stream[c]])
    <3>1. Len(events[stream[c]]) \in Nat /\ Len(events[stream[c]]) <= Len(events'[stream[c]])
      BY <2>1, <1>2
    <3>2. Len(events'[stream[c]]) \in Nat
      BY <2>1, <1>1 DEF StoreTypeOK
    <3> QED BY <2>1, <2>2, <3>1, <3>2
  <2> QED BY <2>2, <2>4, <2>5
<1>5. ResumesBehindFold'
  BY <1>0 DEF ResumesBehindFold
<1> QED BY <1>1, <1>2, <1>3, <1>4, <1>5

(***************************************************************************)
(* The step that appends a call's batch.  The stream is exactly as long as   *)
(* the fold: the save was checked against that length, or against 0, or      *)
(* against a pin between the two.                                            *)
(***************************************************************************)
LEMMA SavedStep == ASSUME IInv, NEW c \in Calls, Saved(c) PROVE IInv'
<1> DEFINE s == stream[c]
           len == Len(events[s])
<1>0. /\ TypeOK /\ FoldIsPrefix /\ EndedIsDone /\ IdleIsFresh /\ SavedIsThere /\ RetryFindsNewEvents
      /\ PinnedLandsOnPin /\ (~PinAhead => PinReached /\ FoldWasWhole)
  BY DEF IInv
<1>1. /\ s \in Streams /\ batch[c] \in Nat /\ c \in Writers /\ lastVersion[c] \in Nat
      /\ len \in Nat /\ mode[c] \in Modes /\ mode[c] \in StreamStates
  BY <1>0, CallsAssumption DEF TypeOK, StoreTypeOK
<1>2. /\ pc[c] = "save" /\ ~closed /\ Expected(saveState(c), len)
      /\ AppendBatch(s, batch[c], c)
      /\ pc' = [pc EXCEPT ![c] = "done"]
      /\ outcome' = [outcome EXCEPT ![c] = "saved"]
      /\ next' = [next EXCEPT ![c] = len + batch[c]]
      /\ UNCHANGED <<stream, mode, state, loadState, lastVersion, batch, tries, cancelled>>
  BY DEF Saved, SaveAccepted, Ended
<1>3. /\ StoreTypeOK' /\ VersionsDense' /\ FoldIsPrefix' /\ ResumesBehindFold'
      /\ \A t \in Streams : Len(events[t]) <= Len(events'[t])
  BY <1>1, <1>2, AppendKeepsFolds
<1>4. closed' = closed /\ Len(events'[s]) = len + batch[c]
  <2>1. StoreTypeOK
    BY <1>0 DEF TypeOK
  <2>2. Len(events'[s]) = len + batch[c]
    BY <2>1, <1>1, <1>2, AppendFacts
  <2> QED BY <2>2, <1>2 DEF AppendBatch
<1>5. TypeOK'
  BY <1>0, <1>1, <1>2, <1>3, SMTT(40) DEF TypeOK, PCs, Outcomes
<1>6. /\ pc'[c] = "done" /\ outcome'[c] = "saved" /\ next'[c] = len + batch[c]
      /\ \A d \in Calls : d # c => /\ pc'[d] = pc[d] /\ outcome'[d] = outcome[d]
                                   /\ next'[d] = next[d]
  BY <1>0, <1>2 DEF TypeOK
<1>7. /\ Len(state[c]) = lastVersion[c] /\ lastVersion[c] <= len
  BY <1>0, <1>2 DEF FoldIsPrefix
<1>8. \A t \in Streams : Len(events[t]) \in Nat /\ Len(events'[t]) \in Nat
  BY <1>0, <1>3 DEF TypeOK, StoreTypeOK
<1>9. EndedIsDone' /\ IdleIsFresh'
  BY <1>0, <1>2, <1>6 DEF EndedIsDone, IdleIsFresh
<1>10. SavedIsThere'
  <2> SUFFICES ASSUME NEW d \in Calls, outcome'[d] = "saved", ~closed
               PROVE  next'[d] <= Len(events'[stream[d]])
    BY <1>2, <1>4 DEF SavedIsThere
  <2>1. stream[d] \in Streams /\ next[d] \in Nat
    BY <1>0 DEF TypeOK
  <2>2. CASE d = c
    BY <2>2, <1>1, <1>4, <1>6
  <2>3. CASE d # c
    <3>1. next[d] <= Len(events[stream[d]])
      BY <2>3, <1>0, <1>6 DEF SavedIsThere
    <3> QED BY <2>1, <2>3, <3>1, <1>3, <1>6, <1>8
  <2> QED BY <2>2, <2>3
<1>11. RetryFindsNewEvents'
  <2> SUFFICES ASSUME NEW d \in Calls, ~closed,
                      pc'[d] = "backoff" \/ (pc'[d] = "load" /\ tries[d] > 0)
               PROVE  lastVersion[d] < Len(events'[stream[d]])
    BY <1>2, <1>4 DEF RetryFindsNewEvents
  <2>1. d # c /\ stream[d] \in Streams /\ lastVersion[d] \in Nat
    BY <1>0, <1>6 DEF TypeOK
  <2>2. lastVersion[d] < Len(events[stream[d]])
    BY <2>1, <1>0, <1>6 DEF RetryFindsNewEvents
  <2> QED BY <2>1, <2>2, <1>3, <1>8
<1>12. PinnedLandsOnPin'
  <2>1. ~autoConverge(c) => len = mode[c].rev
    BY <1>1, <1>2, CallsAssumption DEF autoConverge, saveState, Expected, StreamStates
  <2>2. ~autoConverge(c) => next'[c] - batch[c] = mode[c].rev
    BY <2>1, <1>1, <1>6
  <2> QED BY <2>2, <1>0, <1>2, <1>6 DEF PinnedLandsOnPin, autoConverge
<1>13. ASSUME ~PinAhead PROVE PinReached' /\ FoldWasWhole'
  <2>1. PinReached /\ FoldWasWhole
    BY <1>0, <1>13
  <2>2. PinReached'
    <3> SUFFICES ASSUME ~closed, NEW d \in Calls, mode[d].kind = "Revision"
                 PROVE  /\ Running(d)' => mode[d].rev <= Len(events'[stream[d]])
                        /\ pc'[d] \in {"decide", "save"} => mode[d].rev <= lastVersion[d]
      BY <1>2, <1>4 DEF PinReached
    <3>1. CASE d = c
      BY <3>1, <1>6 DEF Running
    <3>2. CASE d # c
      <4>1. stream[d] \in Streams /\ mode[d].rev \in Nat
        BY <1>0, CallsAssumption DEF TypeOK, StreamStates
      <4>2. /\ Running(d) => mode[d].rev <= Len(events[stream[d]])
            /\ pc[d] \in {"decide", "save"} => mode[d].rev <= lastVersion[d]
        BY <2>1, <3>2 DEF PinReached
      <4>3. Running(d)' <=> Running(d)
        BY <3>2, <1>6 DEF Running
      <4> QED BY <3>2, <4>1, <4>2, <4>3, <1>3, <1>6, <1>8
    <3> QED BY <3>1, <3>2
  <2>3. lastVersion[c] = len
    <3>1. CASE autoConverge(c)
      BY <3>1, <1>2 DEF saveState, Expected, Revision
    <3>2. CASE mode[c].kind = "NoStream"
      BY <3>2, <1>1, <1>2, <1>7 DEF autoConverge, saveState, Expected
    <3>3. CASE mode[c].kind = "Revision"
      <4>1. mode[c].rev <= lastVersion[c]
        BY <2>1, <3>3, <1>2 DEF PinReached
      <4>2. len = mode[c].rev
        BY <3>3, <1>2 DEF autoConverge, saveState, Expected
      <4> QED BY <4>1, <4>2, <1>1, <1>7
    <3> QED BY <3>1, <3>2, <3>3, <1>1 DEF autoConverge, StreamStates
  <2>4. Len(state[c]) = next'[c] - batch[c]
    BY <2>3, <1>1, <1>6, <1>7
  <2>5. FoldWasWhole'
    BY <2>1, <2>4, <1>2, <1>4, <1>6 DEF FoldWasWhole
  <2> QED BY <2>2, <2>5
<1> HIDE DEF s, len
<1> QED BY <1>3, <1>5, <1>9, <1>10, <1>11, <1>12, <1>13 DEF IInv

(***************************************************************************)
(* A Save by another writer of the stream keeps the invariant: it only       *)
(* appends, so what the calls have folded stays a prefix.                    *)
(***************************************************************************)
LEMMA OtherSaveStep == ASSUME IInv, OtherSave PROVE IInv'
<1>0. /\ TypeOK /\ EndedIsDone /\ IdleIsFresh /\ SavedIsThere /\ RetryFindsNewEvents
      /\ PinnedLandsOnPin /\ (~PinAhead => PinReached /\ FoldWasWhole)
  BY DEF IInv
<1>1. PICK s \in Streams : AppendBatch(s, 1, Other)
  BY DEF OtherSave
<1>2. UNCHANGED <<pc, stream, mode, state, loadState, lastVersion, batch, tries,
                  cancelled, outcome, next>>
  BY DEF OtherSave, callVars
<1>3. /\ StoreTypeOK' /\ VersionsDense' /\ FoldIsPrefix' /\ ResumesBehindFold'
      /\ \A t \in Streams : Len(events[t]) <= Len(events'[t])
  <2>1. Other \in Writers
    BY CallsAssumption
  <2> QED BY <2>1, <1>1, <1>2, AppendKeepsFolds
<1>4. closed' = closed
  BY <1>1 DEF AppendBatch
<1>5. TypeOK'
  BY <1>0, <1>2, <1>3 DEF TypeOK
<1>6. \A t \in Streams : Len(events[t]) \in Nat /\ Len(events'[t]) \in Nat
  BY <1>0, <1>3 DEF TypeOK, StoreTypeOK
<1>7. \A d \in Calls : /\ stream[d] \in Streams /\ next[d] \in Nat
                       /\ lastVersion[d] \in Nat /\ mode[d].rev \in Nat
  BY <1>0, CallsAssumption DEF TypeOK, StreamStates
<1>8. SavedIsThere'
  BY <1>0, <1>2, <1>3, <1>4, <1>6, <1>7 DEF SavedIsThere
<1>9. RetryFindsNewEvents'
  BY <1>0, <1>2, <1>3, <1>4, <1>6, <1>7 DEF RetryFindsNewEvents
<1>10. ~PinAhead => PinReached'
  BY <1>0, <1>2, <1>3, <1>4, <1>6, <1>7 DEF PinReached, Running
<1>11. /\ EndedIsDone' /\ IdleIsFresh' /\ PinnedLandsOnPin' /\ (~PinAhead => FoldWasWhole')
  BY <1>0, <1>2, <1>4 DEF EndedIsDone, IdleIsFresh, PinnedLandsOnPin, autoConverge, FoldWasWhole
<1> QED BY <1>3, <1>5, <1>8, <1>9, <1>10, <1>11 DEF IInv

(***************************************************************************)
(* Closing the store keeps the invariant: no stream changes.                 *)
(***************************************************************************)
LEMMA CloseStep == ASSUME IInv, Close PROVE IInv'
<1>1. /\ closed' = TRUE /\ events' = [s \in Streams |-> <<>>] /\ global' = <<>>
      /\ UNCHANGED <<pc, stream, mode, state, loadState, lastVersion, batch, tries,
                     cancelled, outcome, next>>
  BY DEF Close, StoreClose, callVars
<1>2. TypeOK'
  <2>1. <<>> \in Seq(Record)
    OBVIOUS
  <2>2. StoreTypeOK'
    BY <2>1, <1>1 DEF StoreTypeOK
  <2> QED BY <2>2, <1>1 DEF IInv, TypeOK
<1>3. VersionsDense'
  BY <1>1 DEF VersionsDense
<1>4. FoldIsPrefix' /\ SavedIsThere' /\ RetryFindsNewEvents' /\ PinReached' /\ FoldWasWhole'
  BY <1>1 DEF FoldIsPrefix, SavedIsThere, RetryFindsNewEvents, PinReached, FoldWasWhole
<1>5. ResumesBehindFold' /\ EndedIsDone' /\ IdleIsFresh' /\ PinnedLandsOnPin'
  BY <1>1 DEF IInv, ResumesBehindFold, EndedIsDone, IdleIsFresh, PinnedLandsOnPin, autoConverge
<1> QED BY <1>2, <1>3, <1>4, <1>5 DEF IInv

(***************************************************************************)
(* A call starts with nothing folded, so its first read starts at 0; a pin   *)
(* is one the stream has reached.                                            *)
(***************************************************************************)
LEMMA StartStep == ASSUME IInv, NEW c \in Calls, Start(c) PROVE IInv'
<1> USE DEF storeVars
<1>0. /\ TypeOK /\ VersionsDense /\ FoldIsPrefix /\ ResumesBehindFold /\ EndedIsDone
      /\ IdleIsFresh /\ SavedIsThere /\ RetryFindsNewEvents /\ PinnedLandsOnPin
      /\ (~PinAhead => PinReached /\ FoldWasWhole)
  BY DEF IInv
<1>1. /\ pc[c] = "idle"
      /\ pc' = [pc EXCEPT ![c] = "load"]
      /\ loadState' = [loadState EXCEPT ![c] = firstLoadState(c)]
      /\ UNCHANGED <<events, global, closed, stream, mode, state, lastVersion, batch,
                     tries, cancelled, outcome, next>>
  BY DEF Start
<1>2. /\ pc'[c] = "load" /\ \A d \in Calls : d # c => pc'[d] = pc[d]
      /\ lastVersion[c] = 0 /\ tries[c] = 0
  BY <1>0, <1>1 DEF TypeOK, IdleIsFresh
<1>3. firstLoadState(c) \in StreamStates /\ LoadOffset(firstLoadState(c)) = 0
  <2>1. mode[c] \in StreamStates
    BY <1>0, CallsAssumption DEF TypeOK
  <2> QED BY <2>1 DEF firstLoadState, AnyState, StreamStates, LoadOffset
<1>4. TypeOK'
  BY <1>0, <1>1, <1>3 DEF TypeOK, StoreTypeOK, PCs
<1>5. VersionsDense' /\ FoldIsPrefix' /\ SavedIsThere' /\ PinnedLandsOnPin'
  BY <1>0, <1>1 DEF VersionsDense, FoldIsPrefix, SavedIsThere, PinnedLandsOnPin, autoConverge
<1>6. ResumesBehindFold'
  BY <1>0, <1>1, <1>2, <1>3 DEF ResumesBehindFold, TypeOK
<1>7. EndedIsDone' /\ IdleIsFresh' /\ RetryFindsNewEvents'
  BY <1>0, <1>1, <1>2 DEF EndedIsDone, IdleIsFresh, RetryFindsNewEvents
<1>8. ASSUME ~PinAhead PROVE PinReached' /\ FoldWasWhole'
  <2>1. mode[c].kind = "Revision" => closed \/ mode[c].rev <= Len(events[stream[c]])
    BY <1>8 DEF Start
  <2> QED BY <2>1, <1>0, <1>1, <1>2, <1>8 DEF PinReached, FoldWasWhole, Running
<1> QED BY <1>4, <1>5, <1>6, <1>7, <1>8 DEF IInv

(***************************************************************************)
(* The steps of a call that leave the store and the fold alone.              *)
(***************************************************************************)
LEMMA QuietActions ==
    ASSUME IInv, NEW c \in Calls,
           \/ LoadFails(c) \/ DecideError(c) \/ DecideNothing(c) \/ DecideEvents(c)
           \/ ConflictRetried(c) \/ ConflictReturned(c) \/ Refused(c) \/ Unencodable(c)
           \/ BackoffElapsed(c) \/ BackoffCancelled(c) \/ Cancel(c)
    PROVE  IInv'
<1>0. /\ TypeOK /\ FoldIsPrefix /\ RetryFindsNewEvents
      /\ stream[c] \in Streams /\ Len(events[stream[c]]) \in Nat
      /\ lastVersion[c] \in Nat /\ next[c] \in Nat
  BY DEF IInv, TypeOK, StoreTypeOK
<1>1. ASSUME NEW how \in Outcomes \ {"saved", "none"}, NEW n \in Nat, Running(c),
             Ended(c, how, n),
             UNCHANGED <<storeVars, stream, mode, state, loadState, lastVersion, batch,
                         tries, cancelled>>
      PROVE  IInv'
  <2>1. TypeOK'
    BY <1>0, <1>1 DEF TypeOK, StoreTypeOK, storeVars, Ended, PCs
  <2>2. /\ pc'[c] = "done" /\ outcome'[c] = how
        /\ \A d \in Calls : d # c => /\ pc'[d] = pc[d] /\ outcome'[d] = outcome[d]
                                     /\ next'[d] = next[d]
    BY <1>0, <1>1 DEF TypeOK, Ended
  <2> QED BY <2>1, <2>2, <1>1, QuietStep
<1>2. CASE LoadFails(c)
  BY <1>0, <1>1, <1>2 DEF LoadFails, Running, Outcomes
<1>3. CASE DecideError(c)
  BY <1>0, <1>1, <1>3 DEF DecideError, Running, Outcomes
<1>4. CASE DecideNothing(c)
  BY <1>0, <1>1, <1>4 DEF DecideNothing, Running, Outcomes
<1>5. CASE DecideEvents(c)
  <2>1. /\ pc[c] = "decide" /\ pc' = [pc EXCEPT ![c] = "save"]
        /\ UNCHANGED <<storeVars, stream, mode, state, loadState, lastVersion, tries,
                       cancelled, outcome, next>>
    BY <1>5 DEF DecideEvents
  <2>2. PICK n \in 1..MaxBatch : batch' = [batch EXCEPT ![c] = n]
    BY <1>5 DEF DecideEvents
  <2>3. n \in Nat
    BY CallsAssumption
  <2>4. TypeOK'
    BY <2>1, <2>2, <2>3, <1>0 DEF TypeOK, StoreTypeOK, storeVars, PCs
  <2>5. outcome[c] = "none"
    BY <2>1 DEF IInv, EndedIsDone
  <2>6. /\ pc'[c] = "save"
        /\ \A d \in Calls : d # c => pc'[d] = pc[d] /\ batch'[d] = batch[d]
    BY <2>1, <2>2, <1>0 DEF TypeOK
  <2> QED BY <2>1, <2>4, <2>5, <2>6, QuietStep DEF Running
<1>6. CASE ConflictRetried(c)
  <2>1. /\ pc[c] = "save" /\ pc' = [pc EXCEPT ![c] = "backoff"]
        /\ tries' = [tries EXCEPT ![c] = @ + 1] /\ tries[c] < MaxRetries
        /\ autoConverge(c)
        /\ SaveConflict(stream[c], saveState(c))
        /\ next' = [next EXCEPT ![c] = Len(events[stream[c]])]
        /\ UNCHANGED <<storeVars, stream, mode, state, loadState, lastVersion, batch,
                       cancelled, outcome>>
    BY <1>6 DEF ConflictRetried, MayRetry
  <2>2. tries[c] + 1 \in 0..MaxRetries
    BY <2>1, <1>0, CallsAssumption DEF TypeOK
  <2>3. TypeOK'
    BY <2>1, <2>2, <1>0 DEF TypeOK, StoreTypeOK, storeVars, PCs
  <2>4. outcome[c] = "none"
    BY <2>1 DEF IInv, EndedIsDone
  <2>5. /\ pc'[c] = "backoff"
        /\ \A d \in Calls : d # c => /\ pc'[d] = pc[d] /\ next'[d] = next[d]
                                     /\ tries'[d] = tries[d]
    BY <2>1, <1>0 DEF TypeOK
  <2>6. ~closed => lastVersion[c] < Len(events[stream[c]])
    <3>1. Len(events[stream[c]]) # lastVersion[c]
      BY <2>1 DEF SaveConflict, saveState, Revision
    <3>2. ~closed => lastVersion[c] <= Len(events[stream[c]])
      BY <1>0 DEF FoldIsPrefix
    <3> QED BY <3>1, <3>2, <1>0
  <2> QED BY <2>1, <2>3, <2>4, <2>5, <2>6, QuietStep DEF Running
<1>7. CASE ConflictReturned(c)
  BY <1>0, <1>1, <1>7 DEF ConflictReturned, Running, Outcomes
<1>8. CASE Refused(c)
  BY <1>0, <1>1, <1>8 DEF Refused, Running, Outcomes
<1>9. CASE Unencodable(c)
  BY <1>0, <1>1, <1>9 DEF Unencodable, Running, Outcomes
<1>10. CASE BackoffElapsed(c)
  <2>1. /\ pc[c] = "backoff" /\ pc' = [pc EXCEPT ![c] = "load"]
        /\ UNCHANGED <<storeVars, stream, mode, state, loadState, lastVersion, batch,
                       tries, cancelled, outcome, next>>
    BY <1>10 DEF BackoffElapsed
  <2>2. TypeOK'
    BY <2>1, <1>0 DEF TypeOK, StoreTypeOK, storeVars, PCs
  <2>3. outcome[c] = "none"
    BY <2>1 DEF IInv, EndedIsDone
  <2>4. pc'[c] = "load" /\ \A d \in Calls : d # c => pc'[d] = pc[d]
    BY <2>1, <1>0 DEF TypeOK
  <2>5. ~closed => lastVersion[c] < Len(events[stream[c]])
    BY <2>1, <1>0 DEF RetryFindsNewEvents
  <2> QED BY <2>1, <2>2, <2>3, <2>4, <2>5, QuietStep DEF Running
<1>11. CASE BackoffCancelled(c)
  BY <1>0, <1>1, <1>11 DEF BackoffCancelled, Running, Outcomes
<1>12. CASE Cancel(c)
  <2>1. /\ Running(c)
        /\ cancelled' = [cancelled EXCEPT ![c] = TRUE]
        /\ UNCHANGED <<storeVars, pc, stream, mode, state, loadState, lastVersion, batch,
                       tries, outcome, next>>
    BY <1>0, <1>12 DEF Cancel, Running, TypeOK, PCs
  <2>2. TypeOK'
    BY <2>1, <1>0 DEF TypeOK, StoreTypeOK, storeVars
  <2>3. outcome[c] = "none"
    BY <2>1 DEF IInv, EndedIsDone, Running
  <2>4. ~closed /\ (pc[c] = "backoff" \/ (pc[c] = "load" /\ tries[c] > 0))
            => lastVersion[c] < Len(events[stream[c]])
    BY <1>0 DEF RetryFindsNewEvents
  <2> QED BY <2>1, <2>2, <2>3, <2>4, QuietStep DEF Running
<1> QED BY <1>2, <1>3, <1>4, <1>5, <1>6, <1>7, <1>8, <1>9, <1>10, <1>11, <1>12

(***************************************************************************)
(* Every step of a call, of another writer and of the store's owner keeps    *)
(* the inductive invariant.                                                  *)
(***************************************************************************)
THEOREM NextIInv == IInv /\ [Next]_vars => IInv'
<1> SUFFICES ASSUME IInv, [Next]_vars PROVE IInv'
  OBVIOUS
<1>1. ASSUME NEW c \in Calls, Start(c) PROVE IInv'
  BY <1>1, StartStep
<1>2. ASSUME NEW c \in Calls, Fold(c) PROVE IInv'
  <2> DEFINE k == Len(Loaded(stream[c], loadState[c]))
  <2>1. /\ pc[c] = "load" /\ LoadAccepted(stream[c], loadState[c]) /\ Evolve(c, k)
        /\ pc' = [pc EXCEPT ![c] = "decide"]
        /\ UNCHANGED <<storeVars, stream, mode, batch, tries, cancelled, outcome, next>>
    BY <1>2 DEF Fold
  <2>2. k \in 0..Len(Loaded(stream[c], loadState[c]))
    <3>1. /\ events[stream[c]] \in Seq(Record)
          /\ LoadOffset(loadState[c]) \in Nat
      BY DEF IInv, TypeOK, StoreTypeOK, LoadOffset, StreamStates
    <3>2. Loaded(stream[c], loadState[c]) \in Seq(Record)
      BY <3>1 DEF Loaded
    <3> QED BY <3>2
  <2>3. TypeOK
    BY DEF IInv
  <2>4. /\ pc' \in [Calls -> PCs] /\ outcome' \in [Calls -> Outcomes]
        /\ next' \in [Calls -> Nat] /\ pc'[c] = "decide" /\ outcome'[c] = outcome[c]
        /\ \A d \in Calls : d # c => /\ pc'[d] = pc[d] /\ outcome'[d] = outcome[d]
                                     /\ next'[d] = next[d]
    BY <2>1, <2>3 DEF TypeOK, PCs
  <2> HIDE DEF k
  <2> QED BY <2>1, <2>2, <2>4, EvolveStep DEF k
<1>3. ASSUME NEW c \in Calls, FoldCancelled(c) PROVE IInv'
  <2>1. PICK k \in 0..Len(Loaded(stream[c], loadState[c])) :
             Evolve(c, k) /\ Ended(c, "cancelled", lastVersion'[c])
    BY <1>3 DEF FoldCancelled
  <2>2. /\ pc[c] = "load" /\ LoadAccepted(stream[c], loadState[c])
        /\ UNCHANGED <<storeVars, stream, mode, batch, tries, cancelled>>
    BY <1>3 DEF FoldCancelled
  <2>3. /\ TypeOK /\ VersionsDense /\ ResumesBehindFold
    BY DEF IInv
  <2>4. lastVersion' = [lastVersion EXCEPT ![c] = lastVersion[c] + k]
    BY <2>1, <2>2, <2>3, EvolveFacts
  <2>5. lastVersion'[c] \in Nat
    <3>1. lastVersion[c] \in Nat /\ k \in Nat /\ lastVersion \in [Calls -> Nat]
      BY <2>3 DEF TypeOK
    <3> QED BY <3>1, <2>4
  <2>6. /\ pc' \in [Calls -> PCs] /\ outcome' \in [Calls -> Outcomes]
        /\ next' \in [Calls -> Nat] /\ pc'[c] = "done" /\ outcome'[c] = "cancelled"
        /\ \A d \in Calls : d # c => /\ pc'[d] = pc[d] /\ outcome'[d] = outcome[d]
                                     /\ next'[d] = next[d]
    BY <2>1, <2>3, <2>5 DEF TypeOK, PCs, Outcomes, Ended
  <2> QED BY <2>1, <2>2, <2>6, EvolveStep
<1>4. ASSUME NEW c \in Calls,
             \/ LoadFails(c) \/ DecideError(c) \/ DecideNothing(c) \/ DecideEvents(c)
             \/ ConflictRetried(c) \/ ConflictReturned(c) \/ Refused(c) \/ Unencodable(c)
             \/ BackoffElapsed(c) \/ BackoffCancelled(c) \/ Cancel(c)
      PROVE  IInv'
  BY <1>4, QuietActions
<1>5. ASSUME NEW c \in Calls, Saved(c) PROVE IInv'
  BY <1>5, SavedStep
<1>6. CASE OtherSave
  BY <1>6, OtherSaveStep
<1>7. CASE Close
  BY <1>7, CloseStep
<1>8. CASE UNCHANGED vars
  <2> USE <1>8 DEF vars, storeVars, callVars
  <2>1. TypeOK'
    BY DEF IInv, TypeOK, StoreTypeOK
  <2>2. VersionsDense' /\ FoldIsPrefix' /\ ResumesBehindFold' /\ EndedIsDone' /\ IdleIsFresh'
    BY DEF IInv, VersionsDense, FoldIsPrefix, ResumesBehindFold, EndedIsDone, IdleIsFresh
  <2>3. SavedIsThere' /\ RetryFindsNewEvents' /\ PinnedLandsOnPin'
    BY DEF IInv, SavedIsThere, RetryFindsNewEvents, PinnedLandsOnPin, autoConverge
  <2>4. ~PinAhead => PinReached' /\ FoldWasWhole'
    BY DEF IInv, PinReached, FoldWasWhole, Running
  <2> QED BY <2>1, <2>2, <2>3, <2>4 DEF IInv
<1> QED BY <1>1, <1>2, <1>3, <1>4, <1>5, <1>6, <1>7, <1>8 DEF Next, Step

(***************************************************************************)
(* The inductive invariant holds in every reachable state.                   *)
(***************************************************************************)
THEOREM Inductive == Spec => []IInv
BY InitIInv, NextIInv, PTL DEF Spec

(***************************************************************************)
(* Every variable of the store and of the calls keeps its type.              *)
(***************************************************************************)
THEOREM TypeCorrect == Spec => []TypeOK
<1>1. IInv => TypeOK
  BY DEF IInv
<1> QED BY <1>1, Inductive, PTL

(***************************************************************************)
(* The state a call folds is a prefix of its stream across every retry.      *)
(***************************************************************************)
THEOREM FoldCorrect == Spec => []FoldIsPrefix
<1>1. IInv => FoldIsPrefix
  BY DEF IInv
<1> QED BY <1>1, Inductive, PTL

(***************************************************************************)
(* When every pinned revision is one its caller has read, a batch that       *)
(* reaches the log was decided on the whole stream before it.                *)
(***************************************************************************)
THEOREM NoStaleDecision == ASSUME PinAhead = FALSE PROVE Spec => []DecidedOnWholeStream
<1>1. IInv => DecidedOnWholeStream
  <2> SUFFICES ASSUME IInv, ~closed, NEW c \in Calls, outcome[c] = "saved"
               PROVE  /\ Len(state[c]) = next[c] - batch[c]
                      /\ \A i \in 1..Len(state[c]) : state[c][i] = events[stream[c]][i]
    BY DEF DecidedOnWholeStream
  <2>1. FoldWasWhole /\ FoldIsPrefix
    BY DEF IInv
  <2> QED BY <2>1 DEF FoldWasWhole, FoldIsPrefix
<1> QED BY <1>1, Inductive, PTL

(***************************************************************************)
(* A retry always finds events that its call has not folded.                 *)
(***************************************************************************)
THEOREM RetryIsUseful == Spec => []RetryFindsNewEvents
<1>1. IInv => RetryFindsNewEvents
  BY DEF IInv
<1> QED BY <1>1, Inductive, PTL

(***************************************************************************)
(* A call pinned to NoStream or to Revision(n) lands on that very point.     *)
(***************************************************************************)
THEOREM PinHolds == Spec => []PinnedLandsOnPin
<1>1. IInv => PinnedLandsOnPin
  BY DEF IInv
<1> QED BY <1>1, Inductive, PTL

-----------------------------------------------------------------------------
(***************************************************************************)
(* The refinement.  It needs three more facts: a call has folded             *)
(* lastVersion records even when the log is gone, a closed store is empty,   *)
(* and what is being saved is not nothing.                                   *)
(***************************************************************************)
FoldLength == \A c \in Calls : Len(state[c]) = lastVersion[c]

ClosedIsEmpty == closed => \A s \in Streams : events[s] = <<>>

SavesSomething == \A c \in Calls : pc[c] = "save" => batch[c] > 0

RInv == IInv /\ FoldLength /\ ClosedIsEmpty /\ SavesSomething

LEMMA InitRInv == Init => RInv
<1> SUFFICES ASSUME Init PROVE RInv
  OBVIOUS
<1>1. IInv
  BY InitIInv
<1>2. FoldLength /\ ClosedIsEmpty /\ SavesSomething
  BY DEF Init, StoreInit, FoldLength, ClosedIsEmpty, SavesSomething
<1> QED BY <1>1, <1>2 DEF RInv

(***************************************************************************)
(* What a fold adds, in general and when the load was read to its end.       *)
(***************************************************************************)
LEMMA FoldReadsWhole ==
    ASSUME RInv, NEW c \in Calls, LoadAccepted(stream[c], loadState[c]),
           NEW k \in 0..Len(Loaded(stream[c], loadState[c])), Evolve(c, k)
    PROVE  /\ Len(state'[c]) = lastVersion'[c]
           /\ \A d \in Calls : d # c => state'[d] = state[d] /\ lastVersion'[d] = lastVersion[d]
           /\ state' \in [Calls -> Seq(Record)]
           /\ k = Len(Loaded(stream[c], loadState[c])) => state'[c] = events[stream[c]]
<1>1. TypeOK /\ VersionsDense /\ ResumesBehindFold /\ FoldIsPrefix /\ FoldLength /\ ClosedIsEmpty
  BY DEF RInv, IInv
<1> DEFINE ev == events[stream[c]]
           L  == lastVersion[c]
<1>2. /\ lastVersion' = [lastVersion EXCEPT ![c] = L + k]
      /\ L + k <= Len(ev)
      /\ k = Len(Loaded(stream[c], loadState[c])) => L + k = Len(ev)
      /\ state' \in [Calls -> Seq(Record)]
      /\ \A d \in Calls : d # c => state'[d] = state[d]
      /\ Len(state'[c]) = Len(state[c]) + k
      /\ \A i \in 1..Len(state[c]) : state'[c][i] = state[c][i]
      /\ \A i \in 1..k : state'[c][Len(state[c]) + i] = ev[L + i]
  BY <1>1, EvolveFacts
<1>3. /\ Len(state[c]) = L /\ L \in Nat /\ ev \in Seq(Record) /\ stream[c] \in Streams
      /\ lastVersion \in [Calls -> Nat] /\ state'[c] \in Seq(Record) /\ k \in Nat
  <2>1. Len(Loaded(stream[c], loadState[c])) \in Nat
    BY <1>1, <1>2, SMTT(40) DEF TypeOK, StoreTypeOK, Loaded, LoadOffset, StreamStates
  <2> QED BY <1>1, <1>2, <2>1 DEF FoldLength, TypeOK, StoreTypeOK
<1> HIDE DEF ev, L
<1>4. Len(state'[c]) = L + k /\ lastVersion'[c] = L + k
  BY <1>2, <1>3
<1>5. \A d \in Calls : d # c => lastVersion'[d] = lastVersion[d]
  BY <1>2, <1>3
<1>6. ASSUME L + k = Len(ev) PROVE state'[c] = ev
  <2>1. \A i \in 1..L : state[c][i] = ev[i]
    <3>1. CASE closed
      <4>1. Len(ev) = 0
        BY <3>1, <1>1, <1>3 DEF ClosedIsEmpty, ev
      <4> QED BY <4>1, <1>2, <1>3
    <3>2. CASE ~closed
      BY <3>2, <1>1 DEF FoldIsPrefix, ev, L
    <3> QED BY <3>1, <3>2
  <2>2. \A i \in 1..Len(ev) : state'[c][i] = ev[i]
    <3> SUFFICES ASSUME NEW i \in 1..Len(ev) PROVE state'[c][i] = ev[i]
      OBVIOUS
    <3>1. CASE i <= L
      BY <3>1, <2>1, <1>2, <1>3, SMTT(40)
    <3>2. CASE i > L
      <4>1. i - L \in 1..k /\ L + (i - L) = i
        BY <3>2, <1>3, <1>6
      <4> QED BY <4>1, <1>2, <1>3
    <3> QED BY <3>1, <3>2, <1>3
  <2> QED BY <2>2, <1>3, <1>4, <1>6
<1> QED BY <1>2, <1>4, <1>5, <1>6 DEF ev, L

LEMMA NextRInv == RInv /\ [Next]_vars => RInv'
<1> SUFFICES ASSUME RInv, [Next]_vars PROVE RInv'
  OBVIOUS
<1>1. IInv'
  BY NextIInv DEF RInv
<1>2. TypeOK
  BY DEF RInv, IInv
<1>3. FoldLength'
  <2>1. ASSUME NEW c \in Calls, Fold(c) \/ FoldCancelled(c) PROVE FoldLength'
    <3>1. PICK k \in 0..Len(Loaded(stream[c], loadState[c])) :
             LoadAccepted(stream[c], loadState[c]) /\ Evolve(c, k)
      <4>1. Len(Loaded(stream[c], loadState[c])) \in Nat
        BY <1>2 DEF TypeOK, StoreTypeOK, Loaded, LoadOffset, StreamStates
      <4> QED BY <2>1, <4>1 DEF Fold, FoldCancelled
    <3>2. Len(state'[c]) = lastVersion'[c]
          /\ \A d \in Calls : d # c => state'[d] = state[d] /\ lastVersion'[d] = lastVersion[d]
      BY <3>1, FoldReadsWhole
    <3> QED BY <3>2 DEF FoldLength, RInv
  <2>2. ASSUME UNCHANGED <<state, lastVersion>> PROVE FoldLength'
    BY <2>2 DEF FoldLength, RInv
  <2>3. ASSUME NEW c \in Calls, Start(c) \/ Cancel(c) PROVE FoldLength'
    BY <2>2, <2>3 DEF Start, Cancel
  <2>4. ASSUME NEW c \in Calls, Step(c), ~Fold(c), ~FoldCancelled(c) PROVE FoldLength'
    BY <2>2, <2>4 DEF Step, LoadFails, DecideError, DecideNothing, DecideEvents, Saved,
                      ConflictRetried, ConflictReturned, Refused, Unencodable,
                      BackoffElapsed, BackoffCancelled
  <2>5. CASE OtherSave \/ Close \/ UNCHANGED vars
    BY <2>2, <2>5 DEF OtherSave, Close, callVars, vars
  <2> QED BY <2>1, <2>3, <2>4, <2>5 DEF Next
<1>4. ClosedIsEmpty'
  <2>1. ASSUME UNCHANGED storeVars PROVE ClosedIsEmpty'
    BY <2>1 DEF ClosedIsEmpty, RInv, storeVars
  <2>2. ASSUME closed' = FALSE PROVE ClosedIsEmpty'
    BY <2>2 DEF ClosedIsEmpty
  <2>3. ASSUME NEW c \in Calls, Saved(c) PROVE closed' = FALSE
    BY <1>2, <2>3 DEF Saved, SaveAccepted, AppendBatch, TypeOK, StoreTypeOK
  <2>4. CASE OtherSave
    BY <1>2, <2>2, <2>4 DEF OtherSave, SaveAccepted, AppendBatch, TypeOK, StoreTypeOK
  <2>5. CASE Close
    BY <2>5 DEF Close, StoreClose, ClosedIsEmpty
  <2>6. ASSUME NEW c \in Calls, Start(c) \/ Cancel(c) PROVE ClosedIsEmpty'
    BY <2>1, <2>6 DEF Start, Cancel
  <2>7. ASSUME NEW c \in Calls, Step(c), ~Saved(c) PROVE ClosedIsEmpty'
    BY <2>1, <2>7 DEF Step, LoadFails, Fold, FoldCancelled, DecideError, DecideNothing,
                      DecideEvents, ConflictRetried, ConflictReturned, Refused,
                      Unencodable, BackoffElapsed, BackoffCancelled
  <2>8. CASE UNCHANGED vars
    BY <2>1, <2>8 DEF vars
  <2> QED BY <2>2, <2>3, <2>4, <2>5, <2>6, <2>7, <2>8 DEF Next
<1>5. SavesSomething'
  <2>1. ASSUME NEW c \in Calls, DecideEvents(c) PROVE SavesSomething'
    <3>1. PICK n \in 1..MaxBatch : batch' = [batch EXCEPT ![c] = n]
      BY <2>1 DEF DecideEvents
    <3>2. n > 0 /\ batch'[c] = n /\ \A d \in Calls : d # c => batch'[d] = batch[d]
      BY <1>2, <3>1, CallsAssumption DEF TypeOK
    <3>3. \A d \in Calls : d # c => pc'[d] = pc[d]
      BY <1>2, <2>1 DEF DecideEvents, TypeOK
    <3> QED BY <3>2, <3>3 DEF SavesSomething, RInv
  <2>2. ASSUME UNCHANGED batch, \A d \in Calls : pc'[d] = "save" => pc[d] = "save"
        PROVE  SavesSomething'
    BY <2>2 DEF SavesSomething, RInv
  <2>3. ASSUME NEW c \in Calls, UNCHANGED batch, NEW q, q # "save",
               pc' = [pc EXCEPT ![c] = q]
        PROVE  SavesSomething'
    BY <1>2, <2>2, <2>3 DEF TypeOK
  <2>4. ASSUME NEW c \in Calls, Start(c) \/ Cancel(c) PROVE SavesSomething'
    BY <2>2, <2>3, <2>4 DEF Start, Cancel
  <2>5. ASSUME NEW c \in Calls, Step(c), ~DecideEvents(c) PROVE SavesSomething'
    BY <2>3, <2>5 DEF Step, LoadFails, Fold, FoldCancelled, DecideError, DecideNothing,
                      Saved, ConflictRetried, ConflictReturned, Refused,
                      Unencodable, BackoffElapsed, BackoffCancelled, Ended
  <2>6. CASE OtherSave \/ Close \/ UNCHANGED vars
    BY <2>2, <2>6 DEF OtherSave, Close, callVars, vars
  <2> QED BY <2>1, <2>4, <2>5, <2>6 DEF Next
<1> QED BY <1>1, <1>3, <1>4, <1>5 DEF RInv

(***************************************************************************)
(* Under the mapping a step of one call is one of four: nothing to see, a    *)
(* read, a return, or an append.  The first two lemmas say when a step is a  *)
(* stutter and when it is a return.                                          *)
(***************************************************************************)
seenOf == [c \in Calls |-> Seen(c)]
doneOf == [c \in Calls |-> Done(c)]

LEMMA Stutters ==
    ASSUME RInv, NEW c \in Calls, pc[c] # "done", pc'[c] # "done",
           UNCHANGED <<events, state, outcome>>,
           \A d \in Calls : d # c => pc'[d] = pc[d]
    PROVE  UNCHANGED <<events, seenOf, doneOf>>
<1>1. \A d \in Calls : Seen(d)' = Seen(d)
  BY DEF Seen
<1>2. \A d \in Calls : Done(d)' = Done(d)
  BY DEF Done
<1> QED BY <1>1, <1>2 DEF seenOf, doneOf

LEMMA Returns ==
    ASSUME RInv, NEW c \in Calls, pc[c] # "done", NEW how, how \notin {"saved", "none"},
           how \in {"nothing", "rejected"} => UNCHANGED state,
           \A d \in Calls : d # c => state'[d] = state[d],
           UNCHANGED events,
           pc' = [pc EXCEPT ![c] = "done"],
           outcome' = [outcome EXCEPT ![c] = how]
    PROVE  Atomic!Return(c)
<1>1. pc \in [Calls -> PCs] /\ outcome \in [Calls -> Outcomes]
  BY DEF RInv, IInv, TypeOK
<1>2. outcome[c] = "none"
  BY DEF RInv, IInv, EndedIsDone
<1>3. /\ pc'[c] = "done" /\ outcome'[c] = how
      /\ \A d \in Calls : d # c => pc'[d] = pc[d] /\ outcome'[d] = outcome[d]
  BY <1>1
<1>4. \A d \in Calls : d # c => Seen(d)' = Seen(d) /\ Done(d)' = Done(d)
  BY <1>3 DEF Seen, Done
<1>5. Done(c) = "open" /\ Done(c)' = "returned"
  BY <1>2, <1>3 DEF Done
<1>6. Seen(c)' = Seen(c) \/ Seen(c)' = <<>>
  BY <1>2, <1>3 DEF Seen
<1>7. doneOf' = [doneOf EXCEPT ![c] = "returned"]
  BY <1>4, <1>5 DEF doneOf
<1>8. seenOf' = seenOf \/ seenOf' = [seenOf EXCEPT ![c] = <<>>]
  BY <1>4, <1>6 DEF seenOf
<1> QED BY <1>5, <1>7, <1>8 DEF Atomic!Return, seenOf, doneOf

\* A fold read to its end is a read of the whole stream, at one point in time.
LEMMA FoldReads == ASSUME RInv, NEW c \in Calls, Fold(c) PROVE Atomic!Read(c)
<1>1. TypeOK /\ EndedIsDone
  BY DEF RInv, IInv
<1>2. Len(Loaded(stream[c], loadState[c])) \in Nat /\ stream[c] \in Streams
  BY <1>1 DEF TypeOK, StoreTypeOK, Loaded, LoadOffset, StreamStates
<1>3. /\ state'[c] = events[stream[c]]
      /\ \A d \in Calls : d # c => state'[d] = state[d]
  <2>1. Len(Loaded(stream[c], loadState[c])) \in 0..Len(Loaded(stream[c], loadState[c]))
    BY <1>2
  <2> QED BY <2>1, FoldReadsWhole DEF Fold
<1>4. /\ pc[c] = "load" /\ pc'[c] = "decide" /\ \A d \in Calls : d # c => pc'[d] = pc[d]
      /\ UNCHANGED <<events, outcome>> /\ outcome[c] = "none"
  BY <1>1 DEF Fold, TypeOK, EndedIsDone, storeVars
<1>5. \A d \in Calls : Done(d)' = Done(d)
  BY <1>4 DEF Done
<1>6. Done(c) = "open" /\ Seen(c)' = events[stream[c]]
  BY <1>3, <1>4 DEF Done, Seen
<1>7. \A d \in Calls : d # c => Seen(d)' = Seen(d)
  BY <1>3, <1>4 DEF Seen
<1>8. seenOf' = [seenOf EXCEPT ![c] = events[stream[c]]]
  BY <1>6, <1>7 DEF seenOf
<1>9. doneOf' = doneOf
  BY <1>5 DEF doneOf
<1> QED BY <1>2, <1>4, <1>6, <1>8, <1>9 DEF Atomic!Read, seenOf, doneOf

\* An append adds records at the end of one stream.
LEMMA AppendExtends ==
    ASSUME StoreTypeOK, NEW s \in Streams, NEW n \in Nat, n > 0, NEW w \in Writers,
           AppendBatch(s, n, w)
    PROVE  Atomic!Extends(s)
<1>1. /\ StoreTypeOK' /\ Len(events'[s]) = Len(events[s]) + n
      /\ \A i \in 1..Len(events[s]) : events'[s][i] = events[s][i]
  BY AppendFacts
<1>2. events[s] \in Seq(Record) /\ events'[s] \in Seq(Record)
  BY <1>1 DEF StoreTypeOK
<1>3. events' = [events EXCEPT ![s] = events'[s]]
  BY DEF AppendBatch, StoreTypeOK
<1>4. Len(events'[s]) > Len(events[s])
  BY <1>1, <1>2
<1>5. \A i \in DOMAIN events[s] : events'[s][i] = events[s][i]
  BY <1>1, <1>2
<1> QED BY <1>2, <1>3, <1>4, <1>5 DEF Atomic!Extends

(***************************************************************************)
(* A save the store accepts commits on everything the stream holds: the      *)
(* expectation names the fold's version, or the fold had reached the pin.    *)
(***************************************************************************)
LEMMA SavedCommits ==
    ASSUME RInv, PinAhead = FALSE, NEW c \in Calls, Saved(c)
    PROVE  Atomic!Commit(c)
<1>1. TypeOK /\ EndedIsDone /\ FoldIsPrefix /\ PinReached /\ SavesSomething
  BY DEF RInv, IInv
<1> DEFINE s == stream[c]
<1>2. /\ s \in Streams /\ events[s] \in Seq(Record) /\ state[c] \in Seq(Record)
      /\ lastVersion[c] \in Nat /\ batch[c] \in Nat /\ mode[c] \in StreamStates
      /\ StoreTypeOK /\ c \in Writers
  BY <1>1, CallsAssumption DEF TypeOK, StoreTypeOK
<1>3. /\ pc[c] = "save" /\ ~closed /\ outcome[c] = "none"
      /\ Expected(saveState(c), Len(events[s]))
      /\ pc' = [pc EXCEPT ![c] = "done"]
      /\ outcome' = [outcome EXCEPT ![c] = "saved"]
      /\ UNCHANGED state
  BY <1>1 DEF Saved, SaveAccepted, EndedIsDone, Ended
<1>4. /\ Len(state[c]) = lastVersion[c] /\ lastVersion[c] <= Len(events[s])
      /\ \A i \in 1..lastVersion[c] : state[c][i] = events[s][i]
  BY <1>1, <1>3 DEF FoldIsPrefix
<1>5. lastVersion[c] = Len(events[s])
  <2>1. CASE autoConverge(c)
    BY <2>1, <1>3 DEF saveState, Expected, Revision
  <2>2. CASE ~autoConverge(c) /\ mode[c].kind = "NoStream"
    BY <2>2, <1>2, <1>3, <1>4 DEF saveState, Expected
  <2>3. CASE ~autoConverge(c) /\ mode[c].kind = "Revision"
    <3>1. Len(events[s]) = mode[c].rev
      BY <2>3, <1>3 DEF saveState, Expected
    <3>2. mode[c].rev <= lastVersion[c]
      BY <2>3, <1>1, <1>3 DEF PinReached
    <3> QED BY <3>1, <3>2, <1>2, <1>4
  <2> QED BY <2>1, <2>2, <2>3, <1>2 DEF autoConverge, StreamStates
<1>6. state[c] = events[s]
  BY <1>2, <1>4, <1>5
<1>7. Atomic!Extends(s)
  <2>1. batch[c] > 0 /\ AppendBatch(s, batch[c], c)
    BY <1>1, <1>3 DEF SavesSomething, Saved
  <2> QED BY <2>1, <1>2, AppendExtends
<1>8. /\ pc'[c] = "done" /\ outcome'[c] = "saved"
      /\ \A d \in Calls : d # c => pc'[d] = pc[d] /\ outcome'[d] = outcome[d]
  BY <1>1, <1>3 DEF TypeOK
<1>9. \A d \in Calls : d # c => Done(d)' = Done(d) /\ Seen(d)' = Seen(d)
  BY <1>3, <1>8 DEF Done, Seen
<1>10. Done(c) = "open" /\ Done(c)' = "appended" /\ Seen(c) = state[c] /\ Seen(c)' = state[c]
  BY <1>3, <1>8 DEF Done, Seen
<1>11. seenOf' = seenOf /\ doneOf' = [doneOf EXCEPT ![c] = "appended"]
  BY <1>9, <1>10 DEF seenOf, doneOf
<1>12. seenOf[c] = events[s]
  BY <1>6, <1>10 DEF seenOf
<1> QED BY <1>2, <1>7, <1>10, <1>11, <1>12 DEF Atomic!Commit, seenOf, doneOf

LEMMA StepRefines ==
    ASSUME PinAhead = FALSE
    PROVE  RInv /\ [Next]_vars => [Atomic!Next]_<<events, seenOf, doneOf>>
<1> SUFFICES ASSUME RInv, [Next]_vars
             PROVE  Atomic!Next \/ UNCHANGED <<events, seenOf, doneOf>>
  OBVIOUS
<1>1. TypeOK
  BY DEF RInv, IInv
<1>2. pc \in [Calls -> PCs] /\ StoreTypeOK /\ state \in [Calls -> Seq(Record)]
  BY <1>1 DEF TypeOK
<1>3. ASSUME NEW c \in Calls, Start(c) \/ DecideEvents(c) \/ ConflictRetried(c)
                              \/ BackoffElapsed(c) \/ Cancel(c)
      PROVE  UNCHANGED <<events, seenOf, doneOf>>
  <2>1. /\ pc[c] # "done" /\ pc'[c] # "done" /\ UNCHANGED <<events, state, outcome>>
        /\ \A d \in Calls : d # c => pc'[d] = pc[d]
    BY <1>2, <1>3 DEF Start, DecideEvents, ConflictRetried, BackoffElapsed, Cancel, storeVars
  <2> QED BY <2>1, Stutters
<1>4. ASSUME NEW c \in Calls, LoadFails(c) \/ DecideError(c) \/ DecideNothing(c)
                              \/ ConflictReturned(c) \/ Refused(c) \/ Unencodable(c)
                              \/ BackoffCancelled(c)
      PROVE  Atomic!Return(c)
  <2>1. pc[c] # "done" /\ UNCHANGED <<events, state>>
    BY <1>4 DEF LoadFails, DecideError, DecideNothing, ConflictReturned, Refused,
                Unencodable, BackoffCancelled, storeVars
  <2>2. PICK how \in Outcomes \ {"saved", "none"} :
           pc' = [pc EXCEPT ![c] = "done"] /\ outcome' = [outcome EXCEPT ![c] = how]
    BY <1>4 DEF LoadFails, DecideError, DecideNothing, ConflictReturned, Refused,
                Unencodable, BackoffCancelled, Ended, Outcomes
  <2> QED BY <2>1, <2>2, Returns
<1>5. ASSUME NEW c \in Calls, FoldCancelled(c) PROVE Atomic!Return(c)
  <2>1. /\ pc[c] # "done" /\ UNCHANGED events /\ LoadAccepted(stream[c], loadState[c])
        /\ pc' = [pc EXCEPT ![c] = "done"] /\ outcome' = [outcome EXCEPT ![c] = "cancelled"]
    BY <1>5 DEF FoldCancelled, Ended, storeVars
  <2>2. PICK k \in 0..Len(Loaded(stream[c], loadState[c])) : Evolve(c, k)
    BY <1>5 DEF FoldCancelled
  <2>3. \A d \in Calls : d # c => state'[d] = state[d]
    BY <2>1, <2>2, FoldReadsWhole
  <2> QED BY <2>1, <2>3, Returns
<1>6. CASE OtherSave
  <2>1. PICK s \in Streams : AppendBatch(s, 1, Other)
    BY <1>6 DEF OtherSave
  <2>2. Atomic!Extends(s)
    BY <2>1, <1>2, CallsAssumption, AppendExtends
  <2>3. UNCHANGED <<seenOf, doneOf>>
    BY <1>6 DEF OtherSave, callVars, seenOf, doneOf, Seen, Done
  <2> QED BY <2>2, <2>3 DEF Atomic!Next, Atomic!OtherWriter, seenOf, doneOf
<1>7. CASE Close
  BY <1>7 DEF Close, StoreClose, callVars, Atomic!Next, Atomic!Discard, Seen, Done
<1>8. CASE UNCHANGED vars
  BY <1>8 DEF vars, storeVars, callVars, seenOf, doneOf, Seen, Done
<1>9. ASSUME NEW c \in Calls, Start(c) \/ Step(c) \/ Cancel(c)
      PROVE  Atomic!Next \/ UNCHANGED <<events, seenOf, doneOf>>
  <2>1. CASE Start(c) \/ DecideEvents(c) \/ ConflictRetried(c) \/ BackoffElapsed(c) \/ Cancel(c)
    BY <1>3, <2>1
  <2>2. CASE \/ LoadFails(c) \/ DecideError(c) \/ DecideNothing(c) \/ ConflictReturned(c)
             \/ Refused(c) \/ Unencodable(c) \/ BackoffCancelled(c)
    BY <1>4, <2>2 DEF Atomic!Next
  <2>3. CASE FoldCancelled(c)
    BY <1>5, <2>3 DEF Atomic!Next
  <2>4. CASE Fold(c)
    BY <2>4, FoldReads DEF Atomic!Next
  <2>5. CASE Saved(c)
    BY <2>5, SavedCommits DEF Atomic!Next
  <2> QED BY <1>9, <2>1, <2>2, <2>3, <2>4, <2>5 DEF Step
<1> QED BY <1>6, <1>7, <1>8, <1>9 DEF Next

(***************************************************************************)
(* Concurrent handlers implement atomic ones, when every pinned revision is  *)
(* one its caller has read: each call reads a whole stream, appends onto     *)
(* exactly what it read or not at all, and returns once.                     *)
(***************************************************************************)
THEOREM Refinement == ASSUME PinAhead = FALSE PROVE Spec => ImplementsAtomic
<1>1. Init => Atomic!Init
  BY DEF Init, StoreInit, Atomic!Init, Seen, Done
<1>2. Spec => []RInv
  BY InitRInv, NextRInv, PTL DEF Spec
<1>3. RInv /\ [Next]_vars => [Atomic!Next]_(Atomic!vars)
  BY StepRefines DEF Atomic!vars, seenOf, doneOf
<1> QED BY <1>1, <1>2, <1>3, PTL DEF Spec, ImplementsAtomic, Atomic!Spec

=============================================================================
