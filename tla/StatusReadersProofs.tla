-------------------------- MODULE StatusReadersProofs --------------------------
(***************************************************************************)
(* Proofs about StatusReaders: what a probe answers and what a page of the    *)
(* dashboard shows, for any segments, log, changes of the store, waits, pages *)
(* and generations of the goroutine that reads for them.                      *)
(***************************************************************************)
EXTENDS StatusReaders, FiniteSetTheorems, TLAPS

\* The store has a past, and Unreadable is no moment of it.
StoreSound ==
    /\ history \in Seq(Statuses)
    /\ Now \in 1 .. MaxChanges + 1

-----------------------------------------------------------------------------
(***************************************************************************)
(* The probe.                                                                *)
(***************************************************************************)
WaitRecords ==
    [pc : {"idle", "checking", "waiting", "leaving", "done"}, position : Nat,
     woken : BOOLEAN, result : {"none", "nil", "NotReachedError"}]

PollerRecords == [pc : {"new", "timer", "read", "gone"}, ctxDone : BOOLEAN, read : Nat]

ProbeShape ==
    /\ wait \in [Waits -> WaitRecords]
    /\ stop \in Nat /\ since \in Nat /\ statuses \in Nat
    /\ poller \in [Generations -> PollerRecords]

Inside == {w \in Waits : wait[w].pc \in {"checking", "waiting", "leaving"}}

\* The poller runs just while a wait is inside: waiters counts them.
PollerServes ==
    /\ IsFiniteSet(Inside) /\ waiters = Cardinality(Inside)
    /\ waiters = 0 => stop = 0
    /\ stop = 0 => waiters = 0 /\ since = 0
    /\ stop # 0 => stop \in Generations /\ since \in 1 .. Now

\* Every poller but the one that runs has been stopped, and what the running
\* one has read or published, it read since it was started.
ReadSinceStart ==
    /\ \A g \in Generations :
          /\ poller[g].pc # "new" /\ ~poller[g].ctxDone => g = stop
          /\ poller[g].pc = "new" => poller[g].read = 0
          /\ poller[g].read <= Now
          /\ g = stop /\ poller[g].read # 0 => since <= poller[g].read
    /\ statuses <= Now
    /\ stop # 0 /\ statuses # 0 => since <= statuses

OnlyLeavingAnswered == \A w \in Waits : wait[w].result = "nil" => wait[w].pc = "leaving"

ProbeInv ==
    /\ StoreSound /\ ProbeShape /\ PollerServes /\ ReadSinceStart /\ OnlyLeavingAnswered
    /\ AnswerIsCurrent

-----------------------------------------------------------------------------
(***************************************************************************)
(* The hub.                                                                  *)
(***************************************************************************)
PageRecords ==
    [pc : {"idle", "open", "closed"}, ch : Nat, shown : Nat, backwards : BOOLEAN]

ReaderRecords == [pc : {"new", "timer", "read", "gone"}, ctxDone : BOOLEAN, snap : Nat]

HubShape ==
    /\ page \in [Pages -> PageRecords]
    /\ running \in Nat /\ began \in Nat /\ latest \in Nat
    /\ reader \in [Generations -> ReaderRecords]

\* The reader runs just while a page is open.
ReaderServes ==
    /\ \A p \in Pages : page[p].pc = "open" => running # 0
    /\ \A p \in Pages : page[p].pc # "open" => page[p].ch = 0 /\ page[p].shown = 0
    /\ running = 0 => began = 0 /\ latest = NoSnapshot
    /\ running # 0 => running \in Generations /\ began \in 1 .. Now
    /\ \A g \in Generations :
          /\ reader[g].pc # "new" /\ ~reader[g].ctxDone => g = running
          /\ reader[g].pc \in {"new", "timer"} => reader[g].snap = NoSnapshot

\* A snapshot says that the store could not be read, or is of a moment since
\* the reader was started.
Snapshot(m, from, now) == m = Unreadable \/ (from <= m /\ m <= now)

\* A page has shown no later moment than the one in its channel, that is of no
\* later one than the latest, and that than the one the reader has in hand.
MomentsInOrder ==
    /\ \A p \in Pages :
          /\ page[p].shown # 0 => began <= page[p].shown
          /\ page[p].shown <= Now
          /\ page[p].ch # NoSnapshot => Snapshot(page[p].ch, began, Now) /\ page[p].shown <= page[p].ch
    /\ latest # NoSnapshot => Snapshot(latest, began, Now)
    /\ \A g \in Generations : g = running /\ reader[g].pc = "read" =>
          /\ Snapshot(reader[g].snap, began, Now)
          /\ latest = Unreadable \/ latest <= reader[g].snap
          /\ \A p \in Pages :
                /\ page[p].shown <= reader[g].snap
                /\ page[p].ch = Unreadable \/ page[p].ch <= reader[g].snap

HubInv ==
    /\ StoreSound /\ HubShape /\ ReaderServes /\ MomentsInOrder
    /\ \A p \in Pages : ~page[p].backwards

IInv == ProbeInv /\ HubInv

-----------------------------------------------------------------------------
LEMMA InitIInv == Init => IInv
<1> SUFFICES ASSUME Init PROVE IInv
  OBVIOUS
<1> USE StatusesAssumption DEF Init, StoreInit, ProbeInit, HubInit
<1>1. StoreSound
  <2>1. PICK st \in Statuses : history = <<st>>
    OBVIOUS
  <2>2. history \in Seq(Statuses) /\ Len(history) = 1
    BY <2>1
  <2> QED BY <2>2 DEF StoreSound, Now
<1>2. ProbeShape
  <2>1. wait \in [Waits -> WaitRecords]
    <3>1. \A q \in 1 .. MaxPosition :
             [pc |-> "idle", position |-> q, woken |-> FALSE, result |-> "none"] \in WaitRecords
      BY DEF WaitRecords
    <3> QED BY <3>1
  <2> QED BY <2>1 DEF ProbeShape, PollerRecords
<1>3. \A w \in Waits : wait[w].pc = "idle" /\ wait[w].result = "none"
  OBVIOUS
<1>4. Inside = {}
  BY <1>3 DEF Inside
<1>5. PollerServes
  BY <1>4, FS_EmptySet DEF PollerServes
<1>6. ReadSinceStart /\ OnlyLeavingAnswered /\ AnswerIsCurrent
  BY <1>1, <1>3 DEF ReadSinceStart, OnlyLeavingAnswered, AnswerIsCurrent, StoreSound
<1>7. HubShape
  BY DEF HubShape, PageRecords, ReaderRecords, NoSnapshot
<1>8. ReaderServes
  BY DEF ReaderServes, NoSnapshot
<1>9. MomentsInOrder /\ \A p \in Pages : ~page[p].backwards
  BY <1>1 DEF MomentsInOrder, NoSnapshot, StoreSound
<1> QED BY <1>1, <1>2, <1>5, <1>6, <1>7, <1>8, <1>9 DEF IInv, ProbeInv, HubInv

(***************************************************************************)
(* The store moves on: its past stays.                                       *)
(***************************************************************************)
LEMMA HistoryGrows ==
    ASSUME StoreSound, StoreNext
    PROVE  StoreSound' /\ Now' = Now + 1 /\ \A m \in 1 .. Now : history'[m] = history[m]
<1> USE StatusesAssumption
<1>1. ASSUME NEW st \in Statuses, Becomes(st)
      PROVE  StoreSound' /\ Now' = Now + 1 /\ \A m \in 1 .. Now : history'[m] = history[m]
  <2>1. history \in Seq(Statuses) /\ Len(history) \in Nat
    BY DEF StoreSound
  <2>2. history' = Append(history, st) /\ Len(history) <= MaxChanges
    BY <1>1 DEF Becomes, Now
  <2>3. history' \in Seq(Statuses) /\ Len(history') = Len(history) + 1
    BY <2>1, <2>2
  <2>4. \A m \in 1 .. Len(history) : history'[m] = history[m]
    BY <2>1, <2>2
  <2> QED BY <2>1, <2>2, <2>3, <2>4 DEF StoreSound, Now
<1>2. [s \in Segments |-> 0] \in Statuses
  BY DEF Statuses
<1>3. history[Now] \in Statuses
  BY DEF StoreSound, Now
<1>4. CASE Declare
  BY <1>1, <1>2, <1>4 DEF Declare
<1>5. CASE Reset
  BY <1>1, <1>2, <1>5 DEF Reset
<1>6. CASE \E s \in Segments : Advance(s)
  <2>1. PICK s \in Segments : Advance(s)
    BY <1>6
  <2>2. /\ history[Now] \in [Segments -> 0 .. MaxPosition] /\ history[Now][s] < MaxPosition
        /\ Becomes([history[Now] EXCEPT ![s] = history[Now][s] + 1])
    BY <1>3, <2>1 DEF Advance, Statuses
  <2>3. [history[Now] EXCEPT ![s] = history[Now][s] + 1] \in Statuses
    BY <2>2 DEF Statuses
  <2> QED BY <1>1, <2>2, <2>3
<1> QED BY <1>4, <1>5, <1>6 DEF StoreNext

LEMMA StoreStep ==
    ASSUME IInv, StoreNext, UNCHANGED <<probeVars, hubVars>>
    PROVE  IInv'
<1> USE StatusesAssumption DEF IInv, ProbeInv, HubInv
<1>1. /\ UNCHANGED <<wait, waiters, stop, since, statuses, poller>>
      /\ UNCHANGED <<page, running, began, latest, nudge, reader>>
  BY DEF probeVars, hubVars
<1>2. /\ StoreSound' /\ Now' = Now + 1 /\ Now \in Nat
      /\ \A m \in 1 .. Now : history'[m] = history[m]
  BY HistoryGrows DEF StoreSound
<1>3. ProbeShape' /\ HubShape' /\ OnlyLeavingAnswered'
  BY <1>1 DEF ProbeShape, HubShape, OnlyLeavingAnswered
<1>4. PollerServes'
  BY <1>1, <1>2 DEF PollerServes, Inside, ProbeShape
<1>5. ReadSinceStart'
  BY <1>1, <1>2 DEF ReadSinceStart, ProbeShape, PollerRecords
<1>6. AnswerIsCurrent'
  <2> SUFFICES ASSUME NEW w \in Waits, wait[w].result = "nil"
               PROVE  \E m \in since .. Now' : reached(history'[m], wait[w].position)
    BY <1>1 DEF AnswerIsCurrent
  <2>1. PICK m \in since .. Now : reached(history[m], wait[w].position)
    BY DEF AnswerIsCurrent
  <2>2. w \in Inside
    BY DEF OnlyLeavingAnswered, Inside
  <2>3. Inside # {} => waiters # 0
    BY FS_EmptySet DEF PollerServes
  <2>4. since \in 1 .. Now
    BY <2>2, <2>3 DEF PollerServes
  <2>5. m \in 1 .. Now /\ m \in since .. Now'
    BY <1>2, <2>4
  <2> QED BY <1>2, <2>1, <2>5
<1>7. ReaderServes'
  BY <1>1, <1>2 DEF ReaderServes, HubShape
<1>8. MomentsInOrder'
  <2>1. \A m \in Nat : Snapshot(m, began, Now) => Snapshot(m, began, Now')
    BY <1>1, <1>2 DEF Snapshot, HubShape
  <2> QED BY <1>1, <1>2, <2>1 DEF MomentsInOrder, HubShape, PageRecords, ReaderRecords
<1> QED BY <1>1, <1>2, <1>3, <1>4, <1>5, <1>6, <1>7, <1>8

-----------------------------------------------------------------------------
(***************************************************************************)
(* The steps of the probe.                                                   *)
(***************************************************************************)

\* A wait is inside just while the poller runs.
LEMMA InsideIsServed ==
    ASSUME ProbeInv, NEW w \in Inside
    PROVE  stop # 0 /\ stop \in Generations /\ since \in 1 .. Now
<1>1. waiters # 0
  BY FS_EmptySet DEF ProbeInv, PollerServes
<1> QED BY <1>1 DEF ProbeInv, PollerServes

\* A step that leaves everybody inside, the poller and its start alone, and
\* answers no wait that is not told the truth.
LEMMA WaitMoves ==
    ASSUME ProbeInv, NEW w \in Inside, NEW r \in WaitRecords,
           wait' = [wait EXCEPT ![w] = r], UNCHANGED <<history, waiters, stop, since, statuses, poller>>,
           r.pc \in {"checking", "waiting", "leaving"},
           r.result = "nil" => r.pc = "leaving" /\ \E m \in since .. Now : reached(history[m], r.position)
    PROVE  ProbeInv'
<1> USE StatusesAssumption DEF ProbeInv
<1>1. w \in Waits /\ wait'[w] = r /\ \A v \in Waits : v # w => wait'[v] = wait[v]
  BY DEF ProbeShape, Inside
<1>2. Inside' = Inside
  BY <1>1 DEF Inside
<1>3. Now' = Now
  BY DEF Now
<1>4. StoreSound' /\ ProbeShape'
  BY <1>1, <1>3 DEF StoreSound, ProbeShape
<1>5. PollerServes' /\ ReadSinceStart'
  BY <1>2, <1>3 DEF PollerServes, ReadSinceStart
<1>6. OnlyLeavingAnswered'
  BY <1>1 DEF OnlyLeavingAnswered
<1>7. AnswerIsCurrent'
  BY <1>1, <1>3 DEF AnswerIsCurrent
<1> QED BY <1>4, <1>5, <1>6, <1>7

LEMMA JoinStep ==
    ASSUME ProbeInv, NEW w \in Waits, Join(w), UNCHANGED history
    PROVE  ProbeInv'
<1> USE StatusesAssumption DEF ProbeInv
<1>1. /\ wait[w].pc = "idle" /\ waiters' = waiters + 1
      /\ wait' = [wait EXCEPT ![w] = [wait[w] EXCEPT !.pc = "checking"]]
  BY DEF Join, ProbeShape
<1>2. Now' = Now /\ Now \in Nat /\ Now >= 1
  BY DEF Now, StoreSound
<1>3. /\ wait'[w].pc = "checking" /\ wait'[w].result = wait[w].result
      /\ wait'[w] \in WaitRecords
      /\ \A v \in Waits : v # w => wait'[v] = wait[v]
  <2>1. wait[w] \in WaitRecords
    BY DEF ProbeShape
  <2> QED BY <1>1, <2>1 DEF ProbeShape, WaitRecords
<1>4. w \notin Inside /\ Inside' = Inside \cup {w}
  BY <1>1, <1>3 DEF Inside
<1>5. IsFiniteSet(Inside') /\ waiters' = Cardinality(Inside') /\ waiters' # 0
  <2>1. IsFiniteSet(Inside) /\ Cardinality(Inside) \in Nat /\ waiters = Cardinality(Inside)
    BY FS_CardinalityType DEF PollerServes
  <2>2. IsFiniteSet(Inside') /\ Cardinality(Inside') = Cardinality(Inside) + 1
    BY <1>4, <2>1, FS_AddElement
  <2> QED BY <1>1, <2>1, <2>2
<1>6. OnlyLeavingAnswered'
  BY <1>1, <1>3 DEF OnlyLeavingAnswered
<1>7. StoreSound'
  BY <1>2 DEF StoreSound
<1>8. wait' \in [Waits -> WaitRecords]
  BY <1>1, <1>3 DEF ProbeShape
<1>9. CASE waiters = 0
  <2>1. PICK g \in Generations :
           /\ poller[g].pc = "new" /\ poller' = [poller EXCEPT ![g].pc = "timer"]
           /\ stop' = g /\ since' = Now /\ statuses' = 0
    BY <1>9 DEF Join
  <2>2. Inside = {}
    BY <1>9, FS_EmptySet DEF PollerServes
  <2>3. /\ poller'[g].read = poller[g].read /\ poller'[g] \in PollerRecords
        /\ \A h \in Generations : h # g => poller'[h] = poller[h]
        /\ poller' \in [Generations -> PollerRecords]
    <3>1. poller[g] \in PollerRecords /\ poller \in [Generations -> PollerRecords]
      BY DEF ProbeShape
    <3>2. poller' = [poller EXCEPT ![g] = [poller[g] EXCEPT !.pc = "timer"]]
      BY <2>1, <3>1
    <3>3. [poller[g] EXCEPT !.pc = "timer"] \in PollerRecords
      BY <3>1 DEF PollerRecords
    <3> QED BY <3>1, <3>2, <3>3 DEF PollerRecords
  <2>4. g \in Nat \ {0}
    BY DEF Generations
  <2>5. ProbeShape'
    BY <1>2, <1>8, <2>1, <2>3, <2>4 DEF ProbeShape
  <2>6. PollerServes'
    BY <1>2, <1>5, <2>1, <2>4 DEF PollerServes
  <2>7. ReadSinceStart'
    <3>1. \A h \in Generations : poller[h].pc # "new" => poller[h].ctxDone
      <4>1. stop = 0 /\ \A h \in Generations : h # 0
        BY <1>9 DEF PollerServes, Generations
      <4> QED BY <4>1 DEF ReadSinceStart
    <3>2. poller'[g].read = 0 /\ poller'[g].pc = "timer"
      BY <2>1, <2>3 DEF ReadSinceStart, ProbeShape, PollerRecords
    <3>3. ASSUME NEW h \in Generations, h # g
          PROVE  poller'[h] = poller[h] /\ poller[h].read <= Now
                 /\ (poller[h].pc = "new" => poller[h].read = 0)
      BY <2>3, <3>3 DEF ReadSinceStart
    <3>4. \A h \in Generations :
             /\ poller'[h].pc # "new" /\ ~poller'[h].ctxDone => h = g
             /\ poller'[h].pc = "new" => poller'[h].read = 0
             /\ poller'[h].read <= Now
             /\ h = g => poller'[h].read = 0
      BY <1>2, <3>1, <3>2, <3>3
    <3> QED BY <1>2, <2>1, <3>4 DEF ReadSinceStart
  <2>8. AnswerIsCurrent'
    <3>1. \A v \in Waits : wait'[v].result # "nil"
      BY <1>1, <1>3, <2>2 DEF OnlyLeavingAnswered, Inside
    <3> QED BY <3>1 DEF AnswerIsCurrent
  <2> QED BY <1>6, <1>7, <2>5, <2>6, <2>7, <2>8
<1>10. CASE waiters # 0
  <2>1. UNCHANGED <<poller, stop, since, statuses>>
    BY <1>10 DEF Join
  <2>2. ProbeShape' /\ ReadSinceStart'
    BY <1>2, <1>8, <2>1 DEF ProbeShape, ReadSinceStart
  <2>3. PollerServes'
    BY <1>2, <1>5, <1>10, <2>1 DEF PollerServes
  <2>4. AnswerIsCurrent'
    BY <1>1, <1>2, <1>3, <2>1 DEF AnswerIsCurrent, OnlyLeavingAnswered
  <2> QED BY <1>6, <1>7, <2>2, <2>3, <2>4
<1> QED BY <1>9, <1>10

LEMMA CheckStep ==
    ASSUME ProbeInv, NEW w \in Waits, Check(w), UNCHANGED history
    PROVE  ProbeInv'
<1> USE StatusesAssumption DEF ProbeInv
<1>1. wait[w] \in WaitRecords /\ w \in Inside
  BY DEF ProbeShape, Check, Inside
<1>2. wait[w].result # "nil"
  BY DEF Check, OnlyLeavingAnswered
<1>3. UNCHANGED <<waiters, stop, since, statuses, poller>>
  BY DEF Check
<1>4. CASE reached(At(statuses), wait[w].position)
  <2>1. statuses # 0
    BY <1>4 DEF At, reached, complete
  <2>2. statuses \in since .. Now
    <3>1. since \in 1 .. Now /\ stop # 0
      BY <1>1, InsideIsServed
    <3> QED BY <2>1, <3>1 DEF ReadSinceStart, ProbeShape, StoreSound
  <2>3. reached(history[statuses], wait[w].position)
    BY <1>4, <2>1 DEF At
  <2> DEFINE r == [wait[w] EXCEPT !.pc = "leaving", !.result = "nil"]
  <2>4. r \in WaitRecords /\ r.pc = "leaving" /\ r.result = "nil" /\ r.position = wait[w].position
    BY <1>1 DEF WaitRecords
  <2>5. wait' = [wait EXCEPT ![w] = r]
    BY <1>4 DEF Check
  <2> HIDE DEF r
  <2> QED BY <1>1, <1>3, <2>2, <2>3, <2>4, <2>5, WaitMoves
<1>5. CASE ~reached(At(statuses), wait[w].position)
  <2> DEFINE r == [wait[w] EXCEPT !.pc = "waiting", !.woken = FALSE]
  <2>1. r \in WaitRecords /\ r.pc = "waiting" /\ r.result = wait[w].result
    BY <1>1 DEF WaitRecords
  <2>2. wait' = [wait EXCEPT ![w] = r]
    BY <1>5 DEF Check
  <2> HIDE DEF r
  <2> QED BY <1>1, <1>2, <1>3, <2>1, <2>2, WaitMoves
<1> QED BY <1>4, <1>5

LEMMA WakeStep ==
    ASSUME ProbeInv, NEW w \in Waits, Wake(w) \/ NotReached(w), UNCHANGED history
    PROVE  ProbeInv'
<1> USE DEF ProbeInv
<1>1. wait[w] \in WaitRecords /\ w \in Inside /\ wait[w].result # "nil"
  BY DEF ProbeShape, Wake, NotReached, Inside, OnlyLeavingAnswered
<1>2. UNCHANGED <<waiters, stop, since, statuses, poller>>
  BY DEF Wake, NotReached
<1>3. CASE Wake(w)
  <2> DEFINE r == [wait[w] EXCEPT !.pc = "checking"]
  <2>1. r \in WaitRecords /\ r.pc = "checking" /\ r.result = wait[w].result
    BY <1>1 DEF WaitRecords
  <2>2. wait' = [wait EXCEPT ![w] = r]
    BY <1>3 DEF Wake, ProbeShape
  <2> HIDE DEF r
  <2> QED BY <1>1, <1>2, <2>1, <2>2, WaitMoves
<1>4. CASE NotReached(w)
  <2> DEFINE r == [wait[w] EXCEPT !.pc = "leaving", !.result = "NotReachedError"]
  <2>1. r \in WaitRecords /\ r.pc = "leaving" /\ r.result = "NotReachedError"
    BY <1>1 DEF WaitRecords
  <2>2. wait' = [wait EXCEPT ![w] = r]
    BY <1>4 DEF NotReached, ProbeShape
  <2> HIDE DEF r
  <2> QED BY <1>1, <1>2, <2>1, <2>2, WaitMoves
<1> QED BY <1>3, <1>4

LEMMA LeaveStep ==
    ASSUME ProbeInv, NEW w \in Waits, Leave(w), UNCHANGED history
    PROVE  ProbeInv'
<1> USE StatusesAssumption DEF ProbeInv
<1>1. /\ wait[w].pc = "leaving" /\ waiters' = waiters - 1 /\ statuses' = statuses
      /\ wait' = [wait EXCEPT ![w] = [wait[w] EXCEPT !.pc = "done", !.result = "none"]]
  BY DEF Leave, ProbeShape
<1>2. Now' = Now /\ Now \in Nat
  BY DEF Now, StoreSound
<1>3. /\ wait'[w].pc = "done" /\ wait'[w].result = "none" /\ wait'[w] \in WaitRecords
      /\ \A v \in Waits : v # w => wait'[v] = wait[v]
  <2>1. wait[w] \in WaitRecords
    BY DEF ProbeShape
  <2> QED BY <1>1, <2>1 DEF ProbeShape, WaitRecords
<1>4. w \in Inside /\ Inside' = Inside \ {w}
  BY <1>1, <1>3 DEF Inside
<1>5. IsFiniteSet(Inside') /\ waiters' = Cardinality(Inside')
  <2>1. IsFiniteSet(Inside) /\ Cardinality(Inside) \in Nat /\ waiters = Cardinality(Inside)
    BY FS_CardinalityType DEF PollerServes
  <2>2. IsFiniteSet(Inside') /\ Cardinality(Inside') = Cardinality(Inside) - 1
    BY <1>4, <2>1, FS_RemoveElement
  <2> QED BY <1>1, <2>1, <2>2
<1>6. OnlyLeavingAnswered'
  BY <1>1, <1>3 DEF OnlyLeavingAnswered
<1>7. StoreSound'
  BY <1>2 DEF StoreSound
<1>8. wait' \in [Waits -> WaitRecords]
  BY <1>1, <1>3 DEF ProbeShape
<1>9. stop # 0 /\ stop \in Generations
  BY <1>4, InsideIsServed
<1>10. CASE waiters' = 0
  <2>1. poller' = [poller EXCEPT ![stop].ctxDone = TRUE] /\ stop' = 0 /\ since' = 0
    BY <1>9, <1>10 DEF Leave, LastOut
  <2>2. \A v \in Waits : wait'[v].result # "nil"
    <3>1. Inside' = {}
      BY <1>5, <1>10, FS_EmptySet
    <3> QED BY <1>6, <3>1 DEF OnlyLeavingAnswered, Inside
  <2>3. /\ poller'[stop].ctxDone /\ poller'[stop].read = poller[stop].read
        /\ poller'[stop].pc = poller[stop].pc
        /\ \A h \in Generations : h # stop => poller'[h] = poller[h]
        /\ poller' \in [Generations -> PollerRecords]
    <3>1. poller[stop] \in PollerRecords /\ poller \in [Generations -> PollerRecords]
      BY <1>9 DEF ProbeShape
    <3>2. poller' = [poller EXCEPT ![stop] = [poller[stop] EXCEPT !.ctxDone = TRUE]]
      BY <1>9, <2>1, <3>1
    <3>3. [poller[stop] EXCEPT !.ctxDone = TRUE] \in PollerRecords
      BY <3>1 DEF PollerRecords
    <3> QED BY <1>9, <3>1, <3>2, <3>3 DEF PollerRecords
  <2>4. ProbeShape'
    BY <1>1, <1>8, <2>1, <2>3 DEF ProbeShape
  <2>5. PollerServes'
    BY <1>5, <1>10, <2>1 DEF PollerServes
  <2>6. ReadSinceStart'
    BY <1>1, <1>2, <1>9, <2>1, <2>3 DEF ReadSinceStart, Generations
  <2>7. AnswerIsCurrent'
    BY <2>2 DEF AnswerIsCurrent
  <2> QED BY <1>6, <1>7, <2>4, <2>5, <2>6, <2>7
<1>11. CASE waiters' # 0
  <2>1. UNCHANGED <<poller, stop, since>>
    BY <1>11 DEF Leave, LastOut
  <2>2. ProbeShape' /\ ReadSinceStart'
    BY <1>1, <1>2, <1>8, <2>1 DEF ProbeShape, ReadSinceStart
  <2>3. PollerServes'
    BY <1>2, <1>5, <1>9, <1>11, <2>1 DEF PollerServes
  <2>4. AnswerIsCurrent'
    BY <1>2, <1>3, <2>1 DEF AnswerIsCurrent
  <2> QED BY <1>6, <1>7, <2>2, <2>3, <2>4
<1> QED BY <1>10, <1>11

\* A step of a poller that publishes nothing: it reads, or is gone.
LEMMA PollerMoves ==
    ASSUME ProbeInv, NEW g \in Generations, NEW r \in PollerRecords,
           poller[g].pc # "new", poller' = [poller EXCEPT ![g] = r],
           UNCHANGED <<history, wait, waiters, stop, since, statuses>>,
           r.pc # "new", r.ctxDone \/ r.ctxDone = poller[g].ctxDone,
           r.read \in {0, Now}
    PROVE  ProbeInv'
<1> USE StatusesAssumption DEF ProbeInv
<1>1. /\ poller'[g] = r /\ \A h \in Generations : h # g => poller'[h] = poller[h]
      /\ poller' \in [Generations -> PollerRecords]
  BY DEF ProbeShape
<1>2. Now' = Now /\ Now \in Nat
  BY DEF Now, StoreSound
<1>3. StoreSound' /\ ProbeShape' /\ PollerServes' /\ OnlyLeavingAnswered' /\ AnswerIsCurrent'
  BY <1>1, <1>2 DEF StoreSound, ProbeShape, PollerServes, OnlyLeavingAnswered,
                    AnswerIsCurrent, Inside
<1>4. stop # 0 => since <= Now
  BY DEF PollerServes
<1>5. g # 0
  BY DEF Generations
<1>6. ReadSinceStart'
  BY <1>1, <1>2, <1>4, <1>5 DEF ReadSinceStart
<1> QED BY <1>3, <1>6

LEMMA PollStepKeeps ==
    ASSUME ProbeInv, NEW g \in Generations, Quit(g) \/ Read(g) \/ ReadFails(g),
           UNCHANGED history
    PROVE  ProbeInv'
<1> USE DEF ProbeInv
<1>1. poller[g] \in PollerRecords /\ poller[g].pc # "new" /\ Now \in Nat
  BY DEF ProbeShape, Quit, Read, ReadFails, StoreSound
<1>2. UNCHANGED <<wait, waiters, stop, since, statuses>>
  BY DEF Quit, Read, ReadFails
<1>3. CASE Quit(g)
  <2>1. /\ Gone \in PollerRecords /\ Gone.pc # "new" /\ Gone.ctxDone /\ Gone.read = 0
        /\ poller' = [poller EXCEPT ![g] = Gone]
    BY <1>3 DEF Quit, Gone, PollerRecords
  <2> QED BY <1>1, <1>2, <2>1, PollerMoves
<1>4. ASSUME NEW m \in {0, Now},
             poller' = [poller EXCEPT ![g].pc = "read", ![g].read = m]
      PROVE  ProbeInv'
  <2> DEFINE r == [poller[g] EXCEPT !.pc = "read", !.read = m]
  <2>0. m \in Nat
    BY <1>1
  <2>1. /\ r \in PollerRecords /\ r.pc = "read" /\ r.read = m
        /\ r.ctxDone = poller[g].ctxDone
    BY <1>1, <2>0 DEF PollerRecords
  <2>2. poller' = [poller EXCEPT ![g] = r]
    BY <1>4 DEF ProbeShape
  <2> HIDE DEF r
  <2> QED BY <1>1, <1>2, <2>1, <2>2, PollerMoves
<1> QED BY <1>3, <1>4 DEF Read, ReadFails

LEMMA PublishStep ==
    ASSUME ProbeInv, NEW g \in Generations, Publish(g), UNCHANGED history
    PROVE  ProbeInv'
<1> USE StatusesAssumption DEF ProbeInv
<1>1. /\ poller[g] \in PollerRecords /\ poller[g].pc = "read" /\ Now \in Nat
      /\ UNCHANGED <<waiters, stop, since>>
  BY DEF ProbeShape, Publish, StoreSound
<1>2. CASE StoppedMidRead(g)
  <2>1. /\ Gone \in PollerRecords /\ Gone.pc # "new" /\ Gone.ctxDone /\ Gone.read = 0
        /\ poller' = [poller EXCEPT ![g] = Gone] /\ UNCHANGED <<statuses, wait>>
    BY <1>2 DEF Publish, Gone, PollerRecords
  <2> QED BY <1>1, <2>1, PollerMoves
<1>3. CASE ~StoppedMidRead(g)
  <2>1. /\ statuses' = IF poller[g].read = 0 THEN statuses ELSE poller[g].read
        /\ wait' = [w \in Waits |->
               IF wait[w].pc = "waiting" THEN [wait[w] EXCEPT !.woken = TRUE] ELSE wait[w]]
        /\ poller' = [poller EXCEPT ![g].pc = "timer", ![g].read = 0]
    BY <1>3 DEF Publish
  <2>2. g = stop
    BY <1>1, <1>3 DEF ReadSinceStart, StoppedMidRead
  <2>3. \A w \in Waits : /\ wait'[w] \in WaitRecords /\ wait'[w].pc = wait[w].pc
                         /\ wait'[w].result = wait[w].result
                         /\ wait'[w].position = wait[w].position
    <3> SUFFICES ASSUME NEW w \in Waits
                 PROVE  /\ wait'[w] \in WaitRecords /\ wait'[w].pc = wait[w].pc
                        /\ wait'[w].result = wait[w].result
                        /\ wait'[w].position = wait[w].position
      OBVIOUS
    <3>1. wait[w] \in WaitRecords
      BY DEF ProbeShape
    <3>2. wait'[w] = wait[w] \/ wait'[w] = [wait[w] EXCEPT !.woken = TRUE]
      BY <2>1
    <3> QED BY <3>1, <3>2 DEF WaitRecords
  <2>4. Inside' = Inside
    BY <2>3 DEF Inside
  <2>5. /\ poller'[g].pc = "timer" /\ poller'[g].read = 0
        /\ poller'[g].ctxDone = poller[g].ctxDone
        /\ \A h \in Generations : h # g => poller'[h] = poller[h]
        /\ poller' \in [Generations -> PollerRecords]
    <3>1. poller \in [Generations -> PollerRecords]
      BY DEF ProbeShape
    <3>2. poller' = [poller EXCEPT ![g] = [poller[g] EXCEPT !.pc = "timer", !.read = 0]]
      BY <2>1, <3>1
    <3>3. [poller[g] EXCEPT !.pc = "timer", !.read = 0] \in PollerRecords
      BY <1>1 DEF PollerRecords
    <3> QED BY <1>1, <3>1, <3>2, <3>3 DEF PollerRecords
  <2>6. Now' = Now /\ StoreSound'
    BY DEF Now, StoreSound
  <2>7. poller[g].read \in Nat /\ statuses' \in Nat
    BY <1>1, <2>1 DEF PollerRecords, ProbeShape
  <2>8. ProbeShape'
    <3>1. wait' \in [Waits -> WaitRecords]
      BY <2>1, <2>3
    <3> QED BY <1>1, <2>5, <2>7, <3>1 DEF ProbeShape
  <2>9. PollerServes' /\ OnlyLeavingAnswered' /\ AnswerIsCurrent'
    BY <1>1, <2>3, <2>4, <2>6 DEF PollerServes, OnlyLeavingAnswered, AnswerIsCurrent
  <2>10. ReadSinceStart'
    <3>1. statuses' <= Now /\ (stop # 0 /\ statuses' # 0 => since <= statuses')
      BY <2>1, <2>2 DEF ReadSinceStart
    <3> QED BY <1>1, <2>2, <2>5, <2>6, <3>1 DEF ReadSinceStart
  <2> QED BY <2>6, <2>8, <2>9, <2>10
<1> QED BY <1>2, <1>3

LEMMA ProbeStep ==
    ASSUME ProbeInv, ProbeNext, UNCHANGED history
    PROVE  ProbeInv'
BY JoinStep, CheckStep, WakeStep, LeaveStep, PollStepKeeps, PublishStep
   DEF ProbeNext, WaitStep, PollStep

-----------------------------------------------------------------------------
(***************************************************************************)
(* The steps of the hub.                                                     *)
(***************************************************************************)

\* The store and the arithmetic of its moments.
LEMMA MomentFacts ==
    ASSUME HubInv, UNCHANGED history
    PROVE  /\ StoreSound' /\ Now' = Now /\ Now \in Nat /\ Now >= 1
           /\ Unreadable \in Nat /\ Now < Unreadable /\ NoSnapshot = 0
           /\ running # 0 => began \in Nat /\ began <= Now
BY StatusesAssumption DEF HubInv, StoreSound, Now, Unreadable, NoSnapshot, ReaderServes

LEMMA SubscribeStep ==
    ASSUME HubInv, NEW p \in Pages, subscribe(p), UNCHANGED history
    PROVE  HubInv'
<1> USE StatusesAssumption DEF HubInv
<1>1. /\ page[p].pc = "idle" /\ UNCHANGED <<latest, nudge>>
      /\ page' = [page EXCEPT ![p].pc = "open", ![p].ch = latest]
  BY DEF subscribe
<1>2. /\ StoreSound' /\ Now' = Now /\ Now \in Nat /\ Now >= 1
      /\ Unreadable \in Nat /\ Now < Unreadable /\ NoSnapshot = 0
      /\ running # 0 => began \in Nat /\ began <= Now
  BY MomentFacts
<1>3. /\ page'[p].pc = "open" /\ page'[p].ch = latest /\ page'[p].shown = page[p].shown
      /\ page'[p].backwards = page[p].backwards
      /\ \A q \in Pages : q # p => page'[q] = page[q]
      /\ page' \in [Pages -> PageRecords]
  <2>1. page[p] \in PageRecords /\ page \in [Pages -> PageRecords] /\ latest \in Nat
    BY DEF HubShape
  <2>2. page' = [page EXCEPT ![p] = [page[p] EXCEPT !.pc = "open", !.ch = latest]]
    BY <1>1, <2>1
  <2>3. [page[p] EXCEPT !.pc = "open", !.ch = latest] \in PageRecords
    BY <2>1 DEF PageRecords
  <2> QED BY <2>1, <2>2, <2>3 DEF PageRecords
<1>4. page[p].shown = 0
  BY <1>1 DEF ReaderServes
<1>5. \A q \in Pages : ~page'[q].backwards
  BY <1>3
<1>6. CASE running = 0
  <2>1. PICK g \in Generations :
           /\ reader[g].pc = "new" /\ reader' = [reader EXCEPT ![g].pc = "timer"]
           /\ running' = g /\ began' = Now
    BY <1>6 DEF subscribe
  <2>2. /\ reader'[g].pc = "timer" /\ reader'[g].snap = reader[g].snap
        /\ \A h \in Generations : h # g => reader'[h] = reader[h]
        /\ reader' \in [Generations -> ReaderRecords]
    <3>1. reader[g] \in ReaderRecords /\ reader \in [Generations -> ReaderRecords]
      BY DEF HubShape
    <3>2. reader' = [reader EXCEPT ![g] = [reader[g] EXCEPT !.pc = "timer"]]
      BY <2>1, <3>1
    <3>3. [reader[g] EXCEPT !.pc = "timer"] \in ReaderRecords
      BY <3>1 DEF ReaderRecords
    <3> QED BY <3>1, <3>2, <3>3 DEF ReaderRecords
  <2>3. g \in Nat \ {0} /\ \A h \in Generations : h # 0
    BY DEF Generations
  <2>4. latest = NoSnapshot /\ \A q \in Pages : page[q].ch = 0 /\ page[q].shown = 0
    BY <1>6 DEF ReaderServes
  <2>5. HubShape'
    BY <1>1, <1>2, <1>3, <2>1, <2>2, <2>3 DEF HubShape
  <2>6. ReaderServes'
    <3>1. \A h \in Generations :
             /\ reader'[h].pc # "new" /\ ~reader'[h].ctxDone => h = g
             /\ reader'[h].pc \in {"new", "timer"} => reader'[h].snap = NoSnapshot
      BY <1>6, <2>1, <2>2, <2>3 DEF ReaderServes
    <3>2. \A q \in Pages : page'[q].pc # "open" => page'[q].ch = 0 /\ page'[q].shown = 0
      BY <1>3 DEF ReaderServes
    <3> QED BY <1>2, <2>1, <2>3, <3>1, <3>2 DEF ReaderServes
  <2>7. MomentsInOrder'
    <3>1. \A q \in Pages : page'[q].ch = 0 /\ page'[q].shown = 0
      BY <1>2, <1>3, <1>4, <2>4
    <3>2. latest' = NoSnapshot /\ reader'[g].pc = "timer"
      BY <1>1, <2>2, <2>4
    <3> QED BY <1>2, <2>1, <3>1, <3>2 DEF MomentsInOrder
  <2> QED BY <1>2, <1>5, <2>5, <2>6, <2>7
<1>7. CASE running # 0
  <2>1. UNCHANGED <<reader, running, began>>
    BY <1>7 DEF subscribe
  <2>2. HubShape' /\ ReaderServes'
    BY <1>1, <1>2, <1>3, <1>7, <2>1 DEF HubShape, ReaderServes
  <2>4. MomentsInOrder'
    <3>1. latest \in Nat /\ reader \in [Generations -> ReaderRecords]
          /\ page \in [Pages -> PageRecords]
      BY DEF HubShape
    <3>2. ASSUME NEW q \in Pages
          PROVE  /\ page'[q].shown # 0 => began <= page'[q].shown
                 /\ page'[q].shown <= Now
                 /\ page'[q].ch # NoSnapshot =>
                      Snapshot(page'[q].ch, began, Now) /\ page'[q].shown <= page'[q].ch
      <4>1. CASE q = p
        BY <1>2, <1>3, <1>4, <3>1, <4>1 DEF MomentsInOrder
      <4>2. CASE q # p
        BY <1>3, <4>2 DEF MomentsInOrder
      <4> QED BY <4>1, <4>2
    <3>3. latest # NoSnapshot => Snapshot(latest, began, Now)
      BY DEF MomentsInOrder
    <3>4. ASSUME NEW g \in Generations, g = running, reader[g].pc = "read"
          PROVE  /\ Snapshot(reader[g].snap, began, Now)
                 /\ latest = Unreadable \/ latest <= reader[g].snap
                 /\ \A q \in Pages :
                       /\ page'[q].shown <= reader[g].snap
                       /\ page'[q].ch = Unreadable \/ page'[q].ch <= reader[g].snap
      BY <1>3, <3>4 DEF MomentsInOrder
    <3> QED BY <1>1, <1>2, <2>1, <3>2, <3>3, <3>4 DEF MomentsInOrder
  <2> QED BY <1>2, <1>5, <2>2, <2>4
<1> QED BY <1>6, <1>7

LEMMA UnsubscribeStep ==
    ASSUME HubInv, NEW p \in Pages, unsubscribe(p), UNCHANGED history
    PROVE  HubInv'
<1> USE StatusesAssumption DEF HubInv
<1>1. /\ page[p].pc = "open"
      /\ page' = [page EXCEPT ![p] = [page[p] EXCEPT !.pc = "closed", !.ch = NoSnapshot,
                                                     !.shown = 0]]
  BY DEF unsubscribe, HubShape
<1>2. /\ StoreSound' /\ Now' = Now /\ Now \in Nat /\ Now >= 1
      /\ Unreadable \in Nat /\ Now < Unreadable /\ NoSnapshot = 0
      /\ running # 0 => began \in Nat /\ began <= Now
  BY MomentFacts
<1>3. /\ page'[p].pc = "closed" /\ page'[p].ch = 0 /\ page'[p].shown = 0
      /\ page'[p].backwards = page[p].backwards
      /\ \A q \in Pages : q # p => page'[q] = page[q]
      /\ page' \in [Pages -> PageRecords]
  <2>1. page[p] \in PageRecords /\ page \in [Pages -> PageRecords]
    BY DEF HubShape
  <2>2. [page[p] EXCEPT !.pc = "closed", !.ch = NoSnapshot, !.shown = 0] \in PageRecords
    BY <1>2, <2>1 DEF PageRecords
  <2> QED BY <1>1, <1>2, <2>1, <2>2 DEF PageRecords
<1>4. \A q \in Pages : ~page'[q].backwards
  BY <1>3
<1>5. running # 0 /\ running \in Generations
  BY <1>1 DEF ReaderServes
<1>6. \A q \in Pages : page'[q].pc # "open" => page'[q].ch = 0 /\ page'[q].shown = 0
  BY <1>3 DEF ReaderServes
<1>7. CASE Open = {p}
  <2>1. /\ reader' = [reader EXCEPT ![running].ctxDone = TRUE]
        /\ running' = 0 /\ began' = 0 /\ latest' = NoSnapshot
    BY <1>7 DEF unsubscribe
  <2>2. \A q \in Pages : page'[q].pc # "open" /\ page'[q].ch = 0 /\ page'[q].shown = 0
    BY <1>3, <1>6, <1>7 DEF Open
  <2>3. /\ reader'[running].ctxDone /\ reader'[running].snap = reader[running].snap
        /\ reader'[running].pc = reader[running].pc
        /\ \A h \in Generations : h # running => reader'[h] = reader[h]
        /\ reader' \in [Generations -> ReaderRecords]
    <3>1. reader[running] \in ReaderRecords /\ reader \in [Generations -> ReaderRecords]
      BY <1>5 DEF HubShape
    <3>2. reader' = [reader EXCEPT ![running] = [reader[running] EXCEPT !.ctxDone = TRUE]]
      BY <1>5, <2>1, <3>1
    <3>3. [reader[running] EXCEPT !.ctxDone = TRUE] \in ReaderRecords
      BY <3>1 DEF ReaderRecords
    <3> QED BY <1>5, <3>1, <3>2, <3>3 DEF ReaderRecords
  <2>4. HubShape'
    BY <1>2, <1>3, <2>1, <2>3 DEF HubShape
  <2>5. ReaderServes'
    <3>1. \A h \in Generations :
             /\ ~(reader'[h].pc # "new" /\ ~reader'[h].ctxDone)
             /\ reader'[h].pc \in {"new", "timer"} => reader'[h].snap = NoSnapshot
      BY <1>5, <2>3 DEF ReaderServes
    <3> QED BY <2>1, <2>2, <3>1 DEF ReaderServes
  <2>6. MomentsInOrder'
    <3>1. \A g \in Generations : g # 0
      BY DEF Generations
    <3> QED BY <1>2, <2>1, <2>2, <3>1 DEF MomentsInOrder
  <2> QED BY <1>2, <1>4, <2>4, <2>5, <2>6
<1>8. CASE Open # {p}
  <2>1. UNCHANGED <<reader, running, began, latest>>
    BY <1>8 DEF unsubscribe
  <2>2. HubShape' /\ ReaderServes'
    BY <1>2, <1>3, <1>5, <1>6, <2>1 DEF HubShape, ReaderServes
  <2>3. MomentsInOrder'
    <3>1. \A g \in Generations : reader[g].snap \in Nat
      BY DEF HubShape, ReaderRecords
    <3> QED BY <1>2, <1>3, <2>1, <3>1 DEF MomentsInOrder
  <2> QED BY <1>2, <1>4, <2>2, <2>3
<1> QED BY <1>7, <1>8

LEMMA ShowStep ==
    ASSUME HubInv, NEW p \in Pages, Show(p), UNCHANGED history
    PROVE  HubInv'
<1> USE StatusesAssumption DEF HubInv
<1>1. /\ page[p].pc = "open" /\ page[p].ch # NoSnapshot
      /\ UNCHANGED <<running, began, latest, nudge, reader>>
  BY DEF Show
<1>2. /\ StoreSound' /\ Now' = Now /\ Now \in Nat /\ Now >= 1
      /\ Unreadable \in Nat /\ Now < Unreadable /\ NoSnapshot = 0
      /\ running # 0 => began \in Nat /\ began <= Now
  BY MomentFacts
<1> DEFINE n == IF page[p].ch = Unreadable THEN page[p].shown ELSE page[p].ch
<1>3. page[p] \in PageRecords /\ page[p].ch \in Nat /\ page[p].shown \in Nat
  BY DEF HubShape, PageRecords
<1>4. ~page[p].backwards /\ ~(page[p].ch < page[p].shown)
  BY <1>1, <1>3 DEF MomentsInOrder
<1>5. /\ n \in Nat /\ n # 0 => began <= n
      /\ n <= Now
      /\ \A g \in Generations : g = running /\ reader[g].pc = "read" => n <= reader[g].snap
  BY <1>1, <1>3 DEF MomentsInOrder, Snapshot
<1>6. page' = [page EXCEPT ![p] = [page[p] EXCEPT !.ch = NoSnapshot, !.backwards = FALSE,
                                                  !.shown = n]]
  <2> DEFINE b == page[p].backwards \/ page[p].ch < page[p].shown
  <2>1. b = FALSE
    BY <1>4
  <2>2. page' = [page EXCEPT ![p] = [page[p] EXCEPT !.ch = NoSnapshot, !.backwards = b,
                                                    !.shown = n]]
    BY DEF Show
  <2> QED BY <2>1, <2>2
<1>7. n \in Nat
  BY <1>3
<1> HIDE DEF n
<1>8. /\ page'[p].pc = "open" /\ page'[p].ch = 0 /\ page'[p].shown = n /\ ~page'[p].backwards
      /\ \A q \in Pages : q # p => page'[q] = page[q]
      /\ page' \in [Pages -> PageRecords]
  <2>1. page \in [Pages -> PageRecords]
    BY DEF HubShape
  <2>2. /\ [page[p] EXCEPT !.ch = NoSnapshot, !.backwards = FALSE, !.shown = n] \in PageRecords
    BY <1>2, <1>3, <1>7 DEF PageRecords
  <2> QED BY <1>1, <1>2, <1>3, <1>6, <2>1, <2>2 DEF PageRecords
<1>9. HubShape' /\ ReaderServes'
  BY <1>1, <1>2, <1>8 DEF HubShape, ReaderServes
<1>10. MomentsInOrder'
  <2>1. \A g \in Generations : reader[g].snap \in Nat
    BY DEF HubShape, ReaderRecords
  <2> QED BY <1>1, <1>2, <1>5, <1>7, <1>8, <2>1 DEF MomentsInOrder
<1> QED BY <1>2, <1>8, <1>9, <1>10

\* A step of a reader that sends nothing.
LEMMA ReaderMoves ==
    ASSUME HubInv, NEW g \in Generations, NEW r \in ReaderRecords,
           reader[g].pc # "new", reader' = [reader EXCEPT ![g] = r],
           UNCHANGED <<history, page, running, began, latest>>,
           r.pc # "new", r.ctxDone = reader[g].ctxDone,
           r.pc = "timer" => r.snap = NoSnapshot,
           r.pc = "read" => r.snap \in {Now, Unreadable}
    PROVE  HubInv'
<1> USE StatusesAssumption DEF HubInv
<1>1. /\ reader'[g] = r /\ \A h \in Generations : h # g => reader'[h] = reader[h]
      /\ reader' \in [Generations -> ReaderRecords]
  BY DEF HubShape
<1>2. /\ StoreSound' /\ Now' = Now /\ Now \in Nat /\ Now >= 1
      /\ Unreadable \in Nat /\ Now < Unreadable /\ NoSnapshot = 0
      /\ running # 0 => began \in Nat /\ began <= Now
  BY MomentFacts
<1>3. HubShape' /\ ReaderServes'
  BY <1>1, <1>2 DEF HubShape, ReaderServes
<1>4. MomentsInOrder'
  <2>1. ASSUME g = running, r.pc = "read"
        PROVE  /\ Snapshot(r.snap, began, Now)
               /\ latest = Unreadable \/ latest <= r.snap
               /\ \A q \in Pages :
                     /\ page[q].shown <= r.snap
                     /\ page[q].ch = Unreadable \/ page[q].ch <= r.snap
    <3>1. began \in Nat /\ began <= Now /\ latest \in Nat
      BY <1>2, <2>1 DEF Generations, HubShape
    <3>2. r.snap \in Nat /\ Now <= r.snap /\ Snapshot(r.snap, began, Now)
      BY <1>2, <2>1, <3>1 DEF Snapshot
    <3>3. latest = Unreadable \/ latest <= Now
      BY <1>2 DEF MomentsInOrder, Snapshot
    <3>4. \A q \in Pages : /\ page[q].shown \in Nat /\ page[q].ch \in Nat
                           /\ page[q].shown <= Now
                           /\ page[q].ch = Unreadable \/ page[q].ch <= Now
      BY <1>2 DEF MomentsInOrder, Snapshot, HubShape, PageRecords
    <3> QED BY <1>2, <3>1, <3>2, <3>3, <3>4
  <2> QED BY <1>1, <1>2, <2>1 DEF MomentsInOrder
<1> QED BY <1>2, <1>3, <1>4

LEMMA ReaderStepKeeps ==
    ASSUME HubInv, NEW g \in Generations, UNCHANGED history,
           Exit(g) \/ HubRead(g, Now) \/ HubRead(g, Unreadable)
    PROVE  HubInv'
<1> USE DEF HubInv
<1>1. reader[g] \in ReaderRecords /\ reader[g].pc = "timer"
  BY DEF HubShape, Exit, HubRead
<1>2. UNCHANGED <<page, running, began, latest>>
  BY DEF Exit, HubRead
<1>3. CASE Exit(g)
  <2> DEFINE r == [reader[g] EXCEPT !.pc = "gone"]
  <2>1. r \in ReaderRecords /\ r.pc = "gone" /\ r.ctxDone = reader[g].ctxDone
    BY <1>1 DEF ReaderRecords
  <2>2. reader' = [reader EXCEPT ![g] = r]
    BY <1>3 DEF Exit, HubShape
  <2> HIDE DEF r
  <2> QED BY <1>1, <1>2, <2>1, <2>2, ReaderMoves
<1>4. ASSUME NEW m \in {Now, Unreadable}, HubRead(g, m) PROVE HubInv'
  <2> DEFINE r == [reader[g] EXCEPT !.pc = "read", !.snap = m]
  <2>1. m \in Nat
    BY MomentFacts
  <2>2. r \in ReaderRecords /\ r.pc = "read" /\ r.snap = m /\ r.ctxDone = reader[g].ctxDone
    BY <1>1, <2>1 DEF ReaderRecords
  <2>3. reader' = [reader EXCEPT ![g] = r]
    BY <1>4 DEF HubRead, HubShape
  <2> HIDE DEF r
  <2> QED BY <1>1, <1>2, <2>2, <2>3, ReaderMoves
<1> QED BY <1>3, <1>4

LEMMA HubPublishStep ==
    ASSUME HubInv, NEW g \in Generations, publish(g), UNCHANGED history
    PROVE  HubInv'
<1> USE StatusesAssumption DEF HubInv
<1>1. /\ reader[g] \in ReaderRecords /\ reader[g].pc = "read" /\ reader[g].snap \in Nat
      /\ UNCHANGED <<running, began>>
  BY DEF HubShape, ReaderRecords, publish
<1>2. /\ StoreSound' /\ Now' = Now /\ Now \in Nat /\ Now >= 1
      /\ Unreadable \in Nat /\ Now < Unreadable /\ NoSnapshot = 0
      /\ running # 0 => began \in Nat /\ began <= Now
  BY MomentFacts
<1> DEFINE r == [reader[g] EXCEPT !.pc = "timer", !.snap = NoSnapshot]
<1>3. r \in ReaderRecords /\ r.pc = "timer" /\ r.snap = 0 /\ r.ctxDone = reader[g].ctxDone
  BY <1>1, <1>2 DEF ReaderRecords
<1>4. reader' = [reader EXCEPT ![g] = r]
  BY DEF publish, HubShape
<1> HIDE DEF r
<1>5. CASE ReaderStopped(g)
  <2>1. UNCHANGED <<latest, page>>
    BY <1>5 DEF publish
  <2> QED BY <1>1, <1>2, <1>3, <1>4, <2>1, ReaderMoves
<1>6. CASE ~ReaderStopped(g)
  <2> DEFINE m == reader[g].snap
  <2>1. /\ latest' = m
        /\ page' = [p \in Pages |-> IF p \in Open THEN [page[p] EXCEPT !.ch = m] ELSE page[p]]
    BY <1>6 DEF publish
  <2>2. g = running
    BY <1>1, <1>6 DEF ReaderServes, ReaderStopped
  <2>3. Snapshot(m, began, Now) /\ \A p \in Pages : page[p].shown <= m
    BY <1>1, <2>2 DEF MomentsInOrder
  <2>4. m \in Nat
    BY <1>1
  <2> HIDE DEF m
  <2>5. ASSUME NEW p \in Pages
        PROVE  /\ page'[p] \in PageRecords /\ page'[p].pc = page[p].pc
               /\ page'[p].shown = page[p].shown /\ page'[p].backwards = page[p].backwards
               /\ page'[p].ch = IF page[p].pc = "open" THEN m ELSE page[p].ch
    <3>1. page[p] \in PageRecords
      BY DEF HubShape
    <3>2. CASE page[p].pc = "open"
      <4>1. page'[p] = [page[p] EXCEPT !.ch = m]
        BY <2>1, <3>2 DEF Open
      <4> QED BY <2>4, <3>1, <3>2, <4>1 DEF PageRecords
    <3>3. CASE page[p].pc # "open"
      BY <2>1, <3>1, <3>3 DEF Open
    <3> QED BY <3>2, <3>3
  <2>6. /\ reader'[g] = r /\ \A h \in Generations : h # g => reader'[h] = reader[h]
        /\ reader' \in [Generations -> ReaderRecords]
    BY <1>3, <1>4 DEF HubShape
  <2>7. HubShape'
    <3>1. page' \in [Pages -> PageRecords]
      BY <2>1, <2>5
    <3> QED BY <1>1, <2>1, <2>4, <2>6, <3>1 DEF HubShape
  <2>8. ReaderServes'
    <3>1. running # 0
      BY <2>2 DEF Generations
    <3> QED BY <1>1, <1>2, <1>3, <2>5, <2>6, <3>1 DEF ReaderServes
  <2>9. MomentsInOrder'
    <3>1. \A h \in Generations : ~(h = running' /\ reader'[h].pc = "read")
      BY <1>1, <1>3, <2>2, <2>6
    <3>2. \A p \in Pages :
             /\ page'[p].shown # 0 => began <= page'[p].shown
             /\ page'[p].shown <= Now
             /\ page'[p].ch # NoSnapshot =>
                  Snapshot(page'[p].ch, began, Now) /\ page'[p].shown <= page'[p].ch
      BY <2>3, <2>5 DEF MomentsInOrder
    <3> QED BY <1>1, <1>2, <2>1, <2>3, <3>1, <3>2 DEF MomentsInOrder
  <2> QED BY <1>2, <2>5, <2>7, <2>8, <2>9
<1> QED BY <1>5, <1>6

LEMMA HubStep ==
    ASSUME HubInv, HubNext, UNCHANGED history
    PROVE  HubInv'
<1>1. CASE poke \/ \E g \in Generations : NudgedTooSoon(g)
  <2>1. UNCHANGED <<history, page, running, began, latest, reader>>
    BY <1>1 DEF poke, NudgedTooSoon
  <2>2. Now' = Now
    BY <2>1 DEF Now
  <2> QED BY <2>1, <2>2 DEF HubInv, StoreSound, HubShape, ReaderServes, MomentsInOrder
<1> QED BY <1>1, SubscribeStep, UnsubscribeStep, ShowStep, ReaderStepKeeps, HubPublishStep
        DEF HubNext, ReaderStep

-----------------------------------------------------------------------------
LEMMA NextIInv == IInv /\ [Next]_vars => IInv'
<1> SUFFICES ASSUME IInv, [Next]_vars PROVE IInv'
  OBVIOUS
<1>1. ASSUME ProbeInv, UNCHANGED <<history, probeVars>> PROVE ProbeInv'
  <2>1. UNCHANGED <<history, wait, waiters, stop, since, statuses, poller>> /\ Now' = Now
    BY <1>1 DEF probeVars, Now
  <2> QED BY <1>1, <2>1 DEF ProbeInv, StoreSound, ProbeShape, PollerServes, Inside,
                            ReadSinceStart, OnlyLeavingAnswered, AnswerIsCurrent
<1>2. ASSUME HubInv, UNCHANGED <<history, hubVars>> PROVE HubInv'
  <2>1. UNCHANGED <<history, page, running, began, latest, reader>> /\ Now' = Now
    BY <1>2 DEF hubVars, Now
  <2> QED BY <1>2, <2>1 DEF HubInv, StoreSound, HubShape, ReaderServes, MomentsInOrder
<1>3. CASE StoreNext /\ UNCHANGED <<probeVars, hubVars>>
  BY <1>3, StoreStep
<1>4. CASE ProbeNext /\ UNCHANGED <<history, hubVars>>
  BY <1>2, <1>4, ProbeStep DEF IInv
<1>5. CASE HubNext /\ UNCHANGED <<history, probeVars>>
  BY <1>1, <1>5, HubStep DEF IInv
<1>6. CASE UNCHANGED vars
  BY <1>1, <1>2, <1>6 DEF IInv, vars
<1> QED BY <1>3, <1>4, <1>5, <1>6 DEF Next

\* The invariant the next theorem rests on.
THEOREM Inductive == Spec => []IInv
BY InitIInv, NextIInv, PTL DEF Spec

\* WaitUntil of projection/probe.go answers of a moment since its poller was
\* started, and a page of dashboard/hub.go never goes back in time, however
\* stopped readers that still run interleave with those started after them.
THEOREM NeverStale == Spec => []NothingStale
<1>1. IInv => NothingStale
  BY DEF IInv, ProbeInv, HubInv, MomentsInOrder, NothingStale, PagesGoForward
<1> QED BY <1>1, Inductive, PTL

=============================================================================
