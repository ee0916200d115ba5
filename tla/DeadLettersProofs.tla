-------------------------- MODULE DeadLettersProofs --------------------------
(***************************************************************************)
(* Theorems about DeadLetters, for any number of instances, segments,        *)
(* events, streams and requests, and any failures, takeovers and rebuilds.   *)
(***************************************************************************)
EXTENDS DeadLetters, FiniteSetTheorems, WellFoundedInduction, TLAPS

Positions == 0 .. Last

PCs == {"claim", "load", "top", "read", "one", "take", "replay", "finish", "finishing", "drop"}

States == [Segments -> {"none", "pending", "ok", "failed"}]

\* The letters of a stream in segment s.
LettersOf(s, stream) == {e \in letters[s] : StreamOf[e] = stream}

StoreTypes ==
    /\ StoreTypeOK
    /\ \A s \in Segments : rows[s].pos \in Positions
    /\ setup \in Setups
    /\ bad \subseteq Events
    /\ applied \in [Events -> Nat]
    /\ letters \in [Segments -> SUBSET Events]
    /\ replayUntil \in [Segments -> Positions]

LoopTypes ==
    /\ pc \in [Instances -> [Segments -> PCs]]
    /\ cp \in [Instances -> [Segments -> Positions]]
    /\ to \in [Instances -> [Segments -> Positions]]
    /\ epoch \in [Instances -> [Segments -> Nat]]
    /\ parked \in [Instances -> [Segments -> SUBSET Streams]]
    /\ left \in [Instances -> [Segments -> SUBSET Events]]
    /\ failing \in [Instances -> [Segments -> BOOLEAN]]

RequestTypes ==
    /\ used \subseteq Numbers
    /\ DOMAIN replays \subseteq used
    /\ replays \in [DOMAIN replays -> [stream : Streams, state : States]]
    /\ serving \in [Instances -> [Segments -> SUBSET Replay]]
    /\ pending \in [Instances -> [Segments -> SUBSET Replay]]
    /\ queued \in [Instances -> SUBSET Replay]
    /\ gone \in [Instances -> [Segments -> SUBSET Numbers]]
    /\ \A i \in Instances, s \in Segments : gone[i][s] \subseteq used
    /\ found \in [Instances -> [at : {"idle", "read", "queue"}, requests : SUBSET Replay]]
    /\ caller \in [Numbers -> Instances \cup {None}]
    /\ owed \in [Numbers -> SUBSET Events]

-----------------------------------------------------------------------------

\* A claimed row has an epoch no lease lacks.  Every event up to the checkpoint
\* is applied or a letter, and a segment's letters are its own.
SegmentSound(s) ==
    /\ rows[s].owner # None => rows[s].epoch > 0
    /\ letters[s] \subseteq InSegment(s)
    /\ \A e \in InSegment(s) :
         applied[e] + (IF e \in letters[s] THEN 1 ELSE 0) = IF e <= rows[s].pos THEN 1 ELSE 0

\* What a goroutine knows while its lease is the claim: the checkpoint, the
\* streams with letters, and the letters of the stream it replays.
Knows(i, s) ==
    /\ cp[i][s] = rows[s].pos
    /\ pc[i][s] # "load" => \A e \in letters[s] : StreamOf[e] \in parked[i][s]
    /\ pc[i][s] = "replay" => left[i][s] = LettersOf(s, First(i, s).stream)
    /\ pc[i][s] \in {"finish", "finishing"} /\ ~failing[i][s] =>
          LettersOf(s, First(i, s).stream) = {}

LoopSound(i, s) ==
    /\ epoch[i][s] <= rows[s].epoch
    /\ pc[i][s] = "one" => cp[i][s] <= to[i][s]
    /\ pc[i][s] = "finishing" => Mine(i, s)
    /\ pc[i][s] # "claim" /\ Mine(i, s) => Knows(i, s)

\* An epoch is given to one instance, also when instances share an Owner.
EpochsDiffer ==
    \A i, j \in Instances, s \in Segments :
        i # j /\ epoch[i][s] = epoch[j][s] => epoch[i][s] = 0

LettersInv ==
    /\ StoreTypes /\ LoopTypes
    /\ \A s \in Segments : SegmentSound(s)
    /\ \A i \in Instances, s \in Segments : LoopSound(i, s)
    /\ EpochsDiffer
    /\ StreamInOrder

-----------------------------------------------------------------------------

\* The request r is one that was made, and for the stream it names.
Made(r) ==
    /\ r.number \in used
    /\ Known(r.number) => replays[r.number].stream = r.stream

RequestsMade ==
    /\ \A i \in Instances : \A r \in found[i].requests : Made(r)
    /\ \A i \in Instances, s \in Segments :
          /\ \A r \in serving[i][s] \cup pending[i][s] : Made(r)
          /\ pc[i][s] \in {"take", "replay", "finish", "finishing"} => serving[i][s] # {}

\* Numbers are given in order.
NumbersInOrder == \A m \in used, n \in Numbers : n < m => n \in used

\* Every segment has served the request, or will have once s has tried it.
AllServed(state) == \A t \in Segments : state[t] \in {"none", "ok"}

\* No letter is left that the call of request n is about.
NothingOwed(n) == \A t \in Segments : owed[n] \cap letters[t] = {}

\* While FinishReplay holds the row of its request nobody else changes it, and
\* the requests it deletes are ones no letter is left of.
FinishingSound(i, s) ==
    pc[i][s] = "finishing" =>
        LET n == First(i, s).number IN
        /\ setup.store = "postgres" /\ Known(n)
        /\ \A m \in gone[i][s] : NothingOwed(m)
        /\ n \in gone[i][s] <=> AllServed(Tried(n, s, ~failing[i][s])[n].state)

FinishingApart ==
    \A i, j \in Instances, s, t \in Segments :
        /\ pc[i][s] = "finishing" /\ pc[j][t] = "finishing"
        /\ First(i, s).number = First(j, t).number
        => i = j /\ s = t

\* A letter a call is about is still to be served, or was tried in vain, by the
\* call's request and by every later one of the stream.
OwedSound ==
    \A n \in Numbers :
      /\ \A e \in owed[n] :
            /\ e <= rows[setup.segmentOf[e]].pos
            /\ Known(n) => StreamOf[e] = replays[n].stream
      /\ \A s \in Segments : \A e \in owed[n] \cap letters[s] :
            /\ Known(n)
            /\ \A m \in DOMAIN replays : m >= n /\ replays[m].stream = StreamOf[e] =>
                  Rows(m)[s] \in {"pending", "failed"}

RequestsInv ==
    /\ RequestTypes
    /\ RequestsMade
    /\ NumbersInOrder
    /\ \A i \in Instances, s \in Segments : FinishingSound(i, s)
    /\ FinishingApart
    /\ OwedSound
    /\ SucceededIsDeleted

IInv == LettersInv /\ RequestsInv

-----------------------------------------------------------------------------
\* Positions and events are numbers of the log.
LEMMA LogFacts ==
    /\ Last \in Nat /\ Events = 1 .. Last /\ Positions = 0 .. Last
    /\ Events \subseteq Nat /\ Positions \subseteq Nat /\ Events \subseteq Positions
<1>1. Last \in Nat
  BY LettersAssumption, FS_CardinalityType DEF Last
<1>2. Events = 1 .. Last
  BY LettersAssumption DEF Last
<1> QED BY <1>1, <1>2 DEF Positions

\* The least of a set of numbers exists (well-founded induction).
LEMMA MinFacts ==
    ASSUME NEW S, S \subseteq Nat, S # {}
    PROVE  Min(S) \in S /\ \A k \in S : Min(S) <= k
<1>1. PICK m \in S : \A k \in S : ~(<<k, m>> \in OpToRel(<, Nat))
  BY NatLessThanWellFounded, WFMin, Zenon
<1>2. \A k \in S : ~(k < m)
  BY <1>1, Zenon DEF OpToRel
<1>3. \A k \in S : m <= k
  BY <1>2
<1> QED BY <1>3 DEF Min

\* What a setup is, as far as the proofs need it.
LEMMA SetupFacts ==
    ASSUME setup \in Setups
    PROVE  /\ setup.segmentOf \in [Events -> Segments]
           /\ setup.batch \in Nat \ {0}
           /\ setup.bad \subseteq Events
BY LettersAssumption DEF Definition

\* The value of f at instance i and segment s becomes v, and nothing else.
At(f, g, i, s, v) ==
    /\ g[i][s] = v
    /\ \A j \in Instances, t \in Segments : j # i \/ t # s => g[j][t] = f[j][t]

\* An assignment to one place of a function of instances and segments.
LEMMA AtExcept ==
    ASSUME NEW V, NEW f \in [Instances -> [Segments -> V]], NEW i \in Instances, NEW s \in Segments,
           NEW v \in V, NEW g, g = [f EXCEPT ![i][s] = v]
    PROVE  g \in [Instances -> [Segments -> V]] /\ At(f, g, i, s, v)
BY DEF At

\* The same for no assignment at all.
LEMMA AtSame ==
    ASSUME NEW V, NEW f \in [Instances -> [Segments -> V]], NEW i \in Instances, NEW s \in Segments,
           NEW g, g = f
    PROVE  g \in [Instances -> [Segments -> V]] /\ At(f, g, i, s, f[i][s])
BY DEF At

-----------------------------------------------------------------------------
\* Rows.

\* The row of s keeps its position and its claim.
RowKept(s) ==
    /\ rows'[s].pos = rows[s].pos /\ rows'[s].owner = rows[s].owner
    /\ rows'[s].epoch = rows[s].epoch

\* The checkpoint of s goes to pos and its claim stays.
Moved(s, pos) ==
    /\ rows' \in [Segments -> Row]
    /\ rows'[s].pos = pos /\ rows'[s].owner = rows[s].owner /\ rows'[s].epoch = rows[s].epoch
    /\ \A t \in Segments : t # s => RowKept(t)

\* A Commit moves the checkpoint of one row.
LEMMA CommittedAt ==
    ASSUME StoreTypes, NEW s \in Segments, NEW pos \in Nat, CommitAt(s, pos)
    PROVE  Moved(s, pos)
<1> DEFINE r == Committed(s, pos, 0)
<1>1. rows \in [Segments -> Row] /\ rows[s] \in Row
  BY DEF StoreTypes, StoreTypeOK
<1>2. /\ r \in Row /\ r.owner = rows[s].owner /\ r.epoch = rows[s].epoch /\ r.pos = pos
  BY <1>1 DEF Row, Committed
<1>3. rows' = [rows EXCEPT ![s] = r]
  BY DEF CommitAt
<1> HIDE DEF r
<1> QED BY <1>1, <1>2, <1>3 DEF Moved, RowKept

\* The claim on s goes to i, with a new epoch unless i had it.
ClaimGoes(i, s) ==
    /\ rows' \in [Segments -> Row]
    /\ rows'[s].pos = rows[s].pos /\ rows'[s].owner = Owner[i]
    /\ rows'[s].epoch = IF Mine(i, s) THEN rows[s].epoch ELSE rows[s].epoch + 1
    /\ \A t \in Segments : t # s => RowKept(t)

\* A Claim changes who owns one row.
LEMMA ClaimedAt ==
    ASSUME StoreTypes, NEW i \in Instances, NEW s \in Segments,
           rows' = [rows EXCEPT ![s] = Claimed(i, s, epoch[i][s])]
    PROVE  ClaimGoes(i, s)
<1> DEFINE r == Claimed(i, s, epoch[i][s])
<1>1. rows \in [Segments -> Row] /\ rows[s] \in Row /\ Owner[i] \in Owners
  BY StoreAssumption DEF StoreTypes, StoreTypeOK
<1>2. /\ r \in Row /\ r.pos = rows[s].pos /\ r.owner = Owner[i]
      /\ r.epoch = IF Mine(i, s) THEN rows[s].epoch ELSE rows[s].epoch + 1
  <2>1. rows[s].epoch \in Nat
    BY <1>1 DEF Row
  <2>2. PICK e \in Nat : e = IF Mine(i, s) THEN rows[s].epoch ELSE rows[s].epoch + 1
    BY <2>1
  <2>3. r = [rows[s] EXCEPT !.owner = Owner[i], !.fresh = TRUE, !.epoch = e]
    BY <1>1, <2>2 DEF Claimed, Row, Mine
  <2> QED BY <1>1, <2>2, <2>3 DEF Row
<1> HIDE DEF r
<1>3. rows' = [rows EXCEPT ![s] = r]
  BY DEF r
<1> QED BY <1>1, <1>2, <1>3 DEF ClaimGoes, RowKept

\* Every checkpoint goes back to 0 and every claim but the one on s is dropped.
AllReset(s) ==
    /\ rows' \in [Segments -> Row]
    /\ \A t \in Segments :
          /\ rows'[t].pos = 0 /\ rows'[t].epoch = rows[t].epoch
          /\ rows'[t].owner = IF t = s THEN rows[t].owner ELSE None

\* Reset of the store.
LEMMA ResetAt ==
    ASSUME StoreTypes, NEW s \in Segments, rows' = ResetRows(s, 0)
    PROVE  AllReset(s)
<1>1. rows \in [Segments -> Row]
  BY DEF StoreTypes, StoreTypeOK
<1> QED BY <1>1 DEF AllReset, ResetRows, Row

\* A claim that runs out keeps its owner and epoch until somebody else claims.
LEMMA ExpiredAt ==
    ASSUME StoreTypes, NEW s \in Segments, rows' = Expired(s)
    PROVE  rows' \in [Segments -> Row] /\ \A t \in Segments : RowKept(t)
<1>1. rows \in [Segments -> Row] /\ rows[s] \in Row
  BY DEF StoreTypes, StoreTypeOK
<1> DEFINE r == [rows[s] EXCEPT !.fresh = FALSE]
<1>2. r \in Row /\ r.pos = rows[s].pos /\ r.owner = rows[s].owner /\ r.epoch = rows[s].epoch
  BY <1>1 DEF Row
<1>3. rows' = [rows EXCEPT ![s] = r]
  BY <1>1 DEF Expired
<1> HIDE DEF r
<1> QED BY <1>1, <1>2, <1>3 DEF RowKept

-----------------------------------------------------------------------------
(***************************************************************************)
(* Goroutines.  A step of one leaves the others their local state, and what  *)
(* it changes in the store is a segment that is not their claim.             *)
(***************************************************************************)

SameLoop(j, t) ==
    /\ pc'[j][t] = pc[j][t] /\ cp'[j][t] = cp[j][t] /\ to'[j][t] = to[j][t]
    /\ parked'[j][t] = parked[j][t] /\ left'[j][t] = left[j][t]
    /\ failing'[j][t] = failing[j][t] /\ serving'[j][t] = serving[j][t]

\* The segment is as it was, or not the claim of the goroutine any more.
Kept(j, t) ==
    /\ SameLoop(j, t)
    /\ \/ epoch'[j][t] = epoch[j][t] /\ RowKept(t) /\ letters'[t] = letters[t]
       \/ ~Mine(j, t)' /\ epoch'[j][t] <= rows'[t].epoch /\ pc[j][t] # "finishing"

\* The request a goroutine serves is the first of those it has taken.
LEMMA SameFirst ==
    ASSUME NEW j, NEW t, serving'[j][t] = serving[j][t]
    PROVE  First(j, t)' = First(j, t)
BY Zenon DEF First

\* What is said of a goroutine stays true while it and its segment are kept.
LEMMA KeptLoop ==
    ASSUME NEW j \in Instances, NEW t \in Segments, LoopSound(j, t), Kept(j, t)
    PROVE  LoopSound(j, t)'
<1>1. First(j, t)' = First(j, t)
  BY SameFirst DEF Kept, SameLoop
<1>2. CASE epoch'[j][t] = epoch[j][t] /\ RowKept(t) /\ letters'[t] = letters[t]
  <2>1. Mine(j, t)' <=> Mine(j, t)
    BY <1>2 DEF Mine, Owned, RowKept
  <2>2. \A x : LettersOf(t, x)' = LettersOf(t, x)
    BY <1>2 DEF LettersOf
  <2>3. Knows(j, t) => Knows(j, t)'
    BY <1>1, <1>2, <2>2 DEF Knows, Kept, SameLoop, RowKept
  <2> QED BY <1>2, <2>1, <2>3 DEF LoopSound, Kept, SameLoop, RowKept
<1>3. CASE ~Mine(j, t)' /\ epoch'[j][t] <= rows'[t].epoch /\ pc[j][t] # "finishing"
  BY <1>3 DEF LoopSound, Kept, SameLoop
<1> QED BY <1>2, <1>3 DEF Kept

\* Two leases are not both the claim on a segment.
LEMMA MineOnce ==
    ASSUME LettersInv, NEW i \in Instances, NEW j \in Instances, NEW s \in Segments,
           Mine(i, s), Mine(j, s)
    PROVE  i = j
<1>1. rows[s].owner = Owner[i] /\ rows[s].epoch = epoch[i][s] /\ epoch[j][s] = epoch[i][s]
  BY DEF Mine, Owned
<1>2. rows[s].owner # None
  BY <1>1, StoreAssumption
<1>3. epoch[i][s] # 0
  BY <1>1, <1>2 DEF LettersInv, SegmentSound, StoreTypes, StoreTypeOK, Row
<1> QED BY <1>1, <1>3 DEF LettersInv, EpochsDiffer

\* No goroutine has a lease of epoch 0.
LEMMA NoZeroLease ==
    ASSUME LettersInv, NEW i \in Instances, NEW s \in Segments, Mine(i, s)
    PROVE  epoch[i][s] > 0
<1>1. rows[s].owner = Owner[i] /\ rows[s].epoch = epoch[i][s]
  BY DEF Mine, Owned
<1>2. rows[s].owner # None
  BY <1>1, StoreAssumption
<1> QED BY <1>1, <1>2 DEF LettersInv, SegmentSound

\* Nothing is taken out of the read model and no checkpoint goes back.
Grows ==
    /\ \A e \in Events : applied[e] <= applied'[e]
    /\ \A s \in Segments : rows[s].pos <= rows'[s].pos

\* Nothing moves.
LEMMA StaysGrows ==
    ASSUME StoreTypes, UNCHANGED applied, \A s \in Segments : rows'[s].pos = rows[s].pos
    PROVE  Grows
BY LogFacts DEF StoreTypes, Grows

OthersKept(i, s) == \A j \in Instances, t \in Segments : j # i \/ t # s => SameLoop(j, t)

(***************************************************************************)
(* A step of the goroutine of i and s that leaves the store's rows, letters  *)
(* and read model alone.                                                     *)
(***************************************************************************)
LEMMA LocalStep ==
    ASSUME LettersInv, NEW i \in Instances, NEW s \in Segments,
           UNCHANGED <<storeVars, setup, bad, applied, letters, replayUntil, epoch>>,
           LoopTypes', OthersKept(i, s), LoopSound(i, s)'
    PROVE  LettersInv' /\ Grows
<1>1. StoreTypes'
  BY DEF LettersInv, StoreTypes, StoreTypeOK, storeVars
<1>2. \A t \in Segments : SegmentSound(t)'
  BY DEF LettersInv, SegmentSound, InSegment, storeVars
<1>3. \A j \in Instances, t \in Segments : LoopSound(j, t)'
  <2> TAKE j \in Instances, t \in Segments
  <2>1. CASE j # i \/ t # s
    <3>1. LoopSound(j, t) /\ Kept(j, t)
      BY <2>1 DEF LettersInv, OthersKept, Kept, RowKept, storeVars
    <3> QED BY <3>1, KeptLoop
  <2> QED BY <2>1
<1>4. EpochsDiffer' /\ StreamInOrder'
  BY DEF LettersInv, EpochsDiffer, StreamInOrder
<1>5. Grows
  BY StaysGrows DEF LettersInv, storeVars
<1> QED BY <1>1, <1>2, <1>3, <1>4, <1>5 DEF LettersInv

\* Leaving work(): a goroutine that knows nothing.
LEMMA LeftLoop ==
    ASSUME IInv, NEW i \in Instances, NEW s \in Segments, Leave(i, s)
    PROVE  LoopTypes' /\ OthersKept(i, s) /\ pc'[i][s] = "claim" /\ epoch' = epoch
<1>0. 0 \in Positions /\ "claim" \in PCs
  BY LogFacts DEF PCs
<1>1. /\ pc' = [pc EXCEPT ![i][s] = "claim"] /\ cp' = [cp EXCEPT ![i][s] = 0]
      /\ to' = [to EXCEPT ![i][s] = 0] /\ parked' = [parked EXCEPT ![i][s] = {}]
      /\ left' = [left EXCEPT ![i][s] = {}] /\ failing' = [failing EXCEPT ![i][s] = FALSE]
      /\ serving' = [serving EXCEPT ![i][s] = {}] /\ epoch' = epoch
  BY DEF Leave, Goto
<1>2. LoopTypes'
  BY <1>0, <1>1 DEF IInv, LettersInv, LoopTypes
<1>3. OthersKept(i, s) /\ pc'[i][s] = "claim"
  BY <1>1 DEF IInv, LettersInv, LoopTypes, RequestsInv, RequestTypes, OthersKept, SameLoop
<1> QED BY <1>1, <1>2, <1>3

\* It leaves without having written.
LEMMA LeaveStep ==
    ASSUME IInv, NEW i \in Instances, NEW s \in Segments, Leave(i, s),
           UNCHANGED <<storeVars, setup, bad, applied, letters, replayUntil>>
    PROVE  LettersInv' /\ OthersKept(i, s) /\ Grows
<1>1. LoopTypes' /\ OthersKept(i, s) /\ pc'[i][s] = "claim" /\ epoch' = epoch
  BY LeftLoop
<1>2. LoopSound(i, s)'
  BY <1>1 DEF IInv, LettersInv, LoopSound, storeVars
<1> QED BY <1>1, <1>2, LocalStep DEF IInv

\* loadParked reads the letters under the claim, or its claim is lost already.
LEMMA loadParkedStep ==
    ASSUME IInv, NEW i \in Instances, NEW s \in Segments, loadParked(i, s)
    PROVE  LettersInv' /\ OthersKept(i, s) /\ Grows
<1> USE DEF IInv, LettersInv
<1>1. ParkedIn(i, s) \in SUBSET Streams
  BY DEF ParkedIn, Streams, StoreTypes
<1>2. /\ LoopTypes' /\ OthersKept(i, s) /\ pc[i][s] = "load" /\ pc'[i][s] = "top"
      /\ parked'[i][s] = ParkedIn(i, s)
      /\ UNCHANGED <<storeVars, setup, bad, applied, letters, replayUntil, epoch, cp>>
  BY <1>1 DEF RequestsInv, RequestTypes, LoopTypes, OthersKept, SameLoop, loadParked, Goto, PCs
<1>3. LoopSound(i, s)'
  <2>1. LoopSound(i, s) /\ SegmentSound(s)
    OBVIOUS
  <2>2. Mine(i, s)' <=> Mine(i, s)
    BY <1>2 DEF Mine, Owned, storeVars
  <2>3. ASSUME Mine(i, s) PROVE Knows(i, s)'
    <3>1. cp[i][s] = rows[s].pos
      BY <1>2, <2>1, <2>3 DEF LoopSound, Knows
    <3>2. ASSUME NEW e \in letters[s] PROVE cp[i][s] # 0
      <4>1. e \in InSegment(s) /\ e \in Events /\ applied[e] \in Nat /\ e > 0
        BY <2>1, LogFacts DEF SegmentSound, StoreTypes
      <4>2. e <= rows[s].pos
        BY <4>1, <2>1 DEF SegmentSound
      <4> QED BY <4>1, <4>2, <3>1, LogFacts
    <3>3. \A e \in letters[s] : StreamOf[e] \in ParkedIn(i, s)
      BY <3>2 DEF ParkedIn
    <3> QED BY <1>2, <3>1, <3>3 DEF Knows, storeVars
  <2> QED BY <1>2, <2>1, <2>2, <2>3 DEF LoopSound, storeVars
<1> QED BY <1>2, <1>3, LocalStep

\* What the goroutine knows stays true when it moves to a place that asks no more.
LEMMA MovesOn ==
    ASSUME LettersInv, NEW i \in Instances, NEW s \in Segments,
           UNCHANGED <<storeVars, letters, epoch, cp, parked>>,
           pc[i][s] \notin {"claim", "load"},
           pc'[i][s] \in {"top", "read", "take", "drop"}
    PROVE  LoopSound(i, s)'
<1>1. LoopSound(i, s) /\ (Mine(i, s)' <=> Mine(i, s))
  BY DEF LettersInv, Mine, Owned, storeVars
<1>2. Knows(i, s) => Knows(i, s)'
  BY DEF Knows, storeVars
<1> QED BY <1>1, <1>2 DEF LoopSound, storeVars

\* The top of the loop.
LEMMA TopStep ==
    ASSUME IInv, NEW i \in Instances, NEW s \in Segments, Top(i, s)
    PROVE  LettersInv' /\ OthersKept(i, s) /\ Grows
<1> USE DEF IInv, LettersInv
<1>1. /\ LoopTypes' /\ OthersKept(i, s) /\ pc[i][s] = "top" /\ pc'[i][s] \in {"read", "take"}
      /\ UNCHANGED <<storeVars, setup, bad, applied, letters, replayUntil, epoch, cp, parked>>
  <2>1. PICK p \in {"read", "take"}, v \in SUBSET Replay :
           pc' = [pc EXCEPT ![i][s] = p] /\ serving' = [serving EXCEPT ![i][s] = v]
    <3>1. pending[i][s] \in SUBSET Replay /\ serving[i][s] \in SUBSET Replay
          /\ serving = [serving EXCEPT ![i][s] = serving[i][s]]
      BY DEF RequestsInv, RequestTypes
    <3> QED BY <3>1 DEF Top, Goto
  <2>2. LoopTypes'
    BY <2>1 DEF LoopTypes, Top, PCs
  <2>3. OthersKept(i, s) /\ pc[i][s] = "top" /\ pc'[i][s] \in {"read", "take"}
    BY <2>1 DEF LoopTypes, RequestsInv, RequestTypes, OthersKept, SameLoop, Top
  <2> QED BY <2>2, <2>3 DEF Top
<1>2. LoopSound(i, s)'
  BY <1>1, MovesOn
<1> QED BY <1>1, <1>2, LocalStep

\* The letters of a stream are loaded.
LEMMA TakeReplayStep ==
    ASSUME IInv, NEW i \in Instances, NEW s \in Segments, TakeReplay(i, s)
    PROVE  LettersInv' /\ OthersKept(i, s) /\ Grows
<1> USE DEF IInv, LettersInv
<1>1. LettersOf(s, First(i, s).stream) \in SUBSET Events
  BY DEF LettersOf, StoreTypes
<1>2. /\ LoopTypes' /\ OthersKept(i, s) /\ pc[i][s] = "take" /\ pc'[i][s] = "replay"
      /\ left'[i][s] = LettersOf(s, First(i, s).stream)
      /\ UNCHANGED <<storeVars, setup, bad, applied, letters, replayUntil, epoch, cp, parked,
                     serving>>
  <2>1. left' = [left EXCEPT ![i][s] = LettersOf(s, First(i, s).stream)]
    BY DEF TakeReplay, LettersOf
  <2> DEFINE l == LettersOf(s, First(i, s).stream)
  <2>2. l \in SUBSET Events /\ left' = [left EXCEPT ![i][s] = l]
    BY <1>1, <2>1
  <2> HIDE DEF l
  <2>0. /\ pc[i][s] = "take" /\ pc' = [pc EXCEPT ![i][s] = "replay"]
        /\ failing' = [failing EXCEPT ![i][s] = FALSE]
        /\ UNCHANGED <<cp, to, epoch, parked, serving>>
    BY DEF TakeReplay, Goto
  <2>3. LoopTypes'
    BY <2>0, <2>2 DEF LoopTypes, PCs
  <2>4. OthersKept(i, s) /\ pc[i][s] = "take" /\ pc'[i][s] = "replay" /\ left'[i][s] = l
    BY <2>0, <2>2 DEF LoopTypes, OthersKept, SameLoop
  <2> QED BY <2>3, <2>4 DEF TakeReplay, l
<1>3. LoopSound(i, s)'
  <2>1. LoopSound(i, s) /\ (Mine(i, s)' <=> Mine(i, s))
    BY <1>2 DEF Mine, Owned, storeVars
  <2>2. First(i, s)' = First(i, s)
    BY <1>2, SameFirst
  <2>3. \A x : LettersOf(s, x)' = LettersOf(s, x)
    BY <1>2 DEF LettersOf
  <2>4. Knows(i, s) => Knows(i, s)'
    BY <1>2, <2>2, <2>3 DEF Knows, storeVars
  <2> QED BY <1>2, <2>1, <2>4 DEF LoopSound, storeVars
<1> QED BY <1>2, <1>3, LocalStep

\* The first request is dealt with, whatever became of it in the store.
LEMMA ServedStep ==
    ASSUME IInv, NEW i \in Instances, NEW s \in Segments, Served(i, s),
           pc[i][s] \in {"finish", "finishing"},
           UNCHANGED <<storeVars, setup, bad, applied, letters, replayUntil, cp, epoch, parked,
                       to, left>>
    PROVE  LettersInv' /\ OthersKept(i, s) /\ Grows
<1> USE DEF IInv, LettersInv
<1> DEFINE rest == serving[i][s] \ {First(i, s)}
<1>1. rest \in SUBSET Replay
  BY DEF RequestsInv, RequestTypes
<1>2. PICK p \in {"take", "drop"} : pc' = [pc EXCEPT ![i][s] = p]
  BY DEF Served, Goto
<1>3. /\ serving' = [serving EXCEPT ![i][s] = rest]
      /\ failing' = [failing EXCEPT ![i][s] = FALSE]
  BY DEF Served
<1> HIDE DEF rest
<1>4. LoopTypes' /\ OthersKept(i, s) /\ pc'[i][s] \in {"take", "drop"}
  BY <1>1, <1>2, <1>3 DEF RequestsInv, RequestTypes, LoopTypes, OthersKept, SameLoop, PCs
<1>5. LoopSound(i, s)'
  BY <1>4, MovesOn
<1> QED BY <1>4, <1>5, LocalStep

\* The locks of a FinishReplay leave the segment alone.
LEMMA LockRequestStep ==
    ASSUME IInv, NEW i \in Instances, NEW s \in Segments, LockRequest(i, s)
    PROVE  LettersInv' /\ OthersKept(i, s) /\ Grows
<1> USE DEF IInv, LettersInv
<1>1. /\ LoopTypes' /\ OthersKept(i, s) /\ pc[i][s] = "finish" /\ pc'[i][s] = "finishing" /\ Mine(i, s)
      /\ UNCHANGED <<storeVars, setup, bad, applied, letters, replayUntil, epoch, cp, parked,
                     serving, failing>>
  BY DEF RequestsInv, RequestTypes, LoopTypes, OthersKept, SameLoop, LockRequest, Goto, PCs
<1>2. LoopSound(i, s)'
  <2>1. LoopSound(i, s) /\ (Mine(i, s)' <=> Mine(i, s))
    BY <1>1 DEF Mine, Owned, storeVars
  <2>2. First(i, s)' = First(i, s)
    BY <1>1, SameFirst
  <2>3. \A x : LettersOf(s, x)' = LettersOf(s, x)
    BY <1>1 DEF LettersOf
  <2>4. Knows(i, s) => Knows(i, s)'
    BY <1>1, <2>2, <2>3 DEF Knows, storeVars
  <2> QED BY <1>1, <2>1, <2>4 DEF LoopSound, storeVars
<1> QED BY <1>1, <1>2, LocalStep

\* Back to the log.
LEMMA dropReplaysStep ==
    ASSUME IInv, NEW i \in Instances, NEW s \in Segments, dropReplays(i, s)
    PROVE  LettersInv' /\ OthersKept(i, s) /\ Grows
<1> USE DEF IInv, LettersInv
<1>0. PICK p \in {"read", "top"} : pc' = [pc EXCEPT ![i][s] = p]
  BY DEF dropReplays, Goto
<1>1. /\ LoopTypes' /\ OthersKept(i, s) /\ pc[i][s] = "drop" /\ pc'[i][s] \in {"read", "top"}
      /\ UNCHANGED <<storeVars, setup, bad, applied, letters, replayUntil, epoch, cp, parked>>
  BY <1>0 DEF RequestsInv, RequestTypes, LoopTypes, OthersKept, SameLoop, dropReplays, PCs
<1>2. LoopSound(i, s)'
  BY <1>1, MovesOn
<1> QED BY <1>1, <1>2, LocalStep

-----------------------------------------------------------------------------
(* Commits.                                                                  *)

InOrder(s) ==
    \A e, f \in InSegment(s) : StreamOf[e] = StreamOf[f] /\ e < f /\ applied[f] > 0 => applied[e] > 0

\* StreamInOrder speaks of one segment at a time.
LEMMA InOrderParts ==
    ASSUME setup \in Setups
    PROVE  StreamInOrder <=> \A s \in Segments : InOrder(s)
<1>1. \A e \in Events : setup.segmentOf[e] \in Segments
  BY SetupFacts
<1> QED BY <1>1 DEF StreamInOrder, InOrder, InSegment

\* An event the checkpoint has passed is applied unless it is a letter, and one
\* beyond it is neither.
LEMMA PassedOrNot ==
    ASSUME LettersInv, NEW s \in Segments, NEW e \in InSegment(s)
    PROVE  /\ e \in Nat /\ e > 0 /\ e \in Events /\ applied[e] \in Nat /\ rows[s].pos \in Nat
           /\ e <= rows[s].pos /\ e \notin letters[s] => applied[e] = 1
           /\ e <= rows[s].pos /\ e \in letters[s] => applied[e] = 0
           /\ ~(e <= rows[s].pos) => applied[e] = 0 /\ e \notin letters[s]
<1>1. e \in Events /\ e \in Nat /\ e > 0 /\ applied[e] \in Nat /\ rows[s].pos \in Nat
  BY LogFacts DEF LettersInv, StoreTypes, InSegment
<1>2. applied[e] + (IF e \in letters[s] THEN 1 ELSE 0) = IF e <= rows[s].pos THEN 1 ELSE 0
  BY DEF LettersInv, SegmentSound
<1> QED BY <1>1, <1>2

\* What a goroutine at work knows under its claim.
LEMMA AtWork ==
    ASSUME LettersInv, NEW i \in Instances, NEW s \in Segments, Mine(i, s), pc[i][s] # "claim"
    PROVE  /\ LoopSound(i, s) /\ Knows(i, s)
           /\ cp[i][s] = rows[s].pos /\ rows[s].pos \in Positions /\ to[i][s] \in Positions
           /\ pc[i][s] = "one" => cp[i][s] <= to[i][s]
<1>1. LoopSound(i, s) /\ Knows(i, s)
  BY DEF LettersInv, LoopSound
<1>2. rows[s].pos \in Positions /\ to[i][s] \in Positions
  BY DEF LettersInv, StoreTypes, LoopTypes
<1> QED BY <1>1, <1>2 DEF LoopSound, Knows

\* A Commit of segment s up to pos that leaves its events sound.
Advances(s, pos) ==
    /\ pos \in Positions /\ Moved(s, pos) /\ rows[s].pos <= pos
    /\ \A e \in Events : applied[e] <= applied'[e]
    /\ applied' \in [Events -> Nat] /\ letters' \in [Segments -> SUBSET Events]
    /\ \A t \in Segments : t # s => letters'[t] = letters[t]
    /\ \A e \in Events : e \notin InSegment(s) => applied'[e] = applied[e]
    /\ SegmentSound(s)' /\ InOrder(s)'

(***************************************************************************)
(* A goroutine under its claim changes the checkpoint, letters and read      *)
(* model of its segment.                                                     *)
(***************************************************************************)
LEMMA CommitStep ==
    ASSUME LettersInv, NEW i \in Instances, NEW s \in Segments, Mine(i, s),
           NEW pos, Advances(s, pos),
           UNCHANGED <<requested, served, failed, setup, bad, replayUntil, epoch>>,
           LoopTypes', OthersKept(i, s), LoopSound(i, s)'
    PROVE  LettersInv' /\ Grows
<1> USE DEF Advances
<1>1. StoreTypes'
  BY DEF LettersInv, StoreTypes, StoreTypeOK, Moved, RowKept
<1>2. \A t \in Segments : t # s => SegmentSound(t)' /\ InOrder(t)'
  <2> SUFFICES ASSUME NEW t \in Segments, t # s PROVE SegmentSound(t)' /\ InOrder(t)'
    OBVIOUS
  <2>1. InSegment(t)' = InSegment(t) /\ \A e \in InSegment(t) : e \notin InSegment(s) /\ e \in Events
    BY DEF InSegment
  <2>2. SegmentSound(t) /\ InOrder(t)
    BY InOrderParts DEF LettersInv, StoreTypes
  <2> QED BY <2>1, <2>2 DEF SegmentSound, InOrder, Moved, RowKept
<1>3. StreamInOrder'
  <2>1. setup' \in Setups /\ \A t \in Segments : InOrder(t)'
    BY <1>2 DEF LettersInv, StoreTypes
  <2>2. \A e \in Events : setup'.segmentOf[e] \in Segments
    BY SetupFacts DEF LettersInv, StoreTypes
  <2> QED BY <2>1, <2>2 DEF StreamInOrder, InOrder, InSegment
<1>4. \A j \in Instances, t \in Segments : LoopSound(j, t)'
  <2> TAKE j \in Instances, t \in Segments
  <2>1. CASE t # s
    <3>1. LoopSound(j, t) /\ Kept(j, t)
      BY <2>1 DEF LettersInv, OthersKept, Kept, Moved
    <3> QED BY <3>1, KeptLoop
  <2>2. CASE t = s /\ j # i
    <3>1. ~Mine(j, s) /\ LoopSound(j, s)
      BY <2>2, MineOnce DEF LettersInv
    <3>2. ~Mine(j, s)'
      BY <3>1 DEF Mine, Owned, Moved
    <3>3. Kept(j, s)
      BY <2>2, <3>1, <3>2 DEF OthersKept, Kept, Moved, LoopSound
    <3> QED BY <2>2, <3>1, <3>3, KeptLoop
  <2> QED BY <2>1, <2>2
<1>5. EpochsDiffer'
  BY DEF LettersInv, EpochsDiffer
<1>6. Grows
  <2>1. \A t \in Segments : rows[t].pos \in Nat
    BY LogFacts DEF LettersInv, StoreTypes
  <2>2. \A t \in Segments : rows[t].pos <= rows'[t].pos
    BY <2>1 DEF Moved, RowKept
  <2> QED BY <2>2 DEF Grows
<1> QED BY <1>1, <1>2, <1>3, <1>4, <1>5, <1>6 DEF LettersInv

\* The end of a batch, behind the checkpoint and within the log.
LEMMA BatchEndFacts ==
    ASSUME LettersInv, NEW i \in Instances, NEW s \in Segments
    PROVE  BatchEnd(i, s) \in Positions /\ cp[i][s] <= BatchEnd(i, s)
<1>1. cp[i][s] \in Positions /\ setup.batch \in Nat \ {0}
  BY SetupFacts DEF LettersInv, LoopTypes, StoreTypes
<1> DEFINE S == {cp[i][s] + setup.batch, Last}
<1>2. S \subseteq Nat /\ S # {}
  BY <1>1, LogFacts
<1>3. Min(S) \in S /\ \A k \in S : Min(S) <= k
  <2> HIDE DEF S
  <2> QED BY <1>2, MinFacts
<1>4. BatchEnd(i, s) = Min(S)
  BY DEF BatchEnd
<1> QED BY <1>1, <1>3, <1>4, LogFacts

\* A whole batch is written: no stream in it is parked.
LEMMA BatchWritesStep ==
    ASSUME LettersInv, NEW i \in Instances, NEW s \in Segments, pc[i][s] = "read", Mine(i, s),
           Skips(i, s) = {}, BatchWrites(i, s), UNCHANGED setup
    PROVE  Advances(s, BatchEnd(i, s))
<1> DEFINE end == BatchEnd(i, s)
           own == Batch(i, s, end)
<1>1. end \in Positions /\ cp[i][s] <= end
  BY BatchEndFacts
<1>2. LoopSound(i, s) /\ Knows(i, s) /\ cp[i][s] = rows[s].pos /\ rows[s].pos \in Positions
  BY AtWork
<1>3. /\ CommitAt(s, end) /\ letters' = letters
      /\ applied' = [e \in Events |-> applied[e] + IF e \in own THEN 1 ELSE 0]
  BY DEF BatchWrites
<1>4. own = {e \in InSegment(s) : rows[s].pos < e /\ e <= end}
  BY <1>2 DEF Batch
<1>5. \A e \in own : StreamOf[e] \notin parked[i][s]
  BY DEF Skips
<1> HIDE DEF end, own
<1>6. Moved(s, end)
  BY <1>1, <1>3, CommittedAt, LogFacts DEF LettersInv
<1>7. InSegment(s)' = InSegment(s) /\ InSegment(s) \subseteq Events
  BY DEF InSegment
<1>8. /\ applied' \in [Events -> Nat] /\ letters' \in [Segments -> SUBSET Events]
      /\ \A e \in Events : e \notin InSegment(s) => applied'[e] = applied[e]
      /\ \A e \in own : applied'[e] = applied[e] + 1
      /\ \A e \in InSegment(s) : e \notin own => applied'[e] = applied[e]
  BY <1>3, <1>4, <1>7 DEF LettersInv, StoreTypes
<1>9. SegmentSound(s)'
  <2>1. ASSUME NEW e \in InSegment(s)
        PROVE  applied'[e] + (IF e \in letters[s] THEN 1 ELSE 0) = IF e <= end THEN 1 ELSE 0
    BY <1>1, <1>2, <1>4, <1>8, PassedOrNot, LogFacts
  <2> QED BY <1>3, <1>6, <1>7, <2>1 DEF LettersInv, SegmentSound, Moved
<1>10. InOrder(s)'
  <2> SUFFICES ASSUME NEW e \in InSegment(s), NEW f \in InSegment(s),
                      StreamOf[e] = StreamOf[f], e < f, applied'[f] > 0
               PROVE  applied'[e] > 0
    BY <1>7 DEF InOrder
  <2>0. /\ e \in Nat /\ f \in Nat /\ applied[e] \in Nat /\ applied[f] \in Nat /\ e \in Events
        /\ applied'[e] \in Nat /\ rows[s].pos \in Nat
    BY <1>8, PassedOrNot
  <2>1. CASE e \in own
    BY <1>8, <2>0, <2>1
  <2>2. CASE e \notin own /\ f \in own
    <3>1. e <= rows[s].pos
      BY <1>1, <1>4, <2>0, <2>2, LogFacts
    <3>2. e \notin letters[s]
      BY <1>2, <1>5, <2>2 DEF Knows
    <3> QED BY <1>8, <2>2, <3>1, <3>2, PassedOrNot
  <2>3. CASE e \notin own /\ f \notin own
    <3>1. InOrder(s)
      BY InOrderParts DEF LettersInv, StoreTypes
    <3> QED BY <1>8, <2>3, <3>1 DEF InOrder
  <2> QED BY <2>1, <2>2, <2>3
<1>11. rows[s].pos <= end /\ \A e \in Events : applied[e] <= applied'[e]
  BY <1>1, <1>2, <1>3 DEF LettersInv, StoreTypes
<1> QED BY <1>1, <1>3, <1>6, <1>8, <1>9, <1>10, <1>11 DEF Advances, end

\* A whole batch, or none of it yet.
LEMMA applyBatchStep ==
    ASSUME IInv, NEW i \in Instances, NEW s \in Segments, applyBatch(i, s)
    PROVE  LettersInv' /\ OthersKept(i, s) /\ Grows
<1> USE DEF IInv
<1> DEFINE end == BatchEnd(i, s)
<1>1. /\ pc[i][s] = "read" /\ Mine(i, s) /\ end \in Positions /\ cp[i][s] <= end
      /\ UNCHANGED <<requested, served, failed, setup, bad, letters, replayUntil, epoch, parked,
                     serving, left, failing>>
  BY BatchEndFacts DEF applyBatch, BatchWrites
<1>2. LoopSound(i, s) /\ Knows(i, s) /\ cp[i][s] = rows[s].pos /\ rows[s].pos \in Positions
  BY <1>1 DEF LettersInv, LoopSound, Knows, StoreTypes
<1>3. CASE Skips(i, s) # {}
  <2>1. /\ to' = [to EXCEPT ![i][s] = end] /\ pc' = [pc EXCEPT ![i][s] = "one"]
        /\ UNCHANGED <<rows, applied, cp>>
    BY <1>3 DEF applyBatch, Goto
  <2> HIDE DEF end
  <2>2. LoopTypes' /\ OthersKept(i, s) /\ pc'[i][s] = "one" /\ to'[i][s] = end
    BY <1>1, <2>1 DEF LettersInv, LoopTypes, OthersKept, SameLoop, PCs
  <2>3. Mine(i, s)' <=> Mine(i, s)
    BY <1>1, <2>1 DEF Mine, Owned
  <2>4. LoopSound(i, s)'
    BY <1>1, <1>2, <2>1, <2>2, <2>3 DEF LoopSound, Knows
  <2> QED BY <1>1, <2>1, <2>2, <2>4, LocalStep DEF storeVars
<1>4. CASE Skips(i, s) = {}
  <2>1. /\ BatchWrites(i, s) /\ cp' = [cp EXCEPT ![i][s] = end]
        /\ pc' = [pc EXCEPT ![i][s] = "top"] /\ to' = to
    BY <1>4 DEF applyBatch, Goto
  <2>2. Advances(s, end)
    BY <1>1, <1>4, <2>1, BatchWritesStep
  <2> HIDE DEF end
  <2>3. LoopTypes' /\ OthersKept(i, s) /\ pc'[i][s] = "top" /\ cp'[i][s] = end
    BY <1>1, <2>1 DEF LettersInv, LoopTypes, OthersKept, SameLoop, PCs
  <2>4. LoopSound(i, s)'
    <3>1. Knows(i, s)'
      BY <1>1, <1>2, <2>2, <2>3 DEF Knows, Moved, Advances
    <3>2. epoch[i][s] <= rows'[s].epoch
      BY <1>2, <2>2 DEF LoopSound, Moved, Advances
    <3> QED BY <1>1, <2>3, <3>1, <3>2 DEF LoopSound
  <2> QED BY <1>1, <2>2, <2>3, <2>4, CommitStep
<1> QED BY <1>3, <1>4

\* The next event of the batch is behind the checkpoint, and none between.
LEMMA NextOneFacts ==
    ASSUME LettersInv, NEW i \in Instances, NEW s \in Segments, pc[i][s] = "one", Mine(i, s),
           Batch(i, s, to[i][s]) # {}
    PROVE  LET e == NextOne(i, s) IN
           /\ e \in InSegment(s) /\ e \in Events /\ e \in Positions /\ e \in Nat
           /\ rows[s].pos < e /\ e <= to[i][s] /\ StreamOf[e] \in Streams
           /\ \A x \in InSegment(s) : x <= e => x <= rows[s].pos \/ x = e
           /\ applied[e] = 0 /\ e \notin letters[s]
<1> DEFINE own == Batch(i, s, to[i][s])
           e == Min(own)
<1>1. /\ cp[i][s] = rows[s].pos /\ rows[s].pos \in Positions
      /\ to[i][s] \in Positions /\ cp[i][s] <= to[i][s]
  BY AtWork
<1>2. own = {x \in InSegment(s) : rows[s].pos < x /\ x <= to[i][s]} /\ InSegment(s) \subseteq Events
  BY <1>1 DEF Batch, InSegment
<1>3. e \in own /\ \A x \in own : e <= x
  <2>1. own \subseteq Nat
    BY <1>2, LogFacts
  <2> HIDE DEF own
  <2> QED BY <2>1, MinFacts DEF own
<1> HIDE DEF own, e
<1>4. /\ e \in InSegment(s) /\ e \in Events /\ e \in Positions /\ e \in Nat
      /\ rows[s].pos < e /\ e <= to[i][s]
      /\ \A x \in InSegment(s) : x <= e => x <= rows[s].pos \/ x = e
  BY <1>1, <1>2, <1>3, LogFacts
<1>5. applied[e] = 0 /\ e \notin letters[s]
  BY <1>1, <1>4, PassedOrNot, LogFacts
<1>6. StreamOf[e] \in Streams
  BY <1>4 DEF Streams
<1>7. NextOne(i, s) = e
  BY DEF NextOne, e, own
<1> QED BY <1>4, <1>5, <1>6, <1>7

\* One event e of segment s is written: it becomes a letter, or is applied when
\* its stream is not parked.
LEMMA EventWritesStep ==
    ASSUME LettersInv, NEW i \in Instances, NEW s \in Segments, pc[i][s] = "one", Mine(i, s),
           Batch(i, s, to[i][s]) # {}, EventWrites(i, s), UNCHANGED setup
    PROVE  LET e == NextOne(i, s) IN
           /\ Advances(s, e)
           /\ \/ Passed(i, s) /\ letters'[s] = letters[s] \cup {e}
              \/ ~Passed(i, s) /\ letters'[s] = letters[s]
<1> DEFINE e == NextOne(i, s)
<1>1. \/ /\ Passed(i, s) /\ skipEvent(s, e) /\ applied' = applied
      \/ /\ ~Passed(i, s) /\ StreamOf[e] \notin parked[i][s] /\ CommitAt(s, e)
         /\ applied' = [applied EXCEPT ![e] = @ + 1] /\ letters' = letters
  BY DEF EventWrites, Passed, IsParked
<1>2. LoopSound(i, s) /\ Knows(i, s) /\ rows[s].pos \in Positions
  BY AtWork
<1>4. InSegment(s)' = InSegment(s) /\ InSegment(s) \subseteq Events
  BY DEF InSegment
<1>6. /\ e \in InSegment(s) /\ e \in Events /\ e \in Positions /\ e \in Nat
      /\ rows[s].pos < e /\ e <= to[i][s]
      /\ \A x \in InSegment(s) : x <= e => x <= rows[s].pos \/ x = e
  BY NextOneFacts
<1>7. applied[e] = 0 /\ e \notin letters[s]
  BY NextOneFacts
<1> HIDE DEF e
<1>8. Moved(s, e)
  BY <1>1, <1>6, CommittedAt DEF LettersInv, skipEvent
<1>13. \/ /\ Passed(i, s) /\ applied' = applied /\ letters' = [letters EXCEPT ![s] = @ \cup {e}]
       \/ /\ ~Passed(i, s) /\ StreamOf[e] \notin parked[i][s] /\ letters' = letters
          /\ applied' = [applied EXCEPT ![e] = @ + 1]
  BY <1>1 DEF skipEvent, SaveDeadLetter
<1>14. /\ applied' \in [Events -> Nat] /\ letters' \in [Segments -> SUBSET Events]
       /\ \A x \in Events : x # e => applied'[x] = applied[x]
       /\ \A t \in Segments : t # s => letters'[t] = letters[t]
       /\ \/ Passed(i, s) /\ applied'[e] = 0 /\ letters'[s] = letters[s] \cup {e}
          \/ /\ ~Passed(i, s) /\ applied'[e] = 1 /\ letters'[s] = letters[s]
             /\ StreamOf[e] \notin parked[i][s]
  BY <1>6, <1>7, <1>13 DEF LettersInv, StoreTypes
<1>15. SegmentSound(s)'
  <2>1. ASSUME NEW x \in InSegment(s)
        PROVE  applied'[x] + (IF x \in letters'[s] THEN 1 ELSE 0) = IF x <= e THEN 1 ELSE 0
    <3>1. CASE x = e
      BY <1>6, <1>7, <1>14, <3>1
    <3>2. CASE x # e
      <4>1. applied'[x] = applied[x] /\ (x \in letters'[s] <=> x \in letters[s])
        BY <1>4, <1>14, <3>2
      <4>2. x <= e <=> x <= rows[s].pos
        BY <1>2, <1>4, <1>6, <3>2, LogFacts
      <4> QED BY <4>1, <4>2 DEF LettersInv, SegmentSound
    <3> QED BY <3>1, <3>2
  <2>2. letters'[s] \subseteq InSegment(s)
    BY <1>6, <1>14 DEF LettersInv, SegmentSound
  <2>3. rows'[s].owner # None => rows'[s].epoch > 0
    BY <1>8 DEF LettersInv, SegmentSound, Moved
  <2> QED BY <1>4, <1>8, <2>1, <2>2, <2>3 DEF SegmentSound, Moved
<1>16. InOrder(s)'
  <2> SUFFICES ASSUME NEW x \in InSegment(s), NEW f \in InSegment(s),
                      StreamOf[x] = StreamOf[f], x < f, applied'[f] > 0
               PROVE  applied'[x] > 0
    BY <1>4 DEF InOrder
  <2>0. x \in Nat /\ f \in Nat /\ x \in Events /\ f \in Events /\ applied[f] \in Nat
    BY PassedOrNot
  <2>1. InOrder(s)
    BY InOrderParts DEF LettersInv, StoreTypes
  <2>2. CASE f = e
    <3>1. x <= rows[s].pos /\ x # e
      BY <1>6, <2>0, <2>2
    <3>2. letters'[s] = letters[s] /\ StreamOf[e] \notin parked[i][s]
      BY <1>14, <2>2
    <3>3. x \notin letters[s]
      BY <1>2, <2>2, <3>2 DEF Knows
    <3> QED BY <1>14, <2>0, <3>1, <3>3, PassedOrNot
  <2>3. CASE f # e
    <3>1. applied[f] > 0 /\ applied[x] > 0
      BY <1>14, <2>0, <2>1, <2>3 DEF InOrder
    <3>2. x # e
      BY <1>7, <3>1
    <3> QED BY <1>14, <2>0, <3>1, <3>2
  <2> QED BY <2>2, <2>3
<1>17. \A x \in Events : x \notin InSegment(s) => applied'[x] = applied[x]
  BY <1>6, <1>14
<1>18. rows[s].pos <= e /\ \A x \in Events : applied[x] <= applied'[x]
  <2>1. \A x \in Events : applied[x] \in Nat
    BY DEF LettersInv, StoreTypes
  <2>2. rows[s].pos \in Nat /\ rows[s].pos <= e
    BY <1>2, <1>6, LogFacts
  <2>3. applied[e] <= applied'[e] /\ \A x \in Events : x # e => applied'[x] = applied[x]
    BY <1>7, <1>14
  <2>4. \A x \in Events : applied[x] <= applied'[x]
    BY <2>1, <2>3
  <2> QED BY <2>2, <2>4
<1> QED BY <1>6, <1>8, <1>14, <1>15, <1>16, <1>17, <1>18 DEF Advances, e

\* One event of a batch, its stream parked when it is passed over.
LEMMA OneEventStep ==
    ASSUME IInv, NEW i \in Instances, NEW s \in Segments, applyOneByOne(i, s), ~Stalls(i, s)
    PROVE  LettersInv' /\ OthersKept(i, s) /\ Grows
<1> USE DEF IInv
<1> DEFINE e == NextOne(i, s)
           k == IF Passed(i, s) THEN parked[i][s] \cup {StreamOf[e]} ELSE parked[i][s]
<1>1. /\ pc[i][s] = "one" /\ Mine(i, s) /\ Batch(i, s, to[i][s]) # {} /\ EventWrites(i, s)
      /\ UNCHANGED <<requested, served, failed, setup, bad, replayUntil, epoch, serving, left,
                     failing, pc, to>>
      /\ cp' = [cp EXCEPT ![i][s] = e] /\ parked' = [parked EXCEPT ![i][s] = k]
  BY DEF applyOneByOne
<1>2. LoopSound(i, s) /\ Knows(i, s) /\ to[i][s] \in Positions
  BY <1>1, AtWork
<1>3. e \in Positions /\ e <= to[i][s] /\ StreamOf[e] \in Streams
  BY <1>1, NextOneFacts
<1>4. /\ Advances(s, e)
      /\ \/ Passed(i, s) /\ letters'[s] = letters[s] \cup {e}
         \/ ~Passed(i, s) /\ letters'[s] = letters[s]
  BY <1>1, EventWritesStep
<1>5. k \in SUBSET Streams
  BY <1>3 DEF LettersInv, LoopTypes
<1>6. \A x \in letters'[s] : StreamOf[x] \in k
  BY <1>1, <1>2, <1>4 DEF Knows
<1> HIDE DEF e, k
<1>7. LoopTypes' /\ OthersKept(i, s) /\ cp'[i][s] = e /\ parked'[i][s] = k
  BY <1>1, <1>3, <1>5 DEF LettersInv, LoopTypes, OthersKept, SameLoop
<1>8. LoopSound(i, s)'
  <2>1. Knows(i, s)'
    BY <1>1, <1>4, <1>6, <1>7 DEF Knows, Moved, Advances
  <2> QED BY <1>1, <1>2, <1>3, <1>4, <1>7, <2>1 DEF LoopSound, Moved, Advances
<1> QED BY <1>1, <1>4, <1>7, <1>8, CommitStep

\* One event of a batch, or a stall.
LEMMA applyOneByOneStep ==
    ASSUME IInv, NEW i \in Instances, NEW s \in Segments, applyOneByOne(i, s)
    PROVE  LettersInv' /\ OthersKept(i, s) /\ Grows
<1>1. CASE Stalls(i, s)
  BY <1>1, LeaveStep DEF applyOneByOne, storeVars
<1>2. CASE ~Stalls(i, s)
  BY <1>2, OneEventStep
<1> QED BY <1>1, <1>2

\* The end of a batch is past events of other segments only.
LEMMA EndWritesStep ==
    ASSUME LettersInv, NEW i \in Instances, NEW s \in Segments, pc[i][s] = "one", Mine(i, s),
           Batch(i, s, to[i][s]) = {}, UNCHANGED <<setup, applied, letters>>,
           IF to[i][s] > cp[i][s] THEN CommitAt(s, to[i][s]) ELSE UNCHANGED rows
    PROVE  Advances(s, to[i][s])
<1> DEFINE end == to[i][s]
<1>1. IF end > cp[i][s] THEN CommitAt(s, end) ELSE UNCHANGED rows
  OBVIOUS
<1>2. /\ LoopSound(i, s) /\ Knows(i, s) /\ cp[i][s] = rows[s].pos /\ rows[s].pos \in Positions
      /\ end \in Positions /\ cp[i][s] <= end
  BY AtWork
<1>3. \A x \in InSegment(s) : x <= end => x <= rows[s].pos
  BY <1>2, PassedOrNot, LogFacts DEF Batch
<1> HIDE DEF end
<1>4. Moved(s, end)
  <2>1. CASE end > cp[i][s]
    BY <1>1, <1>2, <2>1, CommittedAt, LogFacts DEF LettersInv
  <2>2. CASE ~(end > cp[i][s])
    <3>1. rows' = rows /\ end = rows[s].pos
      BY <1>1, <1>2, <2>2, LogFacts
    <3> QED BY <3>1 DEF Moved, RowKept, LettersInv, StoreTypes, StoreTypeOK
  <2> QED BY <2>1, <2>2
<1>7. InSegment(s)' = InSegment(s)
  BY DEF InSegment
<1>8. SegmentSound(s)'
  <2>1. ASSUME NEW x \in InSegment(s)
        PROVE  applied[x] + (IF x \in letters[s] THEN 1 ELSE 0) = IF x <= end THEN 1 ELSE 0
    <3>1. x <= end <=> x <= rows[s].pos
      BY <1>2, <1>3, PassedOrNot, LogFacts
    <3> QED BY <3>1 DEF LettersInv, SegmentSound
  <2> QED BY <1>4, <1>7, <2>1 DEF LettersInv, SegmentSound, Moved
<1>9. InOrder(s)'
  <2>1. InOrder(s)
    BY InOrderParts DEF LettersInv, StoreTypes
  <2> QED BY <1>7, <2>1 DEF InOrder
<1>10. applied' \in [Events -> Nat] /\ letters' \in [Segments -> SUBSET Events]
       /\ \A e \in Events : applied[e] <= applied'[e]
  BY DEF LettersInv, StoreTypes
<1> QED BY <1>2, <1>4, <1>8, <1>9, <1>10 DEF Advances, end

\* The batch is done.
LEMMA EndOfBatchStep ==
    ASSUME IInv, NEW i \in Instances, NEW s \in Segments, EndOfBatch(i, s)
    PROVE  LettersInv' /\ OthersKept(i, s) /\ Grows
<1> USE DEF IInv
<1> DEFINE end == to[i][s]
<1>1. /\ pc[i][s] = "one" /\ Mine(i, s) /\ Batch(i, s, end) = {}
      /\ IF end > cp[i][s] THEN CommitAt(s, end) ELSE UNCHANGED rows
      /\ cp' = [cp EXCEPT ![i][s] = end] /\ to' = [to EXCEPT ![i][s] = 0]
      /\ pc' = [pc EXCEPT ![i][s] = "top"]
      /\ UNCHANGED <<requested, served, failed, setup, bad, applied, letters, replayUntil, epoch,
                     parked, serving, left, failing>>
  BY DEF EndOfBatch, Goto
<1>2. LoopSound(i, s) /\ Knows(i, s) /\ end \in Positions
  BY <1>1, AtWork
<1>3. Advances(s, end)
  BY <1>1, EndWritesStep
<1> HIDE DEF end
<1>5. LoopTypes' /\ OthersKept(i, s) /\ cp'[i][s] = end /\ pc'[i][s] = "top"
  BY <1>1, <1>2, LogFacts DEF LettersInv, LoopTypes, OthersKept, SameLoop, PCs
<1>6. LoopSound(i, s)'
  <2>1. Knows(i, s)'
    BY <1>1, <1>2, <1>3, <1>5 DEF Knows, Moved, Advances
  <2> QED BY <1>1, <1>2, <1>3, <1>5, <2>1 DEF LoopSound, Moved, Advances
<1> QED BY <1>1, <1>3, <1>5, <1>6, CommitStep

\* A letter is applied, the first of its stream, and deleted.
LEMMA LetterWritesStep ==
    ASSUME LettersInv, NEW i \in Instances, NEW s \in Segments, pc[i][s] = "replay", Mine(i, s),
           left[i][s] # {}, LetterWrites(i, s), UNCHANGED setup
    PROVE  Advances(s, rows[s].pos) /\ letters'[s] = letters[s] \ {Min(left[i][s])}
<1> DEFINE e == Min(left[i][s])
<1>1. /\ CommitAt(s, cp[i][s]) /\ applied' = [applied EXCEPT ![e] = @ + 1]
      /\ letters' = [letters EXCEPT ![s] = @ \ {e}]
  BY DEF LetterWrites, LettersAfter
<1>2. /\ cp[i][s] = rows[s].pos /\ rows[s].pos \in Positions
      /\ left[i][s] = LettersOf(s, First(i, s).stream)
  BY AtWork DEF Knows
<1>3. InSegment(s)' = InSegment(s) /\ InSegment(s) \subseteq Events
  BY DEF InSegment
<1>4. e \in left[i][s] /\ \A x \in left[i][s] : e <= x
  <2>1. left[i][s] \subseteq Nat
    BY LogFacts DEF LettersInv, LoopTypes
  <2> QED BY <2>1, MinFacts
<1> HIDE DEF e
<1>5. e \in letters[s] /\ e \in InSegment(s) /\ e \in Events /\ StreamOf[e] = First(i, s).stream
  BY <1>2, <1>3, <1>4 DEF LettersOf, LettersInv, SegmentSound
<1>6. e <= rows[s].pos /\ applied[e] = 0
  BY <1>5, PassedOrNot
<1>7. Moved(s, rows[s].pos)
  BY <1>1, <1>2, CommittedAt, LogFacts DEF LettersInv
<1>9. /\ applied' \in [Events -> Nat] /\ letters' \in [Segments -> SUBSET Events]
      /\ \A x \in Events : x # e => applied'[x] = applied[x]
      /\ applied'[e] = 1
      /\ \A t \in Segments : t # s => letters'[t] = letters[t]
      /\ letters'[s] = letters[s] \ {e}
  BY <1>1, <1>5, <1>6 DEF LettersInv, StoreTypes
<1>11. SegmentSound(s)'
  <2>1. ASSUME NEW x \in InSegment(s)
        PROVE  applied'[x] + (IF x \in letters'[s] THEN 1 ELSE 0) = IF x <= rows[s].pos THEN 1 ELSE 0
    <3>1. CASE x = e
      BY <1>6, <1>9, <3>1
    <3>2. CASE x # e
      <4>1. applied'[x] = applied[x] /\ (x \in letters'[s] <=> x \in letters[s])
        BY <1>3, <1>9, <3>2
      <4> QED BY <4>1 DEF LettersInv, SegmentSound
    <3> QED BY <3>1, <3>2
  <2>2. letters'[s] \subseteq InSegment(s)
    BY <1>9 DEF LettersInv, SegmentSound
  <2>3. rows'[s].owner # None => rows'[s].epoch > 0
    BY <1>7 DEF LettersInv, SegmentSound, Moved
  <2> QED BY <1>3, <1>7, <2>1, <2>2, <2>3 DEF SegmentSound, Moved
<1>12. InOrder(s)'
  <2> SUFFICES ASSUME NEW x \in InSegment(s), NEW f \in InSegment(s),
                      StreamOf[x] = StreamOf[f], x < f, applied'[f] > 0
               PROVE  applied'[x] > 0
    BY <1>3 DEF InOrder
  <2>0. x \in Nat /\ f \in Nat /\ x \in Events /\ f \in Events /\ rows[s].pos \in Nat
    BY PassedOrNot
  <2>1. CASE x = e
    BY <1>9, <2>1
  <2>2. CASE x # e /\ f = e
    <3>1. x <= rows[s].pos
      BY <1>6, <2>0, <2>2
    <3>2. x \notin letters[s]
      <4> SUFFICES ASSUME x \in letters[s] PROVE FALSE
        OBVIOUS
      <4>1. x \in left[i][s]
        BY <1>2, <1>5, <2>2 DEF LettersOf
      <4> QED BY <1>4, <2>0, <2>2, <4>1
    <3> QED BY <1>9, <2>0, <2>2, <3>1, <3>2, PassedOrNot
  <2>3. CASE x # e /\ f # e
    <3>1. InOrder(s)
      BY InOrderParts DEF LettersInv, StoreTypes
    <3> QED BY <1>9, <2>0, <2>3, <3>1 DEF InOrder
  <2> QED BY <2>1, <2>2, <2>3
<1>13. \A x \in Events : x \notin InSegment(s) => applied'[x] = applied[x]
  BY <1>5, <1>9
<1>14. rows[s].pos <= rows[s].pos /\ \A x \in Events : applied[x] <= applied'[x]
  <2>1. \A x \in Events : applied[x] \in Nat
    BY DEF LettersInv, StoreTypes
  <2>2. \A x \in Events : applied[x] <= applied'[x]
    BY <1>6, <1>9, <2>1
  <2>3. rows[s].pos \in Nat
    BY <1>2, LogFacts
  <2> QED BY <2>2, <2>3
<1> QED BY <1>2, <1>7, <1>9, <1>11, <1>12, <1>13, <1>14 DEF Advances, e

\* On to the next letter.
LEMMA ReplayOneStep ==
    ASSUME IInv, NEW i \in Instances, NEW s \in Segments, replayStream(i, s), left[i][s] # {},
           Min(left[i][s]) \notin bad
    PROVE  LettersInv' /\ OthersKept(i, s) /\ Grows
<1> USE DEF IInv
<1> DEFINE e == Min(left[i][s])
           l == left[i][s] \ {e}
<1>1. /\ pc[i][s] = "replay" /\ Mine(i, s) /\ LetterWrites(i, s)
      /\ left' = [left EXCEPT ![i][s] = l]
      /\ UNCHANGED <<requested, served, failed, setup, bad, replayUntil, pc, cp, epoch, to, parked,
                     serving, failing>>
  BY DEF replayStream
<1>2. LoopSound(i, s) /\ Knows(i, s) /\ left[i][s] = LettersOf(s, First(i, s).stream)
  <2>1. LoopSound(i, s) /\ Knows(i, s)
    BY <1>1, AtWork
  <2> QED BY <1>1, <2>1 DEF Knows
<1>3. Advances(s, rows[s].pos) /\ letters'[s] = letters[s] \ {e}
  BY <1>1, LetterWritesStep
<1>4. l \in SUBSET Events
  BY DEF LettersInv, LoopTypes
<1> HIDE DEF l, e
<1>8. LoopTypes' /\ OthersKept(i, s) /\ left'[i][s] = l
  BY <1>1, <1>4 DEF LettersInv, LoopTypes, OthersKept, SameLoop
<1>10. LoopSound(i, s)'
  <2>1. First(i, s)' = First(i, s)
    BY <1>1, SameFirst
  <2>2. left'[i][s] = LettersOf(s, First(i, s).stream)'
    BY <1>2, <1>3, <1>8, <2>1 DEF LettersOf, l
  <2>3. Knows(i, s)'
    BY <1>1, <1>2, <1>3, <2>2 DEF Knows, Moved, Advances
  <2> QED BY <1>1, <1>2, <1>3, <2>3 DEF LoopSound, Moved, Advances
<1> QED BY <1>1, <1>3, <1>8, <1>10, CommitStep

\* A replay ends: with all letters of its stream applied, or with a failure.
LEMMA ReplayEndsStep ==
    ASSUME IInv, NEW i \in Instances, NEW s \in Segments, replayStream(i, s),
           left[i][s] = {} \/ Min(left[i][s]) \in bad
    PROVE  LettersInv' /\ OthersKept(i, s) /\ Grows
<1> USE DEF IInv
<1>1. /\ pc[i][s] = "replay" /\ pc' = [pc EXCEPT ![i][s] = "finish"]
      /\ UNCHANGED <<storeVars, setup, bad, applied, letters, replayUntil, cp, epoch, to, serving>>
      /\ \/ /\ left[i][s] = {} /\ parked' = [parked EXCEPT ![i][s] = @ \ {First(i, s).stream}]
            /\ UNCHANGED <<left, failing>>
         \/ /\ failing' = [failing EXCEPT ![i][s] = TRUE] /\ left' = [left EXCEPT ![i][s] = {}]
            /\ UNCHANGED parked
  BY DEF replayStream, ReplayFails, Goto, storeVars
<1>2. LoopSound(i, s) /\ (Mine(i, s)' <=> Mine(i, s))
  BY <1>1 DEF LettersInv, Mine, Owned, storeVars
<1>3. First(i, s)' = First(i, s) /\ \A x : LettersOf(s, x)' = LettersOf(s, x)
  BY <1>1, SameFirst DEF LettersOf
<1>4. CASE left[i][s] = {} /\ parked' = [parked EXCEPT ![i][s] = @ \ {First(i, s).stream}]
           /\ UNCHANGED <<left, failing>>
  <2> DEFINE k == parked[i][s] \ {First(i, s).stream}
  <2>1. k \in SUBSET Streams /\ parked' = [parked EXCEPT ![i][s] = k]
    BY <1>4 DEF LettersInv, LoopTypes
  <2> HIDE DEF k
  <2>2. LoopTypes' /\ OthersKept(i, s) /\ parked'[i][s] = k /\ pc'[i][s] = "finish"
    BY <1>1, <1>4, <2>1 DEF LettersInv, LoopTypes, OthersKept, SameLoop, PCs
  <2>3. ASSUME Mine(i, s) PROVE Knows(i, s)'
    <3>1. Knows(i, s) /\ LettersOf(s, First(i, s).stream) = {}
      BY <1>1, <1>2, <1>4, <2>3 DEF LoopSound, Knows
    <3>2. \A e \in letters[s] : StreamOf[e] \in k
      BY <1>1, <3>1 DEF Knows, LettersOf, k
    <3> QED BY <1>1, <1>3, <2>2, <3>1, <3>2 DEF Knows, storeVars
  <2>4. LoopSound(i, s)'
    BY <1>1, <1>2, <2>2, <2>3 DEF LoopSound, storeVars
  <2> QED BY <1>1, <2>2, <2>4, LocalStep
<1>5. CASE /\ failing' = [failing EXCEPT ![i][s] = TRUE] /\ left' = [left EXCEPT ![i][s] = {}]
           /\ UNCHANGED parked
  <2>1. LoopTypes' /\ OthersKept(i, s) /\ failing'[i][s] = TRUE /\ pc'[i][s] = "finish"
    BY <1>1, <1>5 DEF LettersInv, LoopTypes, OthersKept, SameLoop, PCs
  <2>2. Knows(i, s) => Knows(i, s)'
    BY <1>1, <1>5, <2>1 DEF Knows, storeVars
  <2>3. LoopSound(i, s)'
    BY <1>1, <1>2, <2>1, <2>2 DEF LoopSound, storeVars
  <2> QED BY <1>1, <2>1, <2>3, LocalStep
<1> QED BY <1>1, <1>4, <1>5

-----------------------------------------------------------------------------
(* Claims, rebuilds and what surrounds the goroutines.                       *)

\* Read model, letters and checkpoints stay, so the segments stay sound.
LEMMA SegmentsStay ==
    ASSUME LettersInv, UNCHANGED <<setup, applied, letters>>,
           \A t \in Segments : /\ rows'[t].pos = rows[t].pos
                               /\ rows'[t].owner # None => rows'[t].epoch > 0
    PROVE  (\A t \in Segments : SegmentSound(t)') /\ StreamInOrder'
BY DEF LettersInv, SegmentSound, InSegment, StreamInOrder

\* A claim: the goroutine knows the checkpoint, and whoever had it before nothing.
LEMMA ClaimStep ==
    ASSUME IInv, NEW i \in Instances, NEW s \in Segments, Claim(i, s)
    PROVE  LettersInv' /\ OthersKept(i, s) /\ Grows
<1> USE DEF IInv
<1>1. /\ ~RowLocked(s) /\ rows' = [rows EXCEPT ![s] = Claimed(i, s, epoch[i][s])]
      /\ epoch' = [epoch EXCEPT ![i][s] = rows'[s].epoch]
      /\ cp' = [cp EXCEPT ![i][s] = rows[s].pos] /\ pc' = [pc EXCEPT ![i][s] = "load"]
      /\ UNCHANGED <<requested, served, failed, setup, bad, applied, letters, replayUntil,
                     parked, to, serving, left, failing>>
  BY DEF Claim, Goto
<1>2. ClaimGoes(i, s)
  BY <1>1, ClaimedAt DEF LettersInv
<1>3. rows \in [Segments -> Row] /\ rows[s].epoch \in Nat /\ rows'[s].epoch \in Nat
      /\ rows[s].pos \in Positions
  BY <1>2 DEF ClaimGoes, LettersInv, StoreTypes, StoreTypeOK, Row
<1>4. LoopTypes' /\ OthersKept(i, s) /\ At(epoch, epoch', i, s, rows'[s].epoch)
      /\ cp'[i][s] = rows[s].pos /\ pc'[i][s] = "load"
  <2> DEFINE n == rows'[s].epoch
             p == rows[s].pos
  <2>1. n \in Nat /\ p \in Positions /\ epoch' = [epoch EXCEPT ![i][s] = n]
        /\ cp' = [cp EXCEPT ![i][s] = p]
    BY <1>1, <1>3
  <2> HIDE DEF n, p
  <2>2. LoopTypes' /\ OthersKept(i, s) /\ At(epoch, epoch', i, s, n)
        /\ cp'[i][s] = p /\ pc'[i][s] = "load"
    BY <1>1, <2>1 DEF LettersInv, LoopTypes, OthersKept, SameLoop, PCs, At
  <2> QED BY <2>2 DEF n, p
<1>5. StoreTypes'
  BY <1>1, <1>2, <1>3 DEF LettersInv, StoreTypes, StoreTypeOK, ClaimGoes, RowKept
<1>6. Mine(i, s) => RowKept(s)
  BY <1>2 DEF ClaimGoes, RowKept, Mine, Owned
<1>7. \A t \in Segments : rows'[t].pos = rows[t].pos /\ (rows'[t].owner # None => rows'[t].epoch > 0)
  <2>1. \A t \in Segments : RowKept(t) => rows'[t].pos = rows[t].pos
                                          /\ (rows'[t].owner # None => rows'[t].epoch > 0)
    BY DEF LettersInv, SegmentSound, RowKept
  <2>2. ~Mine(i, s) => rows'[s].pos = rows[s].pos /\ rows'[s].epoch > 0
    BY <1>2, <1>3 DEF ClaimGoes
  <2> QED BY <1>2, <1>6, <2>1, <2>2 DEF ClaimGoes
<1>8. LoopSound(i, s)'
  <2>1. Knows(i, s)'
    BY <1>2, <1>4 DEF Knows, ClaimGoes
  <2> QED BY <1>3, <1>4, <2>1 DEF LoopSound, At
<1>9. \A j \in Instances, t \in Segments : LoopSound(j, t)'
  <2> TAKE j \in Instances, t \in Segments
  <2>0. LoopSound(j, t) /\ epoch[j][t] \in Nat
    BY DEF LettersInv, LoopTypes
  <2>1. CASE t # s \/ (j # i /\ Mine(i, s))
    <3>1. Kept(j, t)
      BY <1>1, <1>2, <1>4, <1>6, <2>1 DEF OthersKept, Kept, ClaimGoes, At
    <3> QED BY <2>0, <3>1, KeptLoop
  <2>2. CASE t = s /\ j # i /\ ~Mine(i, s)
    <3>1. rows'[s].epoch = rows[s].epoch + 1 /\ epoch'[j][s] = epoch[j][s]
          /\ epoch[j][s] <= rows[s].epoch
      BY <1>2, <1>4, <2>0, <2>2 DEF ClaimGoes, At, LoopSound
    <3>2. ~Mine(j, s)' /\ epoch'[j][s] <= rows'[s].epoch
      BY <1>3, <2>0, <2>2, <3>1 DEF Mine, Owned
    <3>3. Kept(j, s)
      BY <1>1, <1>4, <2>2, <3>2 DEF OthersKept, Kept, RowLocked
    <3> QED BY <2>0, <2>2, <3>3, KeptLoop
  <2> QED BY <1>8, <2>1, <2>2
<1>10. EpochsDiffer'
  <2>1. CASE Mine(i, s)
    <3>1. rows'[s].epoch = epoch[i][s]
      BY <1>2, <2>1 DEF ClaimGoes, Mine, Owned
    <3>2. \A j \in Instances, t \in Segments : epoch'[j][t] = epoch[j][t]
      BY <1>4, <3>1 DEF At
    <3> QED BY <3>2 DEF LettersInv, EpochsDiffer
  <2>2. CASE ~Mine(i, s)
    <3>1. \A j \in Instances : epoch[j][s] \in Nat /\ epoch[j][s] < rows'[s].epoch
      BY <1>2, <1>3, <2>2 DEF ClaimGoes, LettersInv, LoopSound, LoopTypes
    <3>2. \A j, k \in Instances, t \in Segments :
             j # k /\ epoch'[j][t] = epoch'[k][t] => epoch'[j][t] = 0
      <4> TAKE j, k \in Instances, t \in Segments
      <4>1. CASE t = s /\ (j = i \/ k = i)
        BY <1>3, <1>4, <3>1, <4>1 DEF At
      <4>2. CASE ~(t = s /\ (j = i \/ k = i))
        BY <1>4, <4>2 DEF At, LettersInv, EpochsDiffer
      <4> QED BY <4>1, <4>2
    <3> QED BY <3>2 DEF EpochsDiffer
  <2> QED BY <2>1, <2>2
<1>11. Grows
  BY <1>1, <1>7, StaysGrows DEF LettersInv
<1> QED BY <1>1, <1>4, <1>5, <1>7, <1>9, <1>10, <1>11, SegmentsStay DEF LettersInv

\* A Reset under the claim on s: every other goroutine loses its claim.
LEMMA ResetStep ==
    ASSUME IInv, NEW i \in Instances, NEW s \in Segments, Rebuild(i, s), Mine(i, s)
    PROVE  LettersInv' /\ OthersKept(i, s)
<1> USE DEF IInv
<1>1. /\ pc[i][s] = "top" /\ \A t \in Segments : ~RowLocked(t)
      /\ rows' = ResetRows(s, 0) /\ served' = requested
      /\ replayUntil' = [t \in Segments |-> Max({replayUntil[t], rows[t].pos})]
      /\ letters' = [t \in Segments |-> {}] /\ applied' = [e \in Events |-> 0]
      /\ cp' = [cp EXCEPT ![i][s] = 0] /\ parked' = [parked EXCEPT ![i][s] = {}]
      /\ epoch' = [epoch EXCEPT ![i] = [t \in Segments |-> IF t = s THEN @[t] ELSE 0]]
      /\ UNCHANGED <<requested, failed, setup, bad, pc, to, serving, left, failing>>
  BY DEF Rebuild
<1>2. AllReset(s)
  BY <1>1, ResetAt DEF LettersInv
<1>3. replayUntil' \in [Segments -> Positions]
  <2>1. ASSUME NEW t \in Segments PROVE Max({replayUntil[t], rows[t].pos}) \in Positions
    <3>1. replayUntil[t] \in Positions /\ rows[t].pos \in Positions
      BY DEF LettersInv, StoreTypes
    <3> DEFINE S == {replayUntil[t], rows[t].pos}
    <3>2. \E x \in S : \A y \in S : x >= y
      BY <3>1, LogFacts
    <3>3. Max(S) \in S
      BY <3>2 DEF Max
    <3> QED BY <3>1, <3>3
  <2> QED BY <1>1, <2>1
<1>4. StoreTypes'
  BY <1>1, <1>2, <1>3, LogFacts DEF LettersInv, StoreTypes, StoreTypeOK, AllReset
<1>5. /\ epoch' \in [Instances -> [Segments -> Nat]]
      /\ \A j \in Instances, t \in Segments : epoch'[j][t] \in {epoch[j][t], 0}
      /\ epoch'[i][s] = epoch[i][s]
      /\ \A j \in Instances : j # i => epoch'[j][s] = epoch[j][s]
  BY <1>1 DEF LettersInv, LoopTypes
<1>6. LoopTypes' /\ OthersKept(i, s) /\ cp'[i][s] = 0 /\ pc'[i][s] = "top"
  BY <1>1, <1>5, LogFacts DEF LettersInv, LoopTypes, OthersKept, SameLoop
<1>7. \A t \in Segments : SegmentSound(t)'
  <2> TAKE t \in Segments
  <2>1. InSegment(t)' = InSegment(t) /\ InSegment(t) \subseteq Events /\ letters'[t] = {}
    BY <1>1 DEF InSegment
  <2>2. rows'[t].pos = 0 /\ (rows'[t].owner # None => rows'[t].epoch > 0)
    BY <1>2 DEF AllReset, LettersInv, SegmentSound
  <2>3. \A e \in InSegment(t) : applied'[e] = 0 /\ ~(e <= 0)
    BY <1>1, <2>1, LogFacts
  <2> QED BY <2>1, <2>2, <2>3 DEF SegmentSound
<1>8. StreamInOrder'
  BY <1>1 DEF StreamInOrder
<1>9. LoopSound(i, s)'
  <2>1. Knows(i, s)'
    BY <1>1, <1>2, <1>6 DEF Knows, AllReset
  <2> QED BY <1>2, <1>5, <1>6, <2>1 DEF LoopSound, LettersInv, AllReset
<1>10. \A j \in Instances, t \in Segments : LoopSound(j, t)'
  <2> TAKE j \in Instances, t \in Segments
  <2>0. LoopSound(j, t) /\ epoch[j][t] <= rows'[t].epoch /\ epoch'[j][t] <= rows'[t].epoch
    <3>1. LoopSound(j, t) /\ rows[t].epoch \in Nat /\ rows'[t].epoch = rows[t].epoch
      BY <1>2 DEF LettersInv, AllReset, StoreTypes, StoreTypeOK, Row
    <3>2. epoch'[j][t] \in {epoch[j][t], 0} /\ epoch[j][t] <= rows[t].epoch
      BY <1>5, <3>1 DEF LoopSound
    <3> QED BY <3>1, <3>2
  <2>1. CASE j # i \/ t # s
    <3>1. ~Mine(j, t)'
      <4>1. CASE t # s
        BY <1>2, <4>1, StoreAssumption DEF AllReset, Mine, Owned
      <4>2. CASE t = s /\ j # i
        <5>1. ~Mine(j, s)
          BY <4>2, MineOnce
        <5> QED BY <1>2, <1>5, <4>2, <5>1 DEF AllReset, Mine, Owned
      <4> QED BY <2>1, <4>1, <4>2
    <3>2. Kept(j, t)
      BY <1>1, <1>6, <2>0, <2>1, <3>1 DEF OthersKept, Kept, RowLocked
    <3> QED BY <2>0, <3>2, KeptLoop
  <2> QED BY <1>9, <2>1
<1>11. EpochsDiffer'
  <2>1. ASSUME NEW j \in Instances, NEW k \in Instances, NEW t \in Segments, j # k,
               epoch'[j][t] = epoch'[k][t]
        PROVE  epoch'[j][t] = 0
    BY <1>5, <2>1 DEF LettersInv, EpochsDiffer
  <2> QED BY <2>1 DEF EpochsDiffer
<1> QED BY <1>4, <1>6, <1>7, <1>8, <1>10, <1>11 DEF LettersInv

\* A rebuild, with the claim or without.
LEMMA RebuildStep ==
    ASSUME IInv, NEW i \in Instances, NEW s \in Segments, Rebuild(i, s)
    PROVE  LettersInv'
<1>1. CASE Mine(i, s)
  BY <1>1, ResetStep
<1>2. CASE ~Mine(i, s)
  <2>1. Leave(i, s) /\ UNCHANGED <<storeVars, setup, bad, applied, letters, replayUntil>>
    BY <1>2 DEF Rebuild, storeVars
  <2> QED BY <2>1, LeaveStep
<1> QED BY <1>1, <1>2

\* Every goroutine keeps its segment, but those of one instance that restarts.
LEMMA RestartStep ==
    ASSUME IInv, NEW i \in Instances, Restart(i)
    PROVE  LettersInv' /\ Grows
<1> USE DEF IInv
<1>1. /\ pc' = [pc EXCEPT ![i] = [s \in Segments |-> "claim"]]
      /\ cp' = [cp EXCEPT ![i] = [s \in Segments |-> 0]]
      /\ epoch' = [epoch EXCEPT ![i] = [s \in Segments |-> 0]]
      /\ to' = [to EXCEPT ![i] = [s \in Segments |-> 0]]
      /\ parked' = [parked EXCEPT ![i] = [s \in Segments |-> {}]]
      /\ serving' = [serving EXCEPT ![i] = [s \in Segments |-> {}]]
      /\ left' = [left EXCEPT ![i] = [s \in Segments |-> {}]]
      /\ failing' = [failing EXCEPT ![i] = [s \in Segments |-> FALSE]]
      /\ UNCHANGED <<storeVars, setup, bad, applied, letters, replayUntil>>
  BY DEF Restart
<1>2. LoopTypes'
  BY <1>1, LogFacts DEF LettersInv, LoopTypes, PCs
<1>3. StoreTypes'
  BY <1>1 DEF LettersInv, StoreTypes, StoreTypeOK, storeVars
<1>4. \A s \in Segments : pc'[i][s] = "claim" /\ epoch'[i][s] = 0
  BY <1>1 DEF LettersInv, LoopTypes
<1>5. \A j \in Instances, s \in Segments :
         j # i => SameLoop(j, s) /\ epoch'[j][s] = epoch[j][s]
  BY <1>1 DEF LettersInv, LoopTypes, RequestsInv, RequestTypes, SameLoop
<1>6. \A j \in Instances, s \in Segments : LoopSound(j, s)'
  <2> TAKE j \in Instances, s \in Segments
  <2>0. LoopSound(j, s) /\ rows[s].epoch \in Nat /\ rows' = rows /\ letters' = letters
    BY <1>1 DEF LettersInv, StoreTypes, StoreTypeOK, Row, storeVars
  <2>1. CASE j = i
    BY <1>4, <2>0, <2>1 DEF LoopSound
  <2>2. CASE j # i
    <3>1. Kept(j, s)
      BY <1>5, <2>0, <2>2 DEF Kept, RowKept
    <3> QED BY <2>0, <3>1, KeptLoop
  <2> QED BY <2>1, <2>2
<1>7. EpochsDiffer'
  <2>1. ASSUME NEW j \in Instances, NEW k \in Instances, NEW t \in Segments, j # k,
               epoch'[j][t] = epoch'[k][t]
        PROVE  epoch'[j][t] = 0
    BY <1>4, <1>5, <2>1 DEF LettersInv, EpochsDiffer
  <2> QED BY <2>1 DEF EpochsDiffer
<1>8. \A t \in Segments : /\ rows'[t].pos = rows[t].pos
                          /\ rows'[t].owner # None => rows'[t].epoch > 0
  BY <1>1 DEF LettersInv, SegmentSound, storeVars
<1>9. Grows
  BY <1>1, StaysGrows DEF LettersInv, storeVars
<1> QED BY <1>1, <1>2, <1>3, <1>6, <1>7, <1>8, <1>9, SegmentsStay DEF LettersInv

\* Claims and checkpoints stay, and so do the goroutines.
LEMMA QuietStep ==
    ASSUME IInv, rows' \in [Segments -> Row], \A t \in Segments : RowKept(t),
           requested' \in Nat, bad' \subseteq Events,
           UNCHANGED <<served, failed, setup, applied, letters, replayUntil,
                       pc, cp, epoch, parked, to, serving, left, failing>>
    PROVE  LettersInv' /\ Grows
<1> USE DEF IInv
<1>1. StoreTypes' /\ LoopTypes'
  BY DEF LettersInv, StoreTypes, StoreTypeOK, LoopTypes, RowKept
<1>2. \A j \in Instances, s \in Segments : LoopSound(j, s)'
  <2> TAKE j \in Instances, s \in Segments
  <2>1. LoopSound(j, s) /\ Kept(j, s)
    BY DEF LettersInv, Kept, SameLoop
  <2> QED BY <2>1, KeptLoop
<1>3. EpochsDiffer'
  BY DEF LettersInv, EpochsDiffer
<1>4. \A t \in Segments : /\ rows'[t].pos = rows[t].pos
                          /\ rows'[t].owner # None => rows'[t].epoch > 0
  BY DEF LettersInv, SegmentSound, RowKept
<1>5. Grows
  BY <1>4, StaysGrows DEF LettersInv
<1> QED BY <1>1, <1>2, <1>3, <1>4, <1>5, SegmentsStay DEF LettersInv

\* What the steps of the poller, of a ReplayStream and of the surroundings leave alone.
Apart ==
    /\ requested' \in Nat /\ bad' \subseteq Events
    /\ UNCHANGED <<rows, served, failed, setup, applied, letters, replayUntil, goVars>>

\* Their steps touch neither segments nor goroutines.
LEMMA ApartStep == ASSUME IInv, Apart PROVE LettersInv' /\ Grows
<1>1. rows' \in [Segments -> Row] /\ \A t \in Segments : RowKept(t)
  BY DEF Apart, IInv, LettersInv, StoreTypes, StoreTypeOK, RowKept
<1> QED BY <1>1, QuietStep DEF Apart, goVars

\* These are the steps.
LEMMA ApartActions ==
    ASSUME IInv,
           \/ \E i \in Instances : Poll(i) \/ \E stream \in Streams : ReplayStream(i, stream)
           \/ \E n \in Numbers : Answered(n) \/ GivesUp(n)
           \/ RequestsRebuild
           \/ \E e \in Events : Fix(e)
    PROVE  Apart
<1>0. requested \in Nat /\ requested + 1 \in Nat /\ bad \subseteq Events
  BY DEF IInv, LettersInv, StoreTypes, StoreTypeOK
<1>1. CASE \E i \in Instances : Poll(i)
  BY <1>0, <1>1 DEF Poll, PollReplays, ReadPending, queueReplays, Apart, storeVars
<1>2. CASE \E i \in Instances : \E stream \in Streams : ReplayStream(i, stream)
  BY <1>0, <1>2 DEF ReplayStream, Apart, storeVars
<1>3. CASE \E n \in Numbers : Answered(n) \/ GivesUp(n)
  BY <1>0, <1>3 DEF Answered, GivesUp, Returns, Apart, storeVars
<1>4. CASE RequestsRebuild
  BY <1>0, <1>4 DEF RequestsRebuild, RequestRebuild, Apart, storeVars
<1>5. CASE \E e \in Events : Fix(e)
  BY <1>0, <1>5 DEF Fix, Apart, storeVars
<1> QED BY <1>1, <1>2, <1>3, <1>4, <1>5

\* A claim runs out, unless a FinishReplay has the row.
LEMMA ExpireStep ==
    ASSUME IInv, NEW s \in Segments, Expire(s)
    PROVE  LettersInv' /\ Grows
<1>1. rows' = Expired(s) /\ UNCHANGED <<requested, served, failed, setup, bad, applied, letters,
                                        replayUntil, goVars>>
  BY DEF Expire
<1>2. rows' \in [Segments -> Row] /\ \A t \in Segments : RowKept(t)
  BY <1>1, ExpiredAt DEF IInv, LettersInv
<1>3. requested \in Nat /\ bad \subseteq Events
  BY DEF IInv, LettersInv, StoreTypes, StoreTypeOK
<1> QED BY <1>1, <1>2, <1>3, QuietStep DEF goVars

\* A Commit fails, or only its answer is lost: the goroutine leaves, or ends the
\* replay, and in both cases holds on to nothing that may be wrong.
LEMMA CommitFailsStep ==
    ASSUME IInv, NEW i \in Instances, NEW s \in Segments, CommitFails(i, s)
    PROVE  LettersInv' /\ OthersKept(i, s) /\ Grows
<1> USE DEF IInv
<1>1. /\ pc[i][s] \in {"read", "one", "replay"} /\ Mine(i, s)
      /\ pc[i][s] = "replay" => left[i][s] # {}
      /\ Writes(i, s) \/ UNCHANGED <<rows, applied, letters>>
      /\ UNCHANGED <<requested, served, failed, setup, bad, replayUntil>>
  BY DEF CommitFails
<1>2. LoopSound(i, s) /\ Knows(i, s) /\ cp[i][s] = rows[s].pos
  BY <1>1, AtWork
<1>3. ASSUME Writes(i, s)
      PROVE  \E pos : Advances(s, pos) /\ (pc[i][s] = "replay" =>
                        pos = rows[s].pos /\ letters'[s] \subseteq letters[s])
  <2>1. CASE pc[i][s] = "read" /\ Skips(i, s) = {} /\ BatchWrites(i, s)
    BY <1>1, <2>1, BatchWritesStep
  <2>2. CASE pc[i][s] = "one" /\ Batch(i, s, to[i][s]) # {} /\ EventWrites(i, s)
    <3>1. Advances(s, NextOne(i, s))
      BY <1>1, <2>2, EventWritesStep
    <3> QED BY <2>2, <3>1
  <2>3. CASE /\ pc[i][s] = "one" /\ Batch(i, s, to[i][s]) = {} /\ to[i][s] > cp[i][s]
             /\ CommitAt(s, to[i][s]) /\ UNCHANGED <<applied, letters>>
    BY <1>1, <2>3, EndWritesStep
  <2>4. CASE pc[i][s] = "replay" /\ LetterWrites(i, s)
    <3>1. Advances(s, rows[s].pos) /\ letters'[s] \subseteq letters[s]
      BY <1>1, <2>4, LetterWritesStep
    <3> QED BY <3>1
  <2> QED BY <1>3, <2>1, <2>2, <2>3, <2>4 DEF Writes
<1>4. \/ UNCHANGED <<rows, applied, letters>>
      \/ \E pos : Advances(s, pos) /\ (pc[i][s] = "replay" =>
                      pos = rows[s].pos /\ letters'[s] \subseteq letters[s])
  BY <1>1, <1>3
<1>5. SUFFICES LoopTypes' /\ OthersKept(i, s) /\ LoopSound(i, s)' /\ epoch' = epoch
  <2>1. CASE UNCHANGED <<rows, applied, letters>>
    BY <1>1, <1>5, <2>1, LocalStep DEF storeVars
  <2>2. CASE \E pos : Advances(s, pos)
    BY <1>1, <1>5, <2>2, CommitStep
  <2> QED BY <1>4, <2>1, <2>2
<1>6. epoch[i][s] <= rows'[s].epoch
  BY <1>2, <1>4 DEF LoopSound, Advances, Moved
<1>7. CASE pc[i][s] # "replay"
  <2>1. Leave(i, s)
    BY <1>7 DEF CommitFails
  <2>2. LoopTypes' /\ OthersKept(i, s) /\ pc'[i][s] = "claim" /\ epoch' = epoch
    BY <2>1, LeftLoop
  <2> QED BY <1>6, <2>2 DEF LoopSound
<1>8. CASE pc[i][s] = "replay"
  <2>1. /\ failing' = [failing EXCEPT ![i][s] = TRUE] /\ left' = [left EXCEPT ![i][s] = {}]
        /\ pc' = [pc EXCEPT ![i][s] = "finish"]
        /\ UNCHANGED <<cp, epoch, parked, to, serving>>
    BY <1>8 DEF CommitFails, ReplayFails, Goto
  <2>2. LoopTypes' /\ OthersKept(i, s) /\ failing'[i][s] = TRUE /\ pc'[i][s] = "finish"
    BY <2>1 DEF LettersInv, LoopTypes, OthersKept, SameLoop, PCs
  <2>3. rows'[s].pos = rows[s].pos /\ letters'[s] \subseteq letters[s]
    BY <1>4, <1>8 DEF Advances, Moved
  <2>4. Knows(i, s)'
    BY <1>2, <1>8, <2>1, <2>2, <2>3 DEF Knows
  <2> QED BY <1>6, <2>1, <2>2, <2>4 DEF LoopSound
<1> QED BY <1>7, <1>8

\* The steps of a goroutine.
LEMMA WorkStep ==
    ASSUME IInv, NEW i \in Instances, NEW s \in Segments,
           Work(i, s) \/ CommitFails(i, s) \/ FinishFails(i, s)
    PROVE  LettersInv'
<1>1. CASE ClaimLost(i, s)
  BY <1>1, LeaveStep DEF ClaimLost
<1>2. CASE replayStream(i, s)
  BY <1>2, ReplayOneStep, ReplayEndsStep
<1>3. CASE FinishReplay(i, s)
  BY <1>3, ServedStep DEF FinishReplay
<1>4. CASE CommitFinish(i, s)
  BY <1>4, ServedStep DEF CommitFinish
<1>5. CASE FinishFails(i, s)
  BY <1>5, ServedStep DEF FinishFails
<1> QED BY <1>1, <1>2, <1>3, <1>4, <1>5, ClaimStep, loadParkedStep, RebuildStep, TopStep,
           applyBatchStep, applyOneByOneStep, EndOfBatchStep, TakeReplayStep, LockRequestStep,
           dropReplaysStep, CommitFailsStep DEF Work

\* Every step keeps the segments and the goroutines sound.
LEMMA LettersStep == ASSUME IInv, [Next]_vars PROVE LettersInv'
<1>1. CASE UNCHANGED vars
  <2>1. Apart
    BY <1>1 DEF vars, storeVars, goVars, Apart, IInv, LettersInv, StoreTypes, StoreTypeOK
  <2> QED BY <2>1, ApartStep
<1>2. CASE Next
  BY <1>2, ApartActions, ApartStep, RestartStep, WorkStep, ExpireStep DEF Next
<1> QED BY <1>1, <1>2

\* Nothing is processed at the start.
LEMMA InitLetters == Init => LettersInv
<1> SUFFICES ASSUME Init PROVE LettersInv
  OBVIOUS
<1>1. StoreTypes
  <2>1. rows \in [Segments -> Row] /\ \A s \in Segments : rows[s].pos = 0 /\ rows[s].owner = None
    BY DEF Init, StoreInit, Row
  <2>2. bad \subseteq Events
    BY SetupFacts DEF Init
  <2>3. /\ applied \in [Events -> Nat] /\ letters \in [Segments -> SUBSET Events]
        /\ replayUntil \in [Segments -> Positions] /\ setup \in Setups
    BY LogFacts DEF Init
  <2>4. requested \in Nat /\ served \in Nat /\ failed \in Nat
    BY DEF Init, StoreInit
  <2> QED BY <2>1, <2>2, <2>3, <2>4, LogFacts DEF StoreTypes, StoreTypeOK
<1>2. LoopTypes
  BY LogFacts DEF Init, PerSegment, LoopTypes, PCs
<1>3. /\ \A s \in Segments : rows[s].pos = 0 /\ rows[s].owner = None /\ rows[s].epoch = 0
                             /\ letters[s] = {}
      /\ \A e \in Events : applied[e] = 0 /\ ~(e <= 0)
      /\ \A i \in Instances, s \in Segments : pc[i][s] = "claim" /\ epoch[i][s] = 0
  BY LogFacts DEF Init, StoreInit, PerSegment
<1>4. \A s \in Segments : SegmentSound(s)
  BY <1>3 DEF SegmentSound, InSegment
<1>5. \A i \in Instances, s \in Segments : LoopSound(i, s)
  BY <1>3 DEF LoopSound
<1>6. EpochsDiffer /\ StreamInOrder
  BY <1>3 DEF EpochsDiffer, StreamInOrder
<1> QED BY <1>1, <1>2, <1>4, <1>5, <1>6 DEF LettersInv

-----------------------------------------------------------------------------
(***************************************************************************)
(* Requests.  A goroutine or poller that leaves the store's requests alone   *)
(* only has to show what it does with those it knows of.                     *)
(***************************************************************************)

\* Calls return or stay.
CallsShrink ==
    /\ caller' \in [Numbers -> Instances \cup {None}]
    /\ owed' \in [Numbers -> SUBSET Events]
    /\ \A n \in Numbers : owed'[n] \subseteq owed[n]

\* Letters a call is about are not added to, because they were passed.
LEMMA OwedLettersStay ==
    ASSUME IInv, LettersInv', Grows, UNCHANGED setup, CallsShrink, NEW n \in Numbers
    PROVE  /\ \A e \in owed'[n] : e <= rows'[setup.segmentOf[e]].pos
           /\ \A s \in Segments : owed'[n] \cap letters'[s] \subseteq letters[s]
           /\ NothingOwed(n) => NothingOwed(n)'
<1>0. owed'[n] \subseteq owed[n] /\ owed[n] \subseteq Events
  BY DEF CallsShrink, IInv, RequestsInv, RequestTypes
<1>1. ASSUME NEW e \in owed'[n]
      PROVE  /\ e \in Events /\ setup.segmentOf[e] \in Segments
             /\ e <= rows[setup.segmentOf[e]].pos /\ e <= rows'[setup.segmentOf[e]].pos
  <2>1. e \in owed[n] /\ e \in Events /\ e <= rows[setup.segmentOf[e]].pos
    BY <1>0 DEF IInv, RequestsInv, OwedSound
  <2>2. setup.segmentOf[e] \in Segments
    BY <2>1, SetupFacts DEF IInv, LettersInv, StoreTypes
  <2>3. e \in Nat /\ \A s \in Segments : rows[s].pos \in Nat /\ rows'[s].pos \in Nat
    BY <2>1, LogFacts DEF IInv, LettersInv, StoreTypes
  <2> QED BY <2>1, <2>2, <2>3 DEF Grows
<1>2. ASSUME NEW s \in Segments, NEW e \in owed'[n], e \in letters'[s] PROVE e \in letters[s]
  <2>1. e \in InSegment(s) /\ setup.segmentOf[e] = s /\ e \in Events
    BY <1>1, <1>2 DEF LettersInv, SegmentSound, InSegment
  <2>2. /\ applied'[e] + (IF e \in letters'[s] THEN 1 ELSE 0)
             = IF e <= rows'[s].pos THEN 1 ELSE 0
        /\ applied'[e] \in Nat
    BY <1>2, <2>1 DEF LettersInv, SegmentSound, StoreTypes, InSegment
  <2>3. applied'[e] = 0 /\ applied[e] <= applied'[e] /\ applied[e] \in Nat
    <3>1. applied'[e] + 1 = IF e <= rows'[s].pos THEN 1 ELSE 0
      BY <1>2, <2>2
    <3>2. applied'[e] = 0
      BY <2>2, <3>1
    <3>3. applied[e] \in Nat
      BY <2>1 DEF IInv, LettersInv, StoreTypes
    <3> QED BY <2>1, <3>2, <3>3 DEF Grows
  <2>4. applied[e] = 0 /\ e <= rows[s].pos
    BY <1>1, <2>1, <2>3
  <2> QED BY <2>1, <2>4, PassedOrNot DEF IInv
<1> QED BY <1>0, <1>1, <1>2 DEF NothingOwed

\* So what is said of them stays true while the requests do.
LEMMA OwedStays ==
    ASSUME IInv, LettersInv', Grows, UNCHANGED <<setup, replays>>, CallsShrink
    PROVE  OwedSound'
<1> SUFFICES ASSUME NEW n \in Numbers
             PROVE  /\ \A e \in owed'[n] :
                         /\ e <= rows'[setup.segmentOf[e]].pos
                         /\ Known(n) => StreamOf[e] = replays[n].stream
                    /\ \A s \in Segments : \A e \in owed'[n] \cap letters'[s] :
                         /\ Known(n)
                         /\ \A m \in DOMAIN replays : m >= n /\ replays[m].stream = StreamOf[e] =>
                               Rows(m)[s] \in {"pending", "failed"}
  BY DEF OwedSound, Known, Rows
<1>1. /\ \A e \in owed'[n] : e <= rows'[setup.segmentOf[e]].pos
      /\ \A s \in Segments : owed'[n] \cap letters'[s] \subseteq letters[s]
      /\ owed'[n] \subseteq owed[n]
  BY OwedLettersStay DEF CallsShrink
<1> QED BY <1>1 DEF IInv, RequestsInv, OwedSound

\* What is said of requests, but for where they are queued.
StoreRequests ==
    NumbersInOrder /\ FinishingApart /\ OwedSound /\ SucceededIsDeleted
    /\ \A i \in Instances, s \in Segments : FinishingSound(i, s)

\* A FinishReplay that has its locks is where it was.
StillFinishing(j, t) ==
    pc'[j][t] = "finishing" =>
        /\ pc[j][t] = "finishing" /\ serving'[j][t] = serving[j][t]
        /\ gone'[j][t] = gone[j][t] /\ failing'[j][t] = failing[j][t]

FinishingKept == \A j \in Instances, t \in Segments : StillFinishing(j, t)

\* No new FinishReplay, no new conflict.
LEMMA FinishingApartStays == ASSUME FinishingApart, FinishingKept PROVE FinishingApart'
<1>1. \A j \in Instances, t \in Segments :
         pc'[j][t] = "finishing" => pc[j][t] = "finishing" /\ First(j, t)' = First(j, t)
  BY SameFirst DEF FinishingKept, StillFinishing
<1> QED BY <1>1 DEF FinishingApart

\* A request FinishReplay holds is as it was.
LEMMA FinishingSoundStays ==
    ASSUME NEW j \in Instances, NEW t \in Segments, FinishingSound(j, t), StillFinishing(j, t),
           UNCHANGED setup,
           pc[j][t] = "finishing" => \A m \in gone[j][t] : NothingOwed(m) => NothingOwed(m)',
           pc[j][t] = "finishing" /\ Known(First(j, t).number) =>
               /\ First(j, t).number \in DOMAIN replays'
               /\ replays'[First(j, t).number] = replays[First(j, t).number]
    PROVE  FinishingSound(j, t)'
<1> SUFFICES ASSUME pc'[j][t] = "finishing" PROVE FinishingSound(j, t)'
  BY DEF FinishingSound
<1> DEFINE n == First(j, t).number
<1>1. /\ pc[j][t] = "finishing" /\ First(j, t)' = First(j, t)
      /\ gone'[j][t] = gone[j][t] /\ failing'[j][t] = failing[j][t]
  BY SameFirst DEF StillFinishing
<1>2. Known(n) /\ n \in DOMAIN replays' /\ replays'[n] = replays[n]
  BY <1>1 DEF FinishingSound
<1>3. Tried(n, t, ~failing[j][t])'[n].state = Tried(n, t, ~failing[j][t])[n].state
  BY <1>1, <1>2 DEF Tried, Known
<1>4. \A m \in gone'[j][t] : NothingOwed(m)'
  BY <1>1 DEF FinishingSound
<1> QED BY <1>1, <1>2, <1>3, <1>4 DEF FinishingSound, AllServed, Known

\* A step that leaves the requests in the store alone.
LEMMA StoreRequestsStay ==
    ASSUME IInv, LettersInv', Grows, FinishingKept, UNCHANGED <<setup, replays, used>>, CallsShrink
    PROVE  StoreRequests'
<1> USE DEF IInv, RequestsInv
<1>1. NumbersInOrder' /\ SucceededIsDeleted'
  BY DEF NumbersInOrder, SucceededIsDeleted, Rows
<1>2. FinishingApart'
  BY FinishingApartStays
<1>3. OwedSound'
  BY OwedStays
<1>4. \A j \in Instances, t \in Segments : FinishingSound(j, t)'
  <2> TAKE j \in Instances, t \in Segments
  <2>1. FinishingSound(j, t) /\ StillFinishing(j, t)
    BY DEF FinishingKept
  <2>2. \A m \in gone[j][t] : NothingOwed(m) => NothingOwed(m)'
    BY OwedLettersStay DEF RequestTypes
  <2> QED BY <2>1, <2>2, FinishingSoundStays DEF Known
<1> QED BY <1>1, <1>2, <1>3, <1>4 DEF StoreRequests

\* The calls wait.
LEMMA CallsStay == ASSUME IInv, UNCHANGED <<caller, owed>> PROVE CallsShrink
BY DEF IInv, RequestsInv, RequestTypes, CallsShrink

Replaying == {"take", "replay", "finish", "finishing"}

\* What a goroutine, and the queues it takes from, have of requests.
QueueTypes ==
    /\ serving \in [Instances -> [Segments -> SUBSET Replay]]
    /\ pending \in [Instances -> [Segments -> SUBSET Replay]]
    /\ queued \in [Instances -> SUBSET Replay]
    /\ gone \in [Instances -> [Segments -> SUBSET Numbers]]
    /\ \A i \in Instances, s \in Segments : gone[i][s] \subseteq used

\* A goroutine does something else than to finish, and takes no request but from its queue.
LEMMA GoStep ==
    ASSUME IInv, NEW i \in Instances, NEW s \in Segments,
           LettersInv', OthersKept(i, s), Grows, QueueTypes',
           UNCHANGED <<setup, replays, used, caller, owed, found>>,
           \A j \in Instances, t \in Segments : j # i \/ t # s =>
               pending'[j][t] = pending[j][t] /\ gone'[j][t] = gone[j][t],
           serving'[i][s] \cup pending'[i][s] \subseteq serving[i][s] \cup pending[i][s],
           pc'[i][s] \in Replaying => serving'[i][s] # {},
           pc'[i][s] # "finishing"
    PROVE  RequestsInv'
<1> USE DEF IInv, RequestsInv
<1>1. RequestTypes'
  BY DEF RequestTypes, QueueTypes
<1>2. \A r : Made(r)' <=> Made(r)
  BY DEF Made, Known
<1>3. RequestsMade'
  <2>1. ASSUME NEW j \in Instances, NEW t \in Segments
        PROVE  /\ \A r \in serving'[j][t] \cup pending'[j][t] : Made(r)
               /\ pc'[j][t] \in Replaying => serving'[j][t] # {}
    BY DEF OthersKept, SameLoop, RequestsMade, Replaying
  <2> QED BY <1>2, <2>1 DEF RequestsMade, Replaying
<1>4. FinishingKept
  BY DEF FinishingKept, StillFinishing, OthersKept, SameLoop
<1>5. StoreRequests'
  BY <1>4, CallsStay, StoreRequestsStay
<1> QED BY <1>1, <1>3, <1>5 DEF StoreRequests

\* Leaving work(): the queues of the segment are dropped.
LEMMA LeaveRequests ==
    ASSUME IInv, NEW i \in Instances, NEW s \in Segments, Leave(i, s),
           LettersInv', OthersKept(i, s), Grows,
           UNCHANGED <<setup, replays, pollVars, callVars>>
    PROVE  RequestsInv'
<1>2. /\ serving' = [serving EXCEPT ![i][s] = {}] /\ pending' = [pending EXCEPT ![i][s] = {}]
      /\ gone' = [gone EXCEPT ![i][s] = {}] /\ pc' = [pc EXCEPT ![i][s] = "claim"]
      /\ queued' = [queued EXCEPT ![i] = {r \in @ : r.segment # s}]
  BY DEF Leave, Inactive, Goto
<1>3. QueueTypes'
  <2>1. queued' \in [Instances -> SUBSET Replay]
    BY <1>2 DEF IInv, RequestsInv, RequestTypes
  <2>2. \A j \in Instances, t \in Segments : gone'[j][t] \subseteq used'
    BY <1>2 DEF IInv, RequestsInv, RequestTypes, callVars
  <2> QED BY <1>2, <2>1, <2>2 DEF QueueTypes, IInv, RequestsInv, RequestTypes
<1>4. /\ serving'[i][s] = {} /\ pending'[i][s] = {} /\ pc'[i][s] = "claim"
      /\ \A j \in Instances, t \in Segments : j # i \/ t # s =>
           pending'[j][t] = pending[j][t] /\ gone'[j][t] = gone[j][t]
  BY <1>2 DEF IInv, RequestsInv, RequestTypes, LettersInv, LoopTypes
<1> QED BY <1>3, <1>4, GoStep DEF Replaying, callVars, pollVars

\* A step that leaves its requests where they are.
LEMMA PlainStep ==
    ASSUME IInv, NEW i \in Instances, NEW s \in Segments,
           LettersInv', OthersKept(i, s), Grows,
           UNCHANGED <<setup, replays, used, caller, owed, found, serving, pending, gone>>,
           queued' \in [Instances -> SUBSET Replay],
           pc'[i][s] # "finishing", pc'[i][s] \in Replaying => pc[i][s] \in Replaying
    PROVE  RequestsInv'
<1>1. QueueTypes'
  BY DEF QueueTypes, IInv, RequestsInv, RequestTypes
<1>2. pc'[i][s] \in Replaying => serving'[i][s] # {}
  BY DEF IInv, RequestsInv, RequestsMade, Replaying
<1> QED BY <1>1, <1>2, GoStep

\* Such steps.
LEMMA PlainActions ==
    ASSUME IInv, NEW i \in Instances, NEW s \in Segments,
           \/ Claim(i, s) \/ loadParked(i, s) \/ applyBatch(i, s) \/ EndOfBatch(i, s)
           \/ TakeReplay(i, s) \/ replayStream(i, s) \/ dropReplays(i, s)
    PROVE  RequestsInv'
<1>1. LettersInv' /\ OthersKept(i, s) /\ Grows
  BY ClaimStep, loadParkedStep, applyBatchStep, EndOfBatchStep, TakeReplayStep, ReplayOneStep,
     ReplayEndsStep, dropReplaysStep
<1>2. UNCHANGED <<setup, replays, used, caller, owed, found, serving, pending, gone>>
  BY DEF Claim, loadParked, applyBatch, EndOfBatch, TakeReplay, replayStream, dropReplays,
         queueVars, pollVars, callVars
<1>3. queued' \in [Instances -> SUBSET Replay]
  <2>1. queued \in [Instances -> SUBSET Replay]
    BY DEF IInv, RequestsInv, RequestTypes
  <2>2. CASE dropReplays(i, s)
    BY <2>1, <2>2 DEF dropReplays
  <2>3. CASE ~dropReplays(i, s)
    BY <2>1, <2>3 DEF Claim, loadParked, applyBatch, EndOfBatch, TakeReplay, replayStream, queueVars
  <2> QED BY <2>2, <2>3
<1>4. pc'[i][s] # "finishing" /\ (pc'[i][s] \in Replaying => pc[i][s] \in Replaying)
  <2>1. pc \in [Instances -> [Segments -> PCs]]
    BY DEF IInv, LettersInv, LoopTypes
  <2>2. CASE Claim(i, s) \/ loadParked(i, s)
    BY <2>1, <2>2 DEF Claim, loadParked, Goto, Replaying
  <2>3. CASE applyBatch(i, s) \/ EndOfBatch(i, s)
    BY <2>1, <2>3 DEF applyBatch, EndOfBatch, Goto, Replaying
  <2>4. CASE TakeReplay(i, s)
    BY <2>1, <2>4 DEF TakeReplay, Goto, Replaying
  <2>5. CASE replayStream(i, s)
    BY <2>1, <2>5 DEF replayStream, ReplayFails, Goto, Replaying
  <2>6. CASE dropReplays(i, s)
    BY <2>1, <2>6 DEF dropReplays, Goto, Replaying
  <2> QED BY <2>2, <2>3, <2>4, <2>5, <2>6
<1> QED BY <1>1, <1>2, <1>3, <1>4, PlainStep

\* One event of a batch.
LEMMA OneByOneRequests ==
    ASSUME IInv, NEW i \in Instances, NEW s \in Segments, applyOneByOne(i, s)
    PROVE  RequestsInv'
<1>0. LettersInv' /\ OthersKept(i, s) /\ Grows
  BY applyOneByOneStep
<1>1. CASE Stalls(i, s)
  BY <1>0, <1>1, LeaveRequests DEF applyOneByOne
<1>2. CASE ~Stalls(i, s)
  <2>2. /\ UNCHANGED <<setup, replays, used, caller, owed, found, pc, serving, gone, pending, queued>>
        /\ pc[i][s] = "one"
    BY <1>2 DEF applyOneByOne, pollVars, callVars, queueVars
  <2>3. queued' \in [Instances -> SUBSET Replay]
    BY <2>2 DEF IInv, RequestsInv, RequestTypes
  <2> QED BY <1>0, <2>2, <2>3, PlainStep
<1> QED BY <1>1, <1>2

\* A Commit that fails.
LEMMA CommitFailsRequests ==
    ASSUME IInv, NEW i \in Instances, NEW s \in Segments, CommitFails(i, s)
    PROVE  RequestsInv'
<1>0. LettersInv' /\ OthersKept(i, s) /\ Grows
  BY CommitFailsStep
<1>1. CASE pc[i][s] # "replay"
  BY <1>0, <1>1, LeaveRequests DEF CommitFails
<1>2. CASE pc[i][s] = "replay"
  <2>1. /\ UNCHANGED <<setup, replays, used, caller, owed, found, serving, gone, pending, queued>>
        /\ pc' = [pc EXCEPT ![i][s] = "finish"]
    BY <1>2 DEF CommitFails, ReplayFails, Goto, pollVars, callVars, queueVars
  <2>2. queued' \in [Instances -> SUBSET Replay] /\ pc'[i][s] = "finish"
    BY <2>1 DEF IInv, LettersInv, LoopTypes, RequestsInv, RequestTypes
  <2> QED BY <1>0, <1>2, <2>1, <2>2, PlainStep DEF Replaying
<1> QED BY <1>1, <1>2

\* Taking what is queued.
LEMMA TopRequests ==
    ASSUME IInv, NEW i \in Instances, NEW s \in Segments, Top(i, s)
    PROVE  RequestsInv'
<1>1. LettersInv' /\ OthersKept(i, s) /\ Grows
  BY TopStep
<1>2. /\ UNCHANGED <<setup, replays, used, caller, owed, found, queued, gone>>
      /\ pc[i][s] = "top"
  BY DEF Top, pollVars, callVars
<1>3. serving \in [Instances -> [Segments -> SUBSET Replay]]
      /\ pending \in [Instances -> [Segments -> SUBSET Replay]]
      /\ pc \in [Instances -> [Segments -> PCs]]
  BY DEF IInv, RequestsInv, RequestTypes, LettersInv, LoopTypes
<1>4. CASE pending[i][s] # {}
  <2> DEFINE v == pending[i][s]
  <2>1. /\ serving' = [serving EXCEPT ![i][s] = v] /\ pending' = [pending EXCEPT ![i][s] = {}]
        /\ pc' = [pc EXCEPT ![i][s] = "take"] /\ v \in SUBSET Replay /\ v # {}
    BY <1>3, <1>4 DEF Top, Goto
  <2> HIDE DEF v
  <2>2. /\ QueueTypes' /\ serving'[i][s] = v /\ pending'[i][s] = {} /\ pc'[i][s] = "take"
        /\ \A j \in Instances, t \in Segments : j # i \/ t # s => pending'[j][t] = pending[j][t]
    BY <1>2, <1>3, <2>1 DEF QueueTypes, IInv, RequestsInv, RequestTypes
  <2>3. serving'[i][s] \cup pending'[i][s] \subseteq serving[i][s] \cup pending[i][s]
    BY <2>2 DEF v
  <2> QED BY <1>1, <1>2, <2>1, <2>2, <2>3, GoStep
<1>5. CASE pending[i][s] = {}
  <2>1. UNCHANGED <<serving, pending>> /\ pc'[i][s] = "read"
    BY <1>3, <1>5 DEF Top, Goto
  <2>2. queued' \in [Instances -> SUBSET Replay]
    BY <1>2 DEF IInv, RequestsInv, RequestTypes
  <2> QED BY <1>1, <1>2, <2>1, <2>2, PlainStep DEF Replaying
<1> QED BY <1>4, <1>5

-----------------------------------------------------------------------------
(* FinishReplay.                                                             *)

\* The request a goroutine serves is one of those it has taken.
LEMMA FirstFacts ==
    ASSUME IInv, NEW i \in Instances, NEW s \in Segments, serving[i][s] # {}
    PROVE  /\ First(i, s) \in serving[i][s] /\ First(i, s) \in Replay
           /\ First(i, s).number \in used /\ Made(First(i, s))
<1> DEFINE V == serving[i][s]
           S == {r.number : r \in V}
<1>1. V \subseteq Replay /\ \A r \in V : r.number \in Numbers
  BY DEF IInv, RequestsInv, RequestTypes, Replay
<1>2. Numbers \subseteq Nat
  BY LettersAssumption, FS_CardinalityType
<1>3. S \subseteq Nat /\ S # {}
  BY <1>1, <1>2
<1>4. Min(S) \in S /\ \A k \in S : Min(S) <= k
  <2> HIDE DEF S
  <2> QED BY <1>3, MinFacts
<1>5. \E r \in V : \A q \in V : r.number <= q.number
  BY <1>4
<1>6. First(i, s) \in V
  BY <1>5 DEF First
<1> QED BY <1>1, <1>6 DEF IInv, RequestsInv, RequestsMade, Made

\* Requests are numbered.
LEMMA NumbersAre == Numbers \subseteq Nat /\ IsFiniteSet(Numbers)
BY LettersAssumption, FS_CardinalityType

\* What Tried does to the request's states.
LEMMA TriedFacts ==
    ASSUME RequestTypes, NEW n, Known(n), NEW s \in Segments, NEW ok \in BOOLEAN
    PROVE  LET after == Tried(n, s, ok) IN
           /\ DOMAIN after = DOMAIN replays
           /\ after \in [DOMAIN replays -> [stream : Streams, state : States]]
           /\ \A m \in DOMAIN replays : m # n => after[m] = replays[m]
           /\ after[n].stream = replays[n].stream
           /\ \A t \in Segments : t # s => after[n].state[t] = Rows(n)[t]
           /\ after[n].state[s] = IF Rows(n)[s] = "none" THEN "none"
                                  ELSE IF ok THEN "ok" ELSE "failed"
<1> DEFINE v == IF Rows(n)[s] = "none" THEN "none" ELSE IF ok THEN "ok" ELSE "failed"
<1>1. n \in DOMAIN replays /\ replays[n] \in [stream : Streams, state : States]
      /\ Rows(n) \in States /\ Rows(n) = replays[n].state
  BY DEF Known, RequestTypes, Rows
<1>2. Tried(n, s, ok) = [replays EXCEPT ![n].state[s] = v]
  BY <1>1 DEF Tried, Rows
<1>3. v \in {"none", "pending", "ok", "failed"}
  OBVIOUS
<1> HIDE DEF v
<1> DEFINE q == [replays[n] EXCEPT !.state[s] = v]
<1>4. /\ q \in [stream : Streams, state : States] /\ q.stream = replays[n].stream
      /\ \A t \in Segments : t # s => q.state[t] = Rows(n)[t]
      /\ q.state[s] = v
  BY <1>1, <1>3 DEF States
<1>5. Tried(n, s, ok) = [replays EXCEPT ![n] = q]
  BY <1>2
<1> HIDE DEF q
<1>6. replays \in [DOMAIN replays -> [stream : Streams, state : States]]
  BY DEF RequestTypes
<1> QED BY <1>1, <1>4, <1>5, <1>6 DEF v

\* What a sweep after n leaves: all, or what is later, unserved or of another stream.
LEMMA SweptFacts ==
    ASSUME NEW reqs, NEW n \in DOMAIN reqs, DOMAIN reqs \subseteq Nat,
           reqs \in [DOMAIN reqs -> [stream : Streams, state : States]]
    PROVE  LET swept == Swept(reqs, n) IN
           /\ DOMAIN swept \subseteq DOMAIN reqs
           /\ swept \in [DOMAIN swept -> [stream : Streams, state : States]]
           /\ \A m \in DOMAIN swept : swept[m] = reqs[m]
           /\ \A m \in DOMAIN reqs \ DOMAIN swept :
                 m <= n /\ reqs[m].stream = reqs[n].stream /\ AllServed(reqs[n].state)
           /\ n \in DOMAIN swept <=> ~AllServed(reqs[n].state)
<1>1. CASE ~AllServed(reqs[n].state)
  <2>1. Swept(reqs, n) = reqs
    BY <1>1 DEF Swept, AllServed
  <2> QED BY <1>1, <2>1
<1>2. CASE AllServed(reqs[n].state)
  <2> DEFINE D == {m \in DOMAIN reqs :
                     ~(/\ m <= n /\ reqs[m].stream = reqs[n].stream
                       /\ \A s \in Segments : reqs[m].state[s] # "pending")}
  <2>1. Swept(reqs, n) = [m \in D |-> reqs[m]]
    BY <1>2 DEF Swept, AllServed
  <2>2. n \notin D
    BY <1>2 DEF AllServed
  <2>3. D \subseteq DOMAIN reqs
        /\ \A m \in DOMAIN reqs \ D : m <= n /\ reqs[m].stream = reqs[n].stream
    OBVIOUS
  <2> HIDE DEF D
  <2> QED BY <1>2, <2>1, <2>2, <2>3
<1> QED BY <1>1, <1>2

\* A letter a call is about stays with the later request n of its stream, also
\* once s has tried it: were it a letter of s, n would have failed in s.
LEMMA LetterIsKept ==
    ASSUME IInv, NEW i \in Instances, NEW s \in Segments, Mine(i, s),
           pc[i][s] \in {"finish", "finishing"}, Known(First(i, s).number),
           NEW m \in Numbers, NEW t \in Segments, NEW e \in owed[m] \cap letters[t],
           First(i, s).number >= m, replays[First(i, s).number].stream = StreamOf[e]
    PROVE  Tried(First(i, s).number, s, ~failing[i][s])[First(i, s).number].state[t]
              \in {"pending", "failed"}
<1> DEFINE f == First(i, s)
           n == f.number
           ok == ~failing[i][s]
<1>1. serving[i][s] # {}
  BY DEF IInv, RequestsInv, RequestsMade
<1>2. Made(f)
  BY <1>1, FirstFacts
<1>3. ok \in BOOLEAN /\ RequestTypes
  BY DEF IInv, LettersInv, LoopTypes, RequestsInv
<1>4. Rows(n)[t] \in {"pending", "failed"}
  BY DEF IInv, RequestsInv, OwedSound, Known
<1>5. t = s => ~ok
  <2> SUFFICES ASSUME t = s PROVE ~ok
    OBVIOUS
  <2>1. e \in LettersOf(s, f.stream)
    BY <1>2 DEF LettersOf, Made
  <2>2. Knows(i, s)
    BY AtWork DEF IInv
  <2> QED BY <2>1, <2>2 DEF Knows
<1>6. Known(n)
  OBVIOUS
<1> HIDE DEF n, ok
<1>7. /\ t # s => Tried(n, s, ok)[n].state[t] = Rows(n)[t]
      /\ Tried(n, s, ok)[n].state[s] = IF Rows(n)[s] = "none" THEN "none"
                                        ELSE IF ok THEN "ok" ELSE "failed"
  BY <1>3, <1>6, TriedFacts
<1>8. Tried(n, s, ok)[n].state[t] \in {"pending", "failed"}
  BY <1>4, <1>5, <1>7
<1> QED BY <1>8 DEF n, ok

\* So a sweep deletes no request with a letter left.
LEMMA SweepOwesNothing ==
    ASSUME IInv, NEW i \in Instances, NEW s \in Segments, Mine(i, s),
           pc[i][s] \in {"finish", "finishing"}, Known(First(i, s).number)
    PROVE  LET n == First(i, s).number
               after == Tried(n, s, ~failing[i][s])
           IN \A m \in DOMAIN replays \ DOMAIN Swept(after, n) : NothingOwed(m)
<1> DEFINE n == First(i, s).number
           ok == ~failing[i][s]
           after == Tried(n, s, ok)
<1>1. ok \in BOOLEAN /\ RequestTypes /\ n \in DOMAIN replays /\ DOMAIN replays \subseteq Nat
      /\ DOMAIN replays \subseteq Numbers
  BY NumbersAre DEF IInv, RequestsInv, LettersInv, LoopTypes, Known, RequestTypes
<1>2. /\ DOMAIN after = DOMAIN replays
      /\ after \in [DOMAIN replays -> [stream : Streams, state : States]]
      /\ \A m \in DOMAIN replays : after[m].stream = replays[m].stream
  <2>1. Known(n)
    OBVIOUS
  <2> HIDE DEF ok, n
  <2>2. /\ DOMAIN after = DOMAIN replays
        /\ after \in [DOMAIN replays -> [stream : Streams, state : States]]
        /\ \A m \in DOMAIN replays : m # n => after[m] = replays[m]
        /\ after[n].stream = replays[n].stream
    BY <1>1, <2>1, TriedFacts
  <2> HIDE DEF after
  <2> QED BY <2>2
<1>3. \A m \in DOMAIN after \ DOMAIN Swept(after, n) :
         m <= n /\ after[m].stream = after[n].stream /\ AllServed(after[n].state)
  <2> HIDE DEF after, n
  <2> QED BY <1>1, <1>2, SweptFacts
<1>4. ASSUME NEW m \in DOMAIN replays \ DOMAIN Swept(after, n), NEW t \in Segments,
             NEW e \in owed[m] \cap letters[t]
      PROVE  FALSE
  <2>1. /\ m \in Numbers /\ m <= n /\ m \in Nat /\ n \in Nat /\ AllServed(after[n].state)
        /\ replays[m].stream = replays[n].stream
    BY <1>1, <1>2, <1>3
  <2>2. StreamOf[e] = replays[m].stream
    BY <2>1 DEF IInv, RequestsInv, OwedSound, Known
  <2>3. after[n].state[t] \in {"pending", "failed"}
    <3>1. n >= m /\ replays[n].stream = StreamOf[e]
      BY <2>1, <2>2
    <3> QED BY <2>1, <3>1, LetterIsKept
  <2> QED BY <2>1, <2>3 DEF AllServed
<1>5. \A m \in DOMAIN replays \ DOMAIN Swept(after, n) : NothingOwed(m)
  BY <1>4 DEF NothingOwed
<1> QED BY <1>5

(***************************************************************************)
(* The outcome of s for its first request n is recorded: the row of n gets   *)
(* its state or goes, when all have served it, and with it requests that no  *)
(* letter is left of.                                                        *)
(***************************************************************************)
Recorded(i, s) ==
    LET n == First(i, s).number
        after == Tried(n, s, ~failing[i][s])
    IN /\ DOMAIN replays' \subseteq DOMAIN replays
       /\ replays' \in [DOMAIN replays' -> [stream : Streams, state : States]]
       /\ \A m \in DOMAIN replays' : m # n => replays'[m] = replays[m]
       /\ \A m \in DOMAIN replays \ DOMAIN replays' : NothingOwed(m)
       /\ n \in DOMAIN replays' => replays'[n] = after[n]
       /\ Known(n) => (n \in DOMAIN replays' <=> ~AllServed(after[n].state))

LEMMA RecordedStep ==
    ASSUME IInv, NEW i \in Instances, NEW s \in Segments, Recorded(i, s), Mine(i, s),
           pc[i][s] \in {"finish", "finishing"},
           \A j \in Instances, t \in Segments :
              (j # i \/ t # s) /\ pc[j][t] = "finishing" =>
                 /\ First(j, t).number # First(i, s).number
                 /\ First(j, t).number \in DOMAIN replays',
           LettersInv', OthersKept(i, s), Grows, QueueTypes',
           UNCHANGED <<setup, used, caller, owed, found, pending, letters>>,
           \A j \in Instances, t \in Segments : j # i \/ t # s => gone'[j][t] = gone[j][t],
           serving'[i][s] \subseteq serving[i][s],
           pc'[i][s] \in Replaying => serving'[i][s] # {},
           pc'[i][s] # "finishing"
    PROVE  RequestsInv'
<1> USE DEF IInv, RequestsInv
<1> DEFINE f == First(i, s)
           n == f.number
           ok == ~failing[i][s]
           after == Tried(n, s, ok)
<1>1. f \in serving[i][s] /\ n \in used /\ Made(f)
  <2>1. serving[i][s] # {}
    BY DEF RequestsMade
  <2> QED BY <2>1, FirstFacts
<1>2. ok \in BOOLEAN
  BY DEF LettersInv, LoopTypes
<1>3. Known(n) =>
           /\ after[n].stream = replays[n].stream /\ after[n].state \in States
           /\ \A t \in Segments : t # s => after[n].state[t] = Rows(n)[t]
           /\ after[n].state[s] = IF Rows(n)[s] = "none" THEN "none"
                                  ELSE IF ok THEN "ok" ELSE "failed"
  <2>1. ASSUME Known(n)
        PROVE  /\ DOMAIN after = DOMAIN replays
               /\ after \in [DOMAIN replays -> [stream : Streams, state : States]]
               /\ after[n].stream = replays[n].stream
               /\ \A t \in Segments : t # s => after[n].state[t] = Rows(n)[t]
               /\ after[n].state[s] = IF Rows(n)[s] = "none" THEN "none"
                                      ELSE IF ok THEN "ok" ELSE "failed"
    <3> HIDE DEF n, ok
    <3> QED BY <1>2, <2>1, TriedFacts
  <2>2. Known(n) => after[n] \in [stream : Streams, state : States]
    BY <2>1 DEF Known
  <2> QED BY <2>1, <2>2
<1>4. /\ DOMAIN replays' \subseteq DOMAIN replays
      /\ replays' \in [DOMAIN replays' -> [stream : Streams, state : States]]
      /\ \A m \in DOMAIN replays' : m # n => replays'[m] = replays[m]
      /\ \A m \in DOMAIN replays \ DOMAIN replays' : NothingOwed(m)
      /\ n \in DOMAIN replays' => replays'[n] = after[n]
      /\ Known(n) => (n \in DOMAIN replays' <=> ~AllServed(after[n].state))
  BY DEF Recorded
<1> HIDE DEF after, ok
<1>5. RequestTypes'
  BY <1>4 DEF RequestTypes, QueueTypes
<1>6. \A m \in DOMAIN replays' : replays'[m].stream = replays[m].stream
  BY <1>3, <1>4 DEF Known
<1>7. RequestsMade'
  <2>1. \A r : Made(r) => Made(r)'
    BY <1>4, <1>6 DEF Made, Known
  <2>2. ASSUME NEW j \in Instances, NEW t \in Segments
        PROVE  /\ \A r \in serving'[j][t] \cup pending'[j][t] : Made(r)
               /\ pc'[j][t] \in Replaying => serving'[j][t] # {}
    BY DEF OthersKept, SameLoop, RequestsMade, Replaying
  <2> QED BY <2>1, <2>2 DEF RequestsMade, Replaying
<1>8. NumbersInOrder' /\ CallsShrink
  BY CallsStay DEF NumbersInOrder
<1>9. FinishingKept
  BY DEF FinishingKept, StillFinishing, OthersKept, SameLoop
<1>10. \A j \in Instances, t \in Segments : FinishingSound(j, t)'
  <2> TAKE j \in Instances, t \in Segments
  <2>1. CASE j = i /\ t = s
    BY <2>1 DEF FinishingSound
  <2>2. CASE j # i \/ t # s
    <3>1. FinishingSound(j, t) /\ StillFinishing(j, t)
      BY <1>9 DEF FinishingKept
    <3>2. pc[j][t] = "finishing" => First(j, t).number # n /\ First(j, t).number \in DOMAIN replays'
      BY <2>2
    <3>3. \A m \in gone[j][t] : NothingOwed(m) => NothingOwed(m)'
      BY <1>8, OwedLettersStay DEF RequestTypes
    <3> QED BY <1>4, <3>1, <3>2, <3>3, FinishingSoundStays DEF Known
  <2> QED BY <2>1, <2>2
<1>11. FinishingApart'
  BY <1>9, FinishingApartStays
<1>12. SucceededIsDeleted'
  <2> SUFFICES ASSUME NEW m \in DOMAIN replays'
               PROVE  \E t \in Segments : replays'[m].state[t] \in {"pending", "failed"}
    BY DEF SucceededIsDeleted, Rows
  <2>1. CASE m # n
    BY <1>4, <2>1 DEF SucceededIsDeleted, Rows
  <2>2. CASE m = n
    <3>1. Known(n) /\ replays'[n] = after[n] /\ ~AllServed(after[n].state) /\ after[n].state \in States
      BY <1>3, <1>4, <2>2 DEF Known
    <3> QED BY <2>2, <3>1 DEF AllServed, States
  <2> QED BY <2>1, <2>2
<1>13. OwedSound'
  <2> SUFFICES ASSUME NEW m \in Numbers
               PROVE  /\ \A e \in owed[m] :
                           /\ e <= rows'[setup.segmentOf[e]].pos
                           /\ m \in DOMAIN replays' => StreamOf[e] = replays'[m].stream
                      /\ \A t \in Segments : \A e \in owed[m] \cap letters[t] :
                           /\ m \in DOMAIN replays'
                           /\ \A k \in DOMAIN replays' :
                                 k >= m /\ replays'[k].stream = StreamOf[e] =>
                                   replays'[k].state[t] \in {"pending", "failed"}
    BY DEF OwedSound, Known, Rows
  <2>1. \A e \in owed[m] : e <= rows'[setup.segmentOf[e]].pos
    BY <1>8, OwedLettersStay
  <2>2. \A e \in owed[m] : m \in DOMAIN replays' => StreamOf[e] = replays'[m].stream
    BY <1>4, <1>6 DEF OwedSound, Known
  <2>3. ASSUME NEW t \in Segments, NEW e \in owed[m] \cap letters[t]
        PROVE  m \in DOMAIN replays'
    <3>1. m \in DOMAIN replays /\ ~NothingOwed(m)
      BY DEF OwedSound, Known, NothingOwed
    <3> QED BY <1>4, <3>1
  <2>4. ASSUME NEW t \in Segments, NEW e \in owed[m] \cap letters[t], NEW k \in DOMAIN replays',
               k >= m, replays'[k].stream = StreamOf[e]
        PROVE  replays'[k].state[t] \in {"pending", "failed"}
    <3>1. k \in DOMAIN replays /\ replays[k].stream = StreamOf[e]
      BY <1>4, <1>6, <2>4
    <3>2. CASE k # n
      BY <1>4, <2>4, <3>1, <3>2 DEF OwedSound, Rows
    <3>3. CASE k = n
      <4>1. after[n].state[t] \in {"pending", "failed"}
        BY <2>4, <3>1, <3>3, LetterIsKept DEF Known, after, ok
      <4> QED BY <1>4, <3>3, <4>1
    <3> QED BY <3>2, <3>3
  <2> QED BY <2>1, <2>2, <2>3, <2>4
<1> QED BY <1>5, <1>7, <1>8, <1>10, <1>11, <1>12, <1>13


\* What is left of the requests a goroutine has taken.
LEMMA ServedQueues ==
    ASSUME IInv, NEW i \in Instances, NEW s \in Segments, Served(i, s),
           UNCHANGED <<pending, queued>>, gone' \in [Instances -> [Segments -> SUBSET Numbers]],
           \A j \in Instances, t \in Segments : gone'[j][t] \subseteq used'
    PROVE  /\ QueueTypes' /\ serving'[i][s] \subseteq serving[i][s]
           /\ pc'[i][s] \in Replaying => serving'[i][s] # {}
           /\ pc'[i][s] # "finishing"
<1> DEFINE rest == serving[i][s] \ {First(i, s)}
           p == IF rest # {} THEN "take" ELSE "drop"
<1>1. /\ serving \in [Instances -> [Segments -> SUBSET Replay]]
      /\ pending \in [Instances -> [Segments -> SUBSET Replay]]
      /\ queued \in [Instances -> SUBSET Replay]
      /\ pc \in [Instances -> [Segments -> PCs]]
  BY DEF IInv, RequestsInv, RequestTypes, LettersInv, LoopTypes
<1>2. rest \in SUBSET Replay /\ rest \subseteq serving[i][s]
  BY <1>1
<1>3. serving' = [serving EXCEPT ![i][s] = rest] /\ pc' = [pc EXCEPT ![i][s] = p]
  BY DEF Served, Goto
<1>4. p # "finishing" /\ (p \in Replaying => rest # {})
  BY DEF Replaying
<1> HIDE DEF rest, p
<1>5. serving'[i][s] = rest /\ pc'[i][s] = p /\ serving' \in [Instances -> [Segments -> SUBSET Replay]]
  BY <1>1, <1>2, <1>3
<1> QED BY <1>1, <1>2, <1>4, <1>5 DEF QueueTypes

\* FinishReplay fails: the request is as it was.
LEMMA FinishFailsRequests ==
    ASSUME IInv, NEW i \in Instances, NEW s \in Segments, FinishFails(i, s)
    PROVE  RequestsInv'
<1>1. /\ pc[i][s] = "finish" /\ Served(i, s)
      /\ UNCHANGED <<storeVars, setup, bad, applied, letters, replayUntil, replays, cp, epoch,
                     parked, to, left, gone, pending, queued, used, caller, owed, found>>
  BY DEF FinishFails, pollVars, callVars
<1>2. LettersInv' /\ OthersKept(i, s) /\ Grows
  BY <1>1, ServedStep
<1>3. /\ gone' \in [Instances -> [Segments -> SUBSET Numbers]]
      /\ \A j \in Instances, t \in Segments : gone'[j][t] \subseteq used'
  BY <1>1 DEF IInv, RequestsInv, RequestTypes
<1>4. /\ QueueTypes' /\ serving'[i][s] \subseteq serving[i][s]
      /\ pc'[i][s] \in Replaying => serving'[i][s] # {}
      /\ pc'[i][s] # "finishing"
  BY <1>1, <1>3, ServedQueues
<1> QED BY <1>1, <1>2, <1>4, GoStep

\* SQLite, and PostgreSQL when there is nothing to record.
LEMMA FinishReplayRequests ==
    ASSUME IInv, NEW i \in Instances, NEW s \in Segments, FinishReplay(i, s)
    PROVE  RequestsInv'
<1> DEFINE n == First(i, s).number
           ok == ~failing[i][s]
           after == Tried(n, s, ok)
<1>1. /\ pc[i][s] = "finish" /\ Mine(i, s) /\ Served(i, s)
      /\ setup.store = "sqlite" \/ ~Known(n)
      /\ replays' = IF Known(n) THEN Swept(after, n) ELSE replays
      /\ UNCHANGED <<storeVars, setup, bad, applied, letters, replayUntil, cp, epoch,
                     parked, to, left, gone, pending, queued, used, caller, owed, found>>
  BY DEF FinishReplay, pollVars, callVars
<1>2. LettersInv' /\ OthersKept(i, s) /\ Grows
  BY <1>1, ServedStep
<1>3. /\ gone' \in [Instances -> [Segments -> SUBSET Numbers]]
      /\ \A j \in Instances, t \in Segments : gone'[j][t] \subseteq used'
  BY <1>1 DEF IInv, RequestsInv, RequestTypes
<1>4. /\ QueueTypes' /\ serving'[i][s] \subseteq serving[i][s]
      /\ pc'[i][s] \in Replaying => serving'[i][s] # {}
      /\ pc'[i][s] # "finishing"
  BY <1>1, <1>3, ServedQueues
<1>5. CASE ~Known(n)
  <2>1. replays' = replays
    BY <1>1, <1>5
  <2> QED BY <1>1, <1>2, <1>4, <2>1, GoStep
<1>6. CASE Known(n)
  <2>0. ok \in BOOLEAN /\ RequestTypes /\ n \in DOMAIN replays /\ DOMAIN replays \subseteq Nat
    BY <1>6, NumbersAre DEF IInv, RequestsInv, LettersInv, LoopTypes, Known, RequestTypes
  <2> HIDE DEF ok, n
  <2>1. /\ DOMAIN after = DOMAIN replays
        /\ after \in [DOMAIN replays -> [stream : Streams, state : States]]
        /\ \A m \in DOMAIN replays : m # n => after[m] = replays[m]
    BY <1>6, <2>0, TriedFacts
  <2>2. replays' = Swept(after, n)
    BY <1>1, <1>6
  <2> HIDE DEF after
  <2>3. /\ DOMAIN replays' \subseteq DOMAIN after
        /\ replays' \in [DOMAIN replays' -> [stream : Streams, state : States]]
        /\ \A m \in DOMAIN replays' : replays'[m] = after[m]
        /\ n \in DOMAIN replays' <=> ~AllServed(after[n].state)
    BY <2>0, <2>1, <2>2, SweptFacts
  <2>6. \A m \in DOMAIN replays \ DOMAIN replays' : NothingOwed(m)
    BY <1>1, <1>6, <2>2, SweepOwesNothing DEF n, ok, after
  <2>4. Recorded(i, s)
    BY <2>1, <2>3, <2>6 DEF Recorded, n, ok, after
  <2>5. \A j \in Instances, t \in Segments : pc[j][t] # "finishing"
    BY <1>1, <1>6 DEF IInv, RequestsInv, FinishingSound
  <2> QED BY <1>1, <1>2, <1>4, <2>4, <2>5, RecordedStep
<1> QED BY <1>5, <1>6

\* PostgreSQL: what was decided under the lock still holds when it is committed.
LEMMA CommitFinishRequests ==
    ASSUME IInv, NEW i \in Instances, NEW s \in Segments, CommitFinish(i, s)
    PROVE  RequestsInv'
<1> DEFINE n == First(i, s).number
           ok == ~failing[i][s]
           after == Tried(n, s, ok)
<1>1. /\ pc[i][s] = "finishing" /\ Served(i, s) /\ DeletesFree(i, s)
      /\ replays' = [m \in DOMAIN after \ gone[i][s] |-> after[m]]
      /\ gone' = [gone EXCEPT ![i][s] = {}]
      /\ UNCHANGED <<storeVars, setup, bad, applied, letters, replayUntil, cp, epoch,
                     parked, to, left, pending, queued, used, caller, owed, found>>
  BY DEF CommitFinish, pollVars, callVars
<1>2. LettersInv' /\ OthersKept(i, s) /\ Grows
  BY <1>1, ServedStep
<1>3. /\ gone' \in [Instances -> [Segments -> SUBSET Numbers]]
      /\ \A j \in Instances, t \in Segments : gone'[j][t] \subseteq used'
      /\ \A j \in Instances, t \in Segments : j # i \/ t # s => gone'[j][t] = gone[j][t]
  BY <1>1 DEF IInv, RequestsInv, RequestTypes
<1>4. /\ QueueTypes' /\ serving'[i][s] \subseteq serving[i][s]
      /\ pc'[i][s] \in Replaying => serving'[i][s] # {}
      /\ pc'[i][s] # "finishing"
  BY <1>1, <1>3, ServedQueues
<1>5. Mine(i, s)
  BY <1>1 DEF IInv, LettersInv, LoopSound
<1>6. /\ \A m \in gone[i][s] : NothingOwed(m)
      /\ Known(n) /\ (n \in gone[i][s] <=> AllServed(after[n].state))
  BY <1>1 DEF IInv, RequestsInv, FinishingSound
<1>7. \A j \in Instances, t \in Segments :
         (j # i \/ t # s) /\ pc[j][t] = "finishing" =>
            /\ First(j, t).number # n /\ First(j, t).number \notin gone[i][s]
            /\ Known(First(j, t).number)
  BY <1>1 DEF IInv, RequestsInv, FinishingApart, FinishingSound, DeletesFree
<1>8. ok \in BOOLEAN /\ RequestTypes
  BY DEF IInv, RequestsInv, LettersInv, LoopTypes
<1>9. /\ DOMAIN after = DOMAIN replays
      /\ after \in [DOMAIN replays -> [stream : Streams, state : States]]
      /\ \A m \in DOMAIN replays : m # n => after[m] = replays[m]
  <2> HIDE DEF ok, n
  <2> QED BY <1>6, <1>8, TriedFacts
<1>10. Recorded(i, s)
  <2> DEFINE D == DOMAIN after \ gone[i][s]
  <2>1. D \subseteq DOMAIN replays /\ DOMAIN replays' = D /\ \A m \in D : replays'[m] = after[m]
    BY <1>1, <1>9
  <2>2. \A m \in DOMAIN replays \ D : NothingOwed(m)
    BY <1>6, <1>9
  <2>3. Known(n) => (n \in D <=> ~AllServed(after[n].state))
    BY <1>6, <1>9 DEF Known
  <2>4. replays' \in [D -> [stream : Streams, state : States]]
    BY <1>1, <1>9
  <2> HIDE DEF D
  <2>5. \A m \in D : m # n => replays'[m] = replays[m]
    BY <1>9, <2>1
  <2> QED BY <2>1, <2>2, <2>3, <2>4, <2>5 DEF Recorded
<1>11. \A j \in Instances, t \in Segments :
          (j # i \/ t # s) /\ pc[j][t] = "finishing" =>
             First(j, t).number # n /\ First(j, t).number \in DOMAIN replays'
  <2>1. DOMAIN replays' = DOMAIN replays \ gone[i][s]
    BY <1>1, <1>9
  <2> QED BY <1>7, <2>1 DEF Known
<1> QED BY <1>1, <1>2, <1>3, <1>4, <1>5, <1>10, <1>11, RecordedStep

\* The row lock is taken only when nobody has it.
LEMMA LockRequestRequests ==
    ASSUME IInv, NEW i \in Instances, NEW s \in Segments, LockRequest(i, s)
    PROVE  RequestsInv'
<1> USE DEF IInv, RequestsInv
<1> DEFINE n == First(i, s).number
           ok == ~failing[i][s]
           after == Tried(n, s, ok)
           g == DOMAIN after \ DOMAIN Swept(after, n)
<1>1. /\ pc[i][s] = "finish" /\ Mine(i, s)
      /\ setup.store = "postgres" /\ Known(n) /\ RequestFree(i, s, n)
      /\ gone' = [gone EXCEPT ![i][s] = g] /\ pc' = [pc EXCEPT ![i][s] = "finishing"]
      /\ UNCHANGED <<setup, replays, serving, failing, pending, queued, used, caller, owed, found>>
  BY DEF LockRequest, Goto, queueVars, pollVars, callVars
<1>2. LettersInv' /\ OthersKept(i, s) /\ Grows
  BY LockRequestStep
<1>3. ok \in BOOLEAN /\ RequestTypes /\ n \in DOMAIN replays /\ DOMAIN replays \subseteq Nat
      /\ DOMAIN replays \subseteq Numbers
  BY <1>1, NumbersAre DEF LettersInv, LoopTypes, Known, RequestTypes
<1>4. /\ DOMAIN after = DOMAIN replays
      /\ after \in [DOMAIN replays -> [stream : Streams, state : States]]
  <2> HIDE DEF ok, n
  <2> QED BY <1>1, <1>3, TriedFacts
<1>5. /\ g \subseteq Numbers /\ g \subseteq used /\ (\A m \in g : NothingOwed(m))
      /\ n \in g <=> AllServed(after[n].state)
  <2>1. \A m \in g : NothingOwed(m)
    BY <1>1, <1>4, SweepOwesNothing
  <2> HIDE DEF after, n
  <2>2. n \in DOMAIN Swept(after, n) <=> ~AllServed(after[n].state)
    BY <1>3, <1>4, SweptFacts
  <2> QED BY <1>3, <1>4, <2>1, <2>2 DEF RequestTypes
<1> HIDE DEF g
<1>6. /\ gone' \in [Instances -> [Segments -> SUBSET Numbers]] /\ gone'[i][s] = g
      /\ \A j \in Instances, t \in Segments : j # i \/ t # s => gone'[j][t] = gone[j][t]
      /\ pc'[i][s] = "finishing"
  BY <1>1, <1>5 DEF RequestTypes, LettersInv, LoopTypes
<1>7. RequestTypes'
  <2>1. \A j \in Instances, t \in Segments : gone'[j][t] \subseteq used'
    BY <1>1, <1>5, <1>6 DEF RequestTypes
  <2> QED BY <1>1, <1>6, <2>1 DEF RequestTypes
<1>8. RequestsMade'
  <2>1. \A r : Made(r)' <=> Made(r)
    BY <1>1 DEF Made, Known
  <2>2. \A j \in Instances, t \in Segments :
           pc'[j][t] \in Replaying => serving'[j][t] # {}
    BY <1>1, <1>2 DEF RequestsMade, OthersKept, SameLoop, Replaying
  <2> QED BY <1>1, <2>1, <2>2 DEF RequestsMade, Replaying
<1>9. NumbersInOrder' /\ SucceededIsDeleted' /\ CallsShrink
  BY <1>1, CallsStay DEF NumbersInOrder, SucceededIsDeleted, Rows
<1>10. \A j \in Instances, t \in Segments : First(j, t)' = First(j, t)
  BY <1>1, SameFirst
<1>11. FinishingApart'
  <2>1. \A j \in Instances, t \in Segments : pc'[j][t] = "finishing" =>
           (j = i /\ t = s) \/ (pc[j][t] = "finishing" /\ First(j, t).number # n)
    BY <1>1, <1>2 DEF OthersKept, SameLoop, RequestFree
  <2> QED BY <1>10, <2>1 DEF FinishingApart
<1>12. \A j \in Instances, t \in Segments : FinishingSound(j, t)'
  <2> TAKE j \in Instances, t \in Segments
  <2>1. CASE j # i \/ t # s
    <3>1. FinishingSound(j, t) /\ StillFinishing(j, t)
      BY <1>2, <1>6, <2>1 DEF StillFinishing, OthersKept, SameLoop
    <3>2. \A m \in gone[j][t] : NothingOwed(m) => NothingOwed(m)'
      BY <1>1, <1>2, <1>9, OwedLettersStay DEF RequestTypes
    <3> QED BY <1>1, <3>1, <3>2, FinishingSoundStays DEF Known
  <2>2. CASE j = i /\ t = s
    <3>1. Tried(n, s, ok)' = after
      BY <1>1, <1>10 DEF Tried
    <3>2. \A m \in g : NothingOwed(m)'
      BY <1>1, <1>2, <1>5, <1>9, OwedLettersStay
    <3> QED BY <1>1, <1>5, <1>6, <1>10, <2>2, <3>1, <3>2 DEF FinishingSound, AllServed, Known
  <2> QED BY <2>1, <2>2
<1>13. OwedSound'
  BY <1>1, <1>2, <1>9, OwedStays
<1> QED BY <1>7, <1>8, <1>9, <1>11, <1>12, <1>13

-----------------------------------------------------------------------------
(* Rebuilds, restarts, the poller and the caller.                            *)

\* A Reset leaves no request, and nothing owed to the caller.
LEMMA RebuildRequests ==
    ASSUME IInv, NEW i \in Instances, NEW s \in Segments, Rebuild(i, s)
    PROVE  RequestsInv'
<1>1. CASE ~Mine(i, s)
  <2>1. /\ Leave(i, s) /\ pc[i][s] = "top"
        /\ UNCHANGED <<storeVars, setup, bad, applied, letters, replayUntil, replays, pollVars,
                       callVars>>
    BY <1>1 DEF Rebuild, storeVars, callVars
  <2>2. LettersInv' /\ OthersKept(i, s) /\ Grows
    BY <2>1, LeaveStep
  <2> QED BY <2>1, <2>2, LeaveRequests
<1>2. CASE Mine(i, s)
  <2>1. /\ \A t \in Segments : ~RowLocked(t)
        /\ replays' = NoReplays /\ owed' = [n \in Numbers |-> {}]
        /\ UNCHANGED <<pc, serving, gone, pending, queued, found, caller, used>>
    BY <1>2 DEF Rebuild, queueVars, pollVars
  <2>2. DOMAIN replays' = {} /\ replays' \in [{} -> [stream : Streams, state : States]]
    BY <2>1 DEF NoReplays
  <2>3. RequestTypes'
    BY <2>1, <2>2 DEF IInv, RequestsInv, RequestTypes
  <2>4. RequestsMade'
    <3>1. \A r : Made(r) => Made(r)'
      BY <2>1, <2>2 DEF Made, Known
    <3> QED BY <2>1, <3>1 DEF IInv, RequestsInv, RequestsMade
  <2>5. NumbersInOrder' /\ SucceededIsDeleted' /\ OwedSound'
    BY <2>1, <2>2 DEF IInv, RequestsInv, NumbersInOrder, SucceededIsDeleted, OwedSound
  <2>6. \A j \in Instances, t \in Segments : pc'[j][t] # "finishing"
    BY <2>1 DEF RowLocked
  <2>7. FinishingApart' /\ \A j \in Instances, t \in Segments : FinishingSound(j, t)'
    BY <2>6 DEF FinishingApart, FinishingSound
  <2> QED BY <2>3, <2>4, <2>5, <2>7 DEF RequestsInv
<1> QED BY <1>1, <1>2

\* Requests stay, and a poller may queue those it has read.
LEMMA QueueStep ==
    ASSUME IInv, LettersInv', Grows,
           UNCHANGED <<setup, replays, used, caller, owed, goVars>>,
           pending' \in [Instances -> [Segments -> SUBSET Replay]],
           queued' \in [Instances -> SUBSET Replay],
           found' \in [Instances -> [at : {"idle", "read", "queue"}, requests : SUBSET Replay]],
           \A i \in Instances : \A r \in found'[i].requests : Made(r),
           \A i \in Instances, s \in Segments : \A r \in pending'[i][s] : Made(r)
    PROVE  RequestsInv'
<1> USE DEF IInv, RequestsInv
<1>1. RequestTypes'
  BY DEF RequestTypes, goVars
<1>2. \A r : Made(r)' <=> Made(r)
  BY DEF Made, Known
<1>3. RequestsMade'
  <2>1. ASSUME NEW j \in Instances, NEW t \in Segments
        PROVE  /\ \A r \in serving'[j][t] \cup pending'[j][t] : Made(r)
               /\ pc'[j][t] \in Replaying => serving'[j][t] # {}
    BY DEF RequestsMade, Replaying, goVars
  <2> QED BY <1>2, <2>1 DEF RequestsMade, Replaying
<1>4. FinishingKept
  BY DEF FinishingKept, StillFinishing, goVars
<1>5. StoreRequests'
  BY <1>4, CallsStay, StoreRequestsStay
<1> QED BY <1>1, <1>3, <1>5 DEF StoreRequests

\* Nobody's queues or requests change.
LEMMA StillStep ==
    ASSUME IInv, LettersInv', Grows,
           UNCHANGED <<setup, replays, used, caller, owed, goVars, pending, queued, found>>
    PROVE  RequestsInv'
BY QueueStep DEF IInv, RequestsInv, RequestTypes, RequestsMade

\* The poller queues what it read, though requests may be served or deleted since.
LEMMA PollRequests ==
    ASSUME IInv, NEW i \in Instances, Poll(i)
    PROVE  RequestsInv'
<1>1. Apart
  BY ApartActions
<1>2. LettersInv' /\ Grows /\ UNCHANGED <<setup, goVars>>
  BY <1>1, ApartStep DEF Apart
<1>3. UNCHANGED <<replays, used, caller, owed>>
  BY DEF Poll, PollReplays, ReadPending, queueReplays, callVars
<1>4. /\ pending \in [Instances -> [Segments -> SUBSET Replay]]
      /\ queued \in [Instances -> SUBSET Replay]
      /\ found \in [Instances -> [at : {"idle", "read", "queue"}, requests : SUBSET Replay]]
  BY DEF IInv, RequestsInv, RequestTypes
<1>5. /\ \A j \in Instances : \A r \in found[j].requests : Made(r)
      /\ \A j \in Instances, s \in Segments : \A r \in pending[j][s] : Made(r)
  BY DEF IInv, RequestsInv, RequestsMade
<1>6. CASE PollReplays(i) \/ ReadPending(i)
  <2>1. UNCHANGED <<pending, queued>>
    BY <1>6 DEF PollReplays, ReadPending
  <2>2. PICK v : /\ found' = [found EXCEPT ![i] = v]
                 /\ v \in [at : {"idle", "read", "queue"}, requests : {{}, PendingReplays}]
    <3> DEFINE V == [at : {"idle", "read", "queue"}, requests : {{}, PendingReplays}]
    <3>1. /\ [at |-> "read", requests |-> {}] \in V /\ Idle \in V
          /\ [at |-> "queue", requests |-> PendingReplays] \in V
      BY DEF Idle
    <3>2. \/ found' = [found EXCEPT ![i] = [at |-> "read", requests |-> {}]]
          \/ found' = [found EXCEPT ![i] = [at |-> "queue", requests |-> PendingReplays]]
          \/ found' = [found EXCEPT ![i] = Idle]
      <4>1. CASE PollReplays(i)
        BY <4>1 DEF PollReplays
      <4>2. CASE ReadPending(i) /\ PendingReplays = {}
        BY <4>2 DEF ReadPending
      <4>3. CASE ReadPending(i) /\ PendingReplays # {}
        BY <4>3 DEF ReadPending
      <4> QED BY <1>6, <4>1, <4>2, <4>3
    <3> HIDE DEF V
    <3>3. \E v : found' = [found EXCEPT ![i] = v] /\ v \in V
      BY <3>1, <3>2
    <3> QED BY <3>3 DEF V
  <2>3. PendingReplays \subseteq Replay /\ \A r \in PendingReplays : Made(r)
    BY DEF PendingReplays, Made, Known, IInv, RequestsInv, RequestTypes
  <2>4. /\ v \in [at : {"idle", "read", "queue"}, requests : SUBSET Replay]
        /\ \A r \in v.requests : Made(r)
    BY <2>2, <2>3
  <2>5. /\ found' \in [Instances -> [at : {"idle", "read", "queue"}, requests : SUBSET Replay]]
        /\ \A j \in Instances : \A r \in found'[j].requests : Made(r)
    BY <1>4, <1>5, <2>2, <2>4
  <2> QED BY <1>2, <1>3, <1>4, <1>5, <2>1, <2>5, QueueStep
<1>7. CASE queueReplays(i)
  <2> DEFINE new == {r \in found[i].requests : active[i][r.segment] /\ r \notin queued[i]}
             more == [s \in Segments |-> pending[i][s] \cup {r \in new : r.segment = s}]
             all == queued[i] \cup new
  <2>1. /\ queued' = [queued EXCEPT ![i] = all] /\ pending' = [pending EXCEPT ![i] = more]
        /\ found' = [found EXCEPT ![i] = Idle]
    BY <1>4, <1>7 DEF queueReplays
  <2>2. new \subseteq Replay /\ \A r \in new : Made(r)
    BY <1>4, <1>5
  <2> HIDE DEF new
  <2>3. /\ all \in SUBSET Replay /\ more \in [Segments -> SUBSET Replay]
        /\ \A s \in Segments : \A r \in more[s] : Made(r)
    BY <1>4, <1>5, <2>2
  <2>4. Idle \in [at : {"idle", "read", "queue"}, requests : SUBSET Replay] /\ Idle.requests = {}
    BY DEF Idle
  <2> HIDE DEF more, all
  <2>5. /\ queued' \in [Instances -> SUBSET Replay]
        /\ pending' \in [Instances -> [Segments -> SUBSET Replay]]
        /\ \A j \in Instances, s \in Segments : \A r \in pending'[j][s] : Made(r)
    BY <1>4, <1>5, <2>1, <2>3
  <2>6. /\ found' \in [Instances -> [at : {"idle", "read", "queue"}, requests : SUBSET Replay]]
        /\ \A j \in Instances : \A r \in found'[j].requests : Made(r)
    BY <1>4, <1>5, <2>1, <2>4
  <2> QED BY <1>2, <1>3, <2>5, <2>6, QueueStep
<1> QED BY <1>6, <1>7 DEF Poll

\* An instance that restarts forgets what it had queued.
LEMMA RestartRequests ==
    ASSUME IInv, NEW i \in Instances, Restart(i)
    PROVE  RequestsInv'
<1> USE DEF IInv, RequestsInv
<1>1. LettersInv' /\ Grows
  BY RestartStep
<1>2. /\ pc' = [pc EXCEPT ![i] = [s \in Segments |-> "claim"]]
      /\ serving' = [serving EXCEPT ![i] = [s \in Segments |-> {}]]
      /\ gone' = [gone EXCEPT ![i] = [s \in Segments |-> {}]]
      /\ failing' = [failing EXCEPT ![i] = [s \in Segments |-> FALSE]]
      /\ pending' = [pending EXCEPT ![i] = [s \in Segments |-> {}]]
      /\ queued' = [queued EXCEPT ![i] = {}]
      /\ found' = [found EXCEPT ![i] = Idle]
      /\ UNCHANGED <<setup, replays, used>>
  BY DEF Restart
<1>c. CallsShrink
  <2>1. /\ caller' = [n \in Numbers |-> IF caller[n] = i THEN None ELSE caller[n]]
        /\ owed' = [n \in Numbers |-> IF caller[n] = i THEN {} ELSE owed[n]]
    BY DEF Restart
  <2> QED BY <2>1 DEF CallsShrink, RequestTypes
<1>3. QueueTypes'
  <2>1. /\ serving' \in [Instances -> [Segments -> SUBSET Replay]]
        /\ pending' \in [Instances -> [Segments -> SUBSET Replay]]
        /\ queued' \in [Instances -> SUBSET Replay]
    BY <1>2 DEF RequestTypes
  <2>2. gone' \in [Instances -> [Segments -> SUBSET Numbers]]
        /\ \A j \in Instances, s \in Segments : gone'[j][s] \subseteq used'
    BY <1>2 DEF RequestTypes
  <2> QED BY <2>1, <2>2 DEF QueueTypes
<1>4. found' \in [Instances -> [at : {"idle", "read", "queue"}, requests : SUBSET Replay]]
  BY <1>2 DEF RequestTypes, Idle
<1>5. RequestTypes'
  BY <1>2, <1>c, <1>3, <1>4 DEF RequestTypes, QueueTypes, CallsShrink
<1>6. ASSUME NEW j \in Instances, NEW s \in Segments
      PROVE  /\ j = i => pc'[j][s] = "claim" /\ serving'[j][s] = {} /\ pending'[j][s] = {}
             /\ j # i => /\ pc'[j][s] = pc[j][s] /\ serving'[j][s] = serving[j][s]
                         /\ pending'[j][s] = pending[j][s] /\ gone'[j][s] = gone[j][s]
                         /\ failing'[j][s] = failing[j][s]
  BY <1>2 DEF RequestTypes, LettersInv, LoopTypes
<1>7. \A j \in Instances : found'[j].requests \subseteq found[j].requests
  BY <1>2 DEF RequestTypes, Idle
<1>8. RequestsMade'
  <2>1. \A r : Made(r)' <=> Made(r)
    BY <1>2 DEF Made, Known
  <2>2. ASSUME NEW j \in Instances, NEW t \in Segments
        PROVE  /\ \A r \in serving'[j][t] \cup pending'[j][t] : Made(r)
               /\ pc'[j][t] \in Replaying => serving'[j][t] # {}
    BY <1>6 DEF RequestsMade, Replaying
  <2> QED BY <1>7, <2>1, <2>2 DEF RequestsMade, Replaying
<1>9. FinishingKept
  BY <1>6 DEF FinishingKept, StillFinishing
<1>10. StoreRequests'
  BY <1>1, <1>2, <1>c, <1>9, StoreRequestsStay
<1> QED BY <1>5, <1>8, <1>10 DEF StoreRequests

\* A ReplayStream gets a number no request has had, later than all of them.
LEMMA NewNumber ==
    ASSUME IInv, Cardinality(used) < setup.maxRequests
    PROVE  LET n == Min(Numbers \ used) IN
           /\ n \in Numbers /\ n \notin used /\ n \in Nat /\ n # 0
           /\ \A m \in used : m <= n
           /\ \A k \in Numbers : k < n => k \in used
<1> DEFINE free == Numbers \ used
           n == Min(free)
<1>0. Numbers \subseteq Nat /\ used \subseteq Numbers /\ 0 \notin Numbers
  BY NumbersAre, LettersAssumption, FS_CardinalityType DEF IInv, RequestsInv, RequestTypes
<1>1. free # {}
  <2>1. setup.maxRequests \in 0 .. Cardinality(Numbers) /\ Cardinality(Numbers) \in Nat
    BY LettersAssumption, FS_CardinalityType DEF IInv, LettersInv, StoreTypes, Definition
  <2>2. SUFFICES ASSUME free = {} PROVE FALSE
    OBVIOUS
  <2>3. used = Numbers
    BY <1>0, <2>2
  <2>4. Cardinality(Numbers) < setup.maxRequests
    BY <2>3
  <2> QED BY <2>1, <2>4
<1>2. free \subseteq Nat /\ free \subseteq Numbers /\ \A m \in free : m \notin used
  BY <1>0
<1>3. \A m \in Numbers : m \notin used => m \in free
  OBVIOUS
<1> HIDE DEF free
<1>4. n \in free /\ \A m \in free : n <= m
  BY <1>1, <1>2, MinFacts
<1>5. n \in Numbers /\ n \notin used /\ n \in Nat /\ n # 0
  BY <1>0, <1>2, <1>4
<1> HIDE DEF n
<1>6. \A m \in used : m <= n
  <2> TAKE m \in used
  <2>1. m \in Nat /\ ~(n < m)
    BY <1>0, <1>5 DEF IInv, RequestsInv, NumbersInOrder
  <2> QED BY <1>5, <2>1
<1>7. \A k \in Numbers : k < n => k \in used
  BY <1>0, <1>3, <1>4, <1>5
<1> QED BY <1>5, <1>6, <1>7 DEF n, free

\* The new request is of the stream, and pending in every segment with letters of it.
LEMMA RequestReplayFacts ==
    ASSUME RequestTypes, NEW n, ~Known(n), NEW stream \in Streams
    PROVE  LET reqs == RequestReplay(n, stream) IN
           /\ DOMAIN reqs = DOMAIN replays \cup {n}
           /\ reqs \in [DOMAIN replays \cup {n} -> [stream : Streams, state : States]]
           /\ \A m \in DOMAIN replays : reqs[m] = replays[m]
           /\ reqs[n].stream = stream
           /\ \A s \in Segments : Holds(s, stream) => reqs[n].state[s] = "pending"
<1> DEFINE new == [stream |-> stream, state |-> [s \in Segments |->
                     IF Holds(s, stream) THEN "pending" ELSE "none"]]
<1>1. /\ new \in [stream : Streams, state : States] /\ new.stream = stream
      /\ \A s \in Segments : Holds(s, stream) => new.state[s] = "pending"
  BY DEF States
<1>2. RequestReplay(n, stream) = [m \in DOMAIN replays \cup {n} |-> IF m # n THEN replays[m] ELSE new]
  BY DEF RequestReplay
<1> HIDE DEF new
<1>3. n \notin DOMAIN replays /\ replays \in [DOMAIN replays -> [stream : Streams, state : States]]
  BY DEF Known, RequestTypes
<1> QED BY <1>1, <1>2, <1>3

\* A ReplayStream is made for the letters its stream has now.
LEMMA ReplayStreamRequests ==
    ASSUME IInv, NEW i \in Instances, NEW stream \in Streams, ReplayStream(i, stream)
    PROVE  RequestsInv'
<1> USE DEF IInv, RequestsInv
<1> DEFINE n == Min(Numbers \ used)
           about == {e \in UNION {letters[s] : s \in Segments} : StreamOf[e] = stream}
<1>1. /\ Cardinality(used) < setup.maxRequests
      /\ \E s \in Segments : Holds(s, stream)
      /\ replays' = RequestReplay(n, stream) /\ used' = used \cup {n}
      /\ caller' = [caller EXCEPT ![n] = i] /\ owed' = [owed EXCEPT ![n] = about]
      /\ UNCHANGED <<storeVars, setup, letters, goVars, pending, queued, found>>
  BY DEF ReplayStream, queueVars
<1>2. /\ n \in Numbers /\ n \notin used /\ n \in Nat /\ n # 0
      /\ \A m \in used : m <= n
      /\ \A k \in Numbers : k < n => k \in used
  BY <1>1, NewNumber
<1> HIDE DEF n
<1>3. RequestTypes /\ DOMAIN replays \subseteq used /\ ~Known(n)
  BY <1>2 DEF RequestTypes, Known
<1>4. /\ DOMAIN replays' = DOMAIN replays \cup {n}
      /\ replays' \in [DOMAIN replays \cup {n} -> [stream : Streams, state : States]]
      /\ \A m \in DOMAIN replays : replays'[m] = replays[m]
      /\ replays'[n].stream = stream
      /\ \A s \in Segments : Holds(s, stream) => replays'[n].state[s] = "pending"
  <2> DEFINE reqs == RequestReplay(n, stream)
  <2>1. /\ DOMAIN reqs = DOMAIN replays \cup {n}
        /\ reqs \in [DOMAIN replays \cup {n} -> [stream : Streams, state : States]]
        /\ \A m \in DOMAIN replays : reqs[m] = replays[m]
        /\ reqs[n].stream = stream
        /\ \A s \in Segments : Holds(s, stream) => reqs[n].state[s] = "pending"
    BY <1>3, RequestReplayFacts
  <2>2. replays' = reqs
    BY <1>1
  <2> HIDE DEF reqs
  <2> QED BY <2>1, <2>2
<1>5. ASSUME NEW e \in about
      PROVE  /\ e \in Events /\ StreamOf[e] = stream
             /\ e <= rows[setup.segmentOf[e]].pos
  <2>1. PICK s \in Segments : e \in letters[s]
    OBVIOUS
  <2>2. e \in InSegment(s) /\ setup.segmentOf[e] = s /\ e \in Events
    BY <2>1 DEF LettersInv, SegmentSound, InSegment
  <2>3. e <= rows[s].pos
    BY <2>1, <2>2, PassedOrNot
  <2> QED BY <2>2, <2>3
<1>6. \A s \in Segments : \A e \in about \cap letters[s] : Holds(s, stream)
  BY DEF Holds
<1> HIDE DEF about
<1>7. RequestTypes'
  <2>1. about \subseteq Events
    BY <1>5
  <2>2. /\ caller' \in [Numbers -> Instances \cup {None}]
        /\ owed' \in [Numbers -> SUBSET Events]
    BY <1>1, <2>1 DEF RequestTypes
  <2>3. /\ gone' = gone /\ \A j \in Instances, t \in Segments : gone'[j][t] \subseteq used'
    BY <1>1 DEF RequestTypes, goVars
  <2> QED BY <1>1, <1>2, <1>3, <1>4, <2>2, <2>3 DEF RequestTypes, goVars
<1>o. owed'[n] = about /\ \A k \in Numbers : k # n => owed'[k] = owed[k]
  BY <1>1, <1>2 DEF RequestTypes
<1>8. RequestsMade'
  <2>1. \A r : Made(r) => Made(r)'
    BY <1>1, <1>2, <1>4 DEF Made, Known
  <2> QED BY <1>1, <2>1 DEF RequestsMade, goVars
<1>9. NumbersInOrder'
  BY <1>1, <1>2 DEF NumbersInOrder
<1>10. SucceededIsDeleted'
  <2> SUFFICES ASSUME NEW m \in DOMAIN replays'
               PROVE  \E t \in Segments : replays'[m].state[t] \in {"pending", "failed"}
    BY DEF SucceededIsDeleted, Rows
  <2>1. CASE m = n
    BY <1>1, <1>4, <2>1
  <2>2. CASE m # n
    BY <1>4, <2>2 DEF SucceededIsDeleted, Rows
  <2> QED BY <2>1, <2>2
<1>11. FinishingKept
  BY <1>1 DEF FinishingKept, StillFinishing, goVars
<1>12. FinishingApart'
  BY <1>11, FinishingApartStays
<1>13. \A j \in Instances, t \in Segments : FinishingSound(j, t)'
  <2> TAKE j \in Instances, t \in Segments
  <2>1. FinishingSound(j, t) /\ StillFinishing(j, t)
    BY <1>11 DEF FinishingKept
  <2>2. pc[j][t] = "finishing" => First(j, t).number \in used
    BY FirstFacts DEF RequestsMade
  <2>3. \A m \in gone[j][t] : m \in Numbers /\ m # n
    BY <1>2 DEF RequestTypes
  <2>4. \A m \in gone[j][t] : NothingOwed(m) => NothingOwed(m)'
    BY <1>1, <1>o, <2>3 DEF NothingOwed
  <2> QED BY <1>1, <1>2, <1>4, <2>1, <2>2, <2>4, FinishingSoundStays DEF Known
<1>14. OwedSound'
  <2> SUFFICES ASSUME NEW k \in Numbers
               PROVE  /\ \A e \in owed'[k] :
                           /\ e <= rows'[setup'.segmentOf[e]].pos
                           /\ k \in DOMAIN replays' => StreamOf[e] = replays'[k].stream
                      /\ \A s \in Segments : \A e \in owed'[k] \cap letters'[s] :
                           /\ k \in DOMAIN replays'
                           /\ \A m \in DOMAIN replays' :
                                m >= k /\ replays'[m].stream = StreamOf[e] =>
                                  replays'[m].state[s] \in {"pending", "failed"}
    BY DEF OwedSound, Known, Rows
  <2>1. CASE k = n
    <3>1. \A m \in DOMAIN replays' : m >= n => m = n
      <4> SUFFICES ASSUME NEW m \in DOMAIN replays', m >= n, m # n PROVE FALSE
        OBVIOUS
      <4>1. m \in used /\ m <= n /\ m \in Nat
        BY <1>2, <1>3, <1>4, NumbersAre DEF RequestTypes
      <4> QED BY <1>2, <4>1
    <3>2. \A s \in Segments : \A e \in owed'[n] \cap letters'[s] :
             replays'[n].state[s] = "pending"
      BY <1>1, <1>o, <1>4, <1>6
    <3>3. \A e \in owed'[n] :
             e <= rows'[setup'.segmentOf[e]].pos /\ StreamOf[e] = replays'[n].stream
      BY <1>1, <1>o, <1>4, <1>5 DEF storeVars
    <3> QED BY <1>4, <2>1, <3>1, <3>2, <3>3
  <2>2. CASE k # n
    <3>1. /\ owed'[k] = owed[k] /\ (k \in DOMAIN replays' <=> k \in DOMAIN replays)
          /\ UNCHANGED <<rows, setup, letters>>
      BY <1>1, <1>4, <1>o, <2>2 DEF storeVars
    <3>2. \A e \in owed[k] :
             /\ e <= rows[setup.segmentOf[e]].pos
             /\ k \in DOMAIN replays => StreamOf[e] = replays[k].stream
      BY DEF OwedSound, Known
    <3>3. ASSUME NEW s \in Segments, NEW e \in owed[k] \cap letters[s]
          PROVE  /\ k \in DOMAIN replays
                 /\ \A m \in DOMAIN replays' :
                      m >= k /\ replays'[m].stream = StreamOf[e] =>
                        replays'[m].state[s] \in {"pending", "failed"}
      <4>1. /\ k \in DOMAIN replays
            /\ \A m \in DOMAIN replays : m >= k /\ replays[m].stream = StreamOf[e] =>
                  replays[m].state[s] \in {"pending", "failed"}
        BY DEF OwedSound, Known, Rows
      <4>2. stream = StreamOf[e] => Holds(s, stream)
        BY DEF Holds
      <4> QED BY <1>4, <4>1, <4>2
    <3>4. k \in DOMAIN replays => replays'[k] = replays[k]
      BY <1>4
    <3> QED BY <3>1, <3>2, <3>3, <3>4
  <2> QED BY <2>1, <2>2
<1> QED BY <1>7, <1>8, <1>9, <1>10, <1>12, <1>13, <1>14

\* A call returns, its request served or not.
LEMMA ReturnsRequests ==
    ASSUME IInv, NEW n \in Numbers, Answered(n) \/ GivesUp(n)
    PROVE  RequestsInv'
<1> USE DEF IInv, RequestsInv
<1>1. /\ caller' = [caller EXCEPT ![n] = None] /\ owed' = [owed EXCEPT ![n] = {}]
      /\ UNCHANGED <<setup, replays, used, goVars, pending, queued, found>>
  BY DEF Answered, GivesUp, Returns, queueVars, pollVars
<1>2. CallsShrink
  BY <1>1 DEF RequestTypes, CallsShrink
<1>3. RequestTypes'
  BY <1>1, <1>2 DEF RequestTypes, goVars, CallsShrink
<1>4. RequestsMade'
  BY <1>1 DEF RequestsMade, Made, Known, goVars
<1>5. FinishingKept
  BY <1>1 DEF FinishingKept, StillFinishing, goVars
<1>6. LettersInv' /\ Grows
  BY ApartActions, ApartStep
<1>7. StoreRequests'
  BY <1>1, <1>2, <1>5, <1>6, StoreRequestsStay
<1> QED BY <1>3, <1>4, <1>7 DEF StoreRequests

-----------------------------------------------------------------------------
(* The specification.                                                        *)

\* The steps of a goroutine.
LEMMA WorkRequests ==
    ASSUME IInv, NEW i \in Instances, NEW s \in Segments, 
           Work(i, s) \/ CommitFails(i, s) \/ FinishFails(i, s)
    PROVE  RequestsInv'
<1>1. CASE ClaimLost(i, s)
  <2>1. /\ Leave(i, s) /\ pc[i][s] # "finishing"
        /\ UNCHANGED <<storeVars, setup, bad, applied, letters, replayUntil, replays, pollVars,
                       callVars>>
    BY <1>1 DEF ClaimLost
  <2>2. LettersInv' /\ OthersKept(i, s) /\ Grows
    BY <2>1, LeaveStep
  <2> QED BY <2>1, <2>2, LeaveRequests
<1> QED BY <1>1, PlainActions, RebuildRequests, TopRequests, OneByOneRequests,
           FinishReplayRequests, LockRequestRequests, CommitFinishRequests, FinishFailsRequests,
           CommitFailsRequests DEF Work

\* Steps that change neither goroutines nor requests.
LEMMA SurroundingRequests ==
    ASSUME IInv,
           \/ RequestsRebuild \/ (\E e \in Events : Fix(e)) \/ (\E s \in Segments : Expire(s))
           \/ UNCHANGED vars
    PROVE  RequestsInv'
<1>1. UNCHANGED <<setup, replays, used, caller, owed, goVars, pending, queued, found>>
  BY DEF RequestsRebuild, Fix, Expire, vars, queueVars, pollVars, callVars
<1>2. LettersInv' /\ Grows
  <2>1. CASE RequestsRebuild \/ \E e \in Events : Fix(e)
    BY <2>1, ApartActions, ApartStep
  <2>2. CASE \E s \in Segments : Expire(s)
    BY <2>2, ExpireStep
  <2>3. CASE UNCHANGED vars
    <3>1. Apart
      BY <2>3 DEF vars, storeVars, goVars, Apart, IInv, LettersInv, StoreTypes, StoreTypeOK
    <3> QED BY <3>1, ApartStep
  <2> QED BY <2>1, <2>2, <2>3
<1> QED BY <1>1, <1>2, StillStep

\* Every step keeps the requests sound.
LEMMA RequestsStep == ASSUME IInv, [Next]_vars PROVE RequestsInv'
<1>1. CASE UNCHANGED vars
  BY <1>1, SurroundingRequests
<1>2. CASE Next
  BY <1>2, PollRequests, RestartRequests, WorkRequests, ReplayStreamRequests, ReturnsRequests,
     SurroundingRequests DEF Next
<1> QED BY <1>1, <1>2

\* No request at the start.
LEMMA InitRequests == Init => RequestsInv
<1> SUFFICES ASSUME Init PROVE RequestsInv
  OBVIOUS
<1>1. DOMAIN replays = {} /\ replays \in [{} -> [stream : Streams, state : States]]
  BY DEF Init, NoReplays
<1>2. found \in [Instances -> [at : {"idle", "read", "queue"}, requests : SUBSET Replay]]
      /\ \A i \in Instances : found[i].requests = {}
  BY DEF Init, Idle
<1>3. RequestTypes
  BY <1>1, <1>2 DEF Init, PerSegment, RequestTypes
<1>4. \A i \in Instances, s \in Segments :
         pc[i][s] = "claim" /\ serving[i][s] = {} /\ pending[i][s] = {}
  BY DEF Init, PerSegment
<1>5. RequestsMade
  BY <1>2, <1>4 DEF RequestsMade
<1>6. NumbersInOrder /\ OwedSound /\ SucceededIsDeleted
  BY <1>1 DEF Init, NumbersInOrder, OwedSound, SucceededIsDeleted
<1>7. FinishingApart /\ \A i \in Instances, s \in Segments : FinishingSound(i, s)
  BY <1>4 DEF FinishingApart, FinishingSound
<1> QED BY <1>3, <1>5, <1>6, <1>7 DEF RequestsInv

(***************************************************************************)
(* The inductive invariant: what a goroutine knows of its segment under its  *)
(* claim (segment.go), and what a request in the store, in a queue or in a   *)
(* FinishReplay still stands for (replay.go, FinishReplay of the stores).    *)
(***************************************************************************)
THEOREM Inductive == Spec => []IInv
<1>1. Init => IInv
  BY InitLetters, InitRequests DEF IInv
<1>2. IInv /\ [Next]_vars => IInv'
  BY LettersStep, RequestsStep DEF IInv
<1> QED BY <1>1, <1>2, PTL DEF Spec

(***************************************************************************)
(* The variables have their types.  In particular no event is ever applied   *)
(* more than once, and a goroutine's requests are requests that can be made. *)
(***************************************************************************)
THEOREM TypeCorrect == Spec => []TypeOK
<1>1. IInv => TypeOK
  <2> SUFFICES ASSUME IInv PROVE TypeOK
    OBVIOUS
  <2>1. StoreTypes /\ LoopTypes /\ RequestTypes
    BY DEF IInv, LettersInv, RequestsInv
  <2>2. Positions = {0} \cup Events
    BY LogFacts
  <2>3. applied \in [Events -> 0 .. 3]
    <3>1. \A e \in Events : applied[e] \in 0 .. 3
      <4> TAKE e \in Events
      <4>1. setup.segmentOf[e] \in Segments /\ e \in InSegment(setup.segmentOf[e])
        BY <2>1, SetupFacts DEF StoreTypes, InSegment
      <4> QED BY <4>1, PassedOrNot DEF IInv
    <3> QED BY <2>1, <3>1 DEF StoreTypes
  <2>4. \A n \in DOMAIN replays : replays[n] \in [stream : Streams, state : States]
    BY <2>1 DEF RequestTypes
  <2> QED BY <2>1, <2>2, <2>3, <2>4 DEF TypeOK, StoreTypes, LoopTypes, RequestTypes, PCs, States
<1> QED BY Inductive, <1>1, PTL

(***************************************************************************)
(* Every event up to a checkpoint is in the read model or a dead letter,     *)
(* exactly one of them and once, and no later one is either: skipEvent and   *)
(* replayStream write the letter, the read model and the checkpoint in one   *)
(* Commit (segment.go), and only under the claim, whoever takes it over and  *)
(* whenever a rebuild empties all three.                                     *)
(***************************************************************************)
THEOREM AppliedOrDead == Spec => []AppliedOrLettered
<1>1. IInv => AppliedOrLettered
  BY DEF IInv, LettersInv, SegmentSound, AppliedOrLettered
<1> QED BY Inductive, <1>1, PTL

(***************************************************************************)
(* Events of a stream reach the read model in order.  A goroutine that       *)
(* claims a segment parks every stream with letters before it applies an     *)
(* event (loadParked), parks the stream of each event it skips, and opens    *)
(* one only when a replay has left no letter of it (segment.go, replayStream)*)
(***************************************************************************)
THEOREM StreamsInOrder == Spec => []StreamInOrder
<1>1. IInv => StreamInOrder
  BY DEF IInv, LettersInv
<1> QED BY Inductive, <1>1, PTL

(***************************************************************************)
(* A request that every segment has served is deleted, however the           *)
(* FinishReplay of its segments interleave: the row lock makes the second    *)
(* see the first one done (projection stores, FinishReplay).                 *)
(***************************************************************************)
THEOREM ServedIsDeleted == Spec => []SucceededIsDeleted
<1>1. IInv => SucceededIsDeleted
  BY DEF IInv, RequestsInv
<1> QED BY Inductive, <1>1, PTL

(***************************************************************************)
(* A ReplayStream that returns without an error is true: no letter its       *)
(* stream had at the call is left, unless a rebuild started over.  Any       *)
(* number of calls wait at once, of any streams, and instances, claims and   *)
(* Commits fail between.  A letter still there keeps its segment's part of   *)
(* the call's request, and of every later one of the stream, pending or      *)
(* failed: so neither the request's own FinishReplay nor the sweep of a      *)
(* later one deletes it (replay.go, FinishReplay of the stores).             *)
(***************************************************************************)
THEOREM RepliesAreTrue == Spec => ReplayIsTrue
<1>1. ASSUME IInv, NEW n \in Numbers, Outcome(n) = "ok"
      PROVE  \A s \in Segments : owed[n] \cap letters[s] = {}
  <2> SUFFICES ASSUME NEW s \in Segments, NEW e \in owed[n] \cap letters[s] PROVE FALSE
    OBVIOUS
  <2>1. Known(n) /\ StreamOf[e] = replays[n].stream
    BY <1>1 DEF IInv, RequestsInv, OwedSound
  <2>2. n \in DOMAIN replays /\ n >= n
    BY <2>1, NumbersAre DEF Known
  <2>3. Rows(n)[s] \in {"pending", "failed"}
    BY <1>1, <2>1, <2>2 DEF IInv, RequestsInv, OwedSound
  <2> QED BY <1>1, <2>1, <2>3 DEF Outcome
<1>2. IInv => [\A n \in Numbers :
                  caller[n] # None /\ caller'[n] = None /\ Outcome(n) = "ok" =>
                    \A s \in Segments : owed[n] \cap letters[s] = {}]_vars
  BY <1>1
<1> QED BY Inductive, <1>2, PTL DEF ReplayIsTrue

=============================================================================
