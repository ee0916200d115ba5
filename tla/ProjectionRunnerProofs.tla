----------------------- MODULE ProjectionRunnerProofs -----------------------
(***************************************************************************)
(* Theorems about ProjectionRunner, for any number of instances, owners,     *)
(* segments and events.                                                      *)
(***************************************************************************)
EXTENDS ProjectionRunner, WellFoundedInduction, TLAPS

\* Between the two critical sections of a Commit, and of a Reset.
InCommit == {"commit", "written"}
InReset  == {"wiping", "wiped"}

\* The position is one of the log, and a claimed row has an epoch no lease lacks.
RowSound(s) ==
    /\ rows[s].pos <= MaxHead
    /\ rows[s].owner # None => rows[s].epoch > 0

\* No lease is ahead of its row, so an epoch that a takeover gives out is new.
LeaseBehind(i, s) ==
    /\ lease[i][s] <= rows[s].epoch
    /\ opLease[i][s] <= rows[s].epoch
    /\ pc[i][s] \in InCommit \cup {"committed"} => lease[i][s] \in {0, opLease[i][s]}

\* A batch begins behind the local checkpoint and ends within what failed before.
BatchAhead(i, s) ==
    /\ pc[i][s] = "work" => upTo[i][s] = 0 \/ cp[i][s] < upTo[i][s]
    /\ pc[i][s] \in InCommit => cp[i][s] < opTo[i][s]
    /\ pc[i][s] \in InCommit \cup {"committed"} =>
          /\ cp[i][s] <= opTo[i][s]
          /\ upTo[i][s] = 0 \/ opTo[i][s] <= upTo[i][s]

\* A loop works from the stored checkpoint, or it has lost its claim.
FromCheckpoint(i, s) ==
    /\ pc[i][s] = "work" /\ Owned(i, s, lease[i][s]) => cp[i][s] = rows[s].pos
    /\ pc[i][s] \in InCommit /\ Owned(i, s, opLease[i][s]) => cp[i][s] = rows[s].pos
    /\ pc[i][s] = "committed" /\ Owned(i, s, lease[i][s]) => opTo[i][s] = rows[s].pos

\* A transaction in progress has its row locked: the claim cannot be lost.
LockHeld(i, s) ==
    Transactional /\ pc[i][s] \in InCommit \cup InReset => Owned(i, s, opLease[i][s])

LoopSound(i, s) ==
    LeaseBehind(i, s) /\ BatchAhead(i, s) /\ FromCheckpoint(i, s) /\ LockHeld(i, s)

\* Instance i has been given epoch e of segment s.
Knows(i, s, e) == e = lease[i][s] \/ e = opLease[i][s]

\* An epoch is given to one instance, also when instances share an Owner.
EpochsDiffer ==
    \A i, j \in Instances, s \in Segments :
        i # j => \A e \in {lease[i][s], opLease[i][s]} : Knows(j, s, e) => e = 0

\* A Reset runs alone; so does a Commit of a segment when rows are locked.
UnitsApart ==
    /\ \A i, j \in Instances, s, t \in Segments :
          pc[i][s] \in InReset /\ pc[j][t] \in InReset \cup InCommit => i = j /\ s = t
    /\ Transactional => \A i, j \in Instances, s \in Segments :
          pc[i][s] \in InCommit /\ pc[j][s] \in InCommit => i = j

ClaimsSound ==
    /\ requested <= MaxRequests
    /\ \A s \in Segments : RowSound(s)
    /\ \A i \in Instances, s \in Segments : LoopSound(i, s)
    /\ EpochsDiffer
    /\ UnitsApart

IInv == TypeOK /\ ClaimsSound /\ ExactlyOnce

-----------------------------------------------------------------------------

\* One deployment of the projection, at one Version.
OneVersion == \A i, j \in Instances : Version[i] = Version[j]

\* With one Version no checkpoint is older or newer: only requests rebuild.
NoUpgrade ==
    /\ \A i \in Instances, s \in Segments :
          rows[s].version = Version[i] \/ (rows[s].version = 0 /\ rows[s].pos = 0)
    /\ \A i \in Instances, s \in Segments : pc[i][s] \notin {"aside", "upgrade"}

\* A read model is wiped only for a request that no Reset has served.
WipeIsDue ==
    \A i \in Instances, s \in Segments :
        \/ pc[i][s] \in InReset
        \/ pc[i][s] = "lockwait" /\ Owned(i, s, opLease[i][s])
        => requested > served

\* What a Commit has written is still there when it moves the checkpoint.
WrittenIsThere ==
    \A i \in Instances, s \in Segments : pc[i][s] = "written" =>
        \A p \in Own(s, cp[i][s], opTo[i][s]) : model[p].n > 0

MemoryInv ==
    NoUpgrade /\ served <= requested /\ WipeIsDue /\ WrittenIsThere /\ NothingMissing

-----------------------------------------------------------------------------

\* A rollout: at most two Versions run, and nobody asks for a rebuild.
OneRollout ==
    /\ MaxRequests = 0
    /\ \A i, j, k \in Instances : ~(Version[i] < Version[j] /\ Version[j] < Version[k])

Rebuilds == {"upgrade", "lockwait", "wiping", "wiped", "reset", "reclaim"}

\* A checkpoint that has moved has the Version of an instance.
VersionsKnown ==
    \A s \in Segments :
        \/ \E i \in Instances : rows[s].version = Version[i]
        \/ rows[s].version = 0 /\ rows[s].pos = 0

\* Who works under a claim has the checkpoint's Version, or begins a newer one.
VersionFits ==
    \A i \in Instances, s \in Segments :
        \/ pc[i][s] \in {"work", "committed"} /\ Owned(i, s, lease[i][s])
        \/ pc[i][s] \in InCommit /\ Owned(i, s, opLease[i][s])
        => /\ rows[s].version <= Version[i]
           /\ rows[s].pos = 0 \/ rows[s].version = Version[i]

\* Only the newest Version rebuilds, and its reclaim finds its own Version.
NewestRebuilds ==
    \A i \in Instances, s \in Segments :
        /\ pc[i][s] \in Rebuilds => \A j \in Instances : Version[j] <= Version[i]
        /\ pc[i][s] \in {"reset", "reclaim"} => rows[s].version = Version[i]

RolloutInv == VersionsKnown /\ VersionFits /\ NewestRebuilds /\ VersionsDoNotMix

-----------------------------------------------------------------------------

OneInstance == \A i, j \in Instances : i = j

\* Only segment 0 rebuilds, and while it does, `resetting` is set.
ResetsFromZero ==
    \A i \in Instances, s \in Segments :
        pc[i][s] \in Rebuilds => s = 0 /\ resetting[i]

\* Positions in memory, and those about to get there, have been reached since the
\* last wipe, but for the moment between Reset and the forgetting of positions.
PositionsReached ==
    \A i \in Instances, s \in Segments :
        /\ pc[i][s] = "committed" => opLease[i][s] > 0
        /\ pc[i][0] # "reset" =>
              /\ mem[i][s].pos <= rows[s].pos
              /\ pc[i][s] = "committed" /\ lease[i][s] = opLease[i][s]
                    => opTo[i][s] <= rows[s].pos

\* An instance that has not started has no loops.
NewIsOff == \A i \in Instances : up[i] = "new" => \A s \in Segments : pc[i][s] = "off"

PositionInv == NoUpgrade /\ NewIsOff /\ ResetsFromZero /\ PositionsReached

-----------------------------------------------------------------------------
\* Every nonempty set of positions has a least one, which is what Min names.
LEMMA MinFacts ==
    ASSUME NEW S, S \subseteq Nat, S # {}
    PROVE  Min(S) \in S /\ \A k \in S : Min(S) <= k
<1>1. PICK m \in S : \A k \in S : ~(<<k, m>> \in OpToRel(<, Nat))
  BY NatLessThanWellFounded, WFMin, Zenon
<1>2. \A k \in S : ~(k < m)
  BY <1>1, Zenon DEF OpToRel
<1>3. \A k \in S : m <= k
  BY <1>2
<1> QED BY <1>3 DEF Min

\* What the handler does to the read model: every event of the batch once more.
LEMMA HandledFacts ==
    ASSUME TypeOK, NEW i \in Instances, NEW ps \in SUBSET Events
    PROVE  /\ Handled(i, ps) \in [Events -> [n : 0..Many, by : Nat]]
           /\ \A p \in ps : /\ Handled(i, ps)[p].n > 0
                            /\ Handled(i, ps)[p].by = Version[i]
                            /\ model[p].n = 0 => Handled(i, ps)[p].n = 1
           /\ \A p \in Events \ ps : Handled(i, ps)[p] = model[p]
<1> DEFINE h(p) == IF p \in ps THEN [n |-> Min({Many, model[p].n + 1}), by |-> Version[i]]
                   ELSE model[p]
<1>1. Handled(i, ps) = [p \in Events |-> h(p)]
  BY DEF Handled
<1>2. Version[i] \in Nat /\ model \in [Events -> [n : 0..Many, by : Nat]]
  BY RunnerAssumption DEF TypeOK
<1>3. ASSUME NEW p \in Events
      PROVE  /\ Min({Many, model[p].n + 1}) \in 0..Many
             /\ Min({Many, model[p].n + 1}) > 0
             /\ model[p].n = 0 => Min({Many, model[p].n + 1}) = 1
  <2> DEFINE S == {Many, model[p].n + 1}
  <2>1. model[p].n \in 0..Many
    BY <1>2
  <2>2. S \subseteq Nat /\ S # {} /\ \A k \in S : k > 0
    BY <2>1 DEF Many
  <2>3. Min(S) \in S /\ \A k \in S : Min(S) <= k
    BY <2>2, MinFacts
  <2> QED BY <2>1, <2>2, <2>3 DEF Many
<1>4. \A p \in Events : h(p) \in [n : 0..Many, by : Nat]
  BY <1>2, <1>3
<1>5. Handled(i, ps) \in [Events -> [n : 0..Many, by : Nat]]
  BY <1>1, <1>4
<1>6. \A p \in Events : Handled(i, ps)[p] = h(p)
  BY <1>1
<1>7. ASSUME NEW p \in ps
      PROVE  /\ Handled(i, ps)[p].n > 0
             /\ Handled(i, ps)[p].by = Version[i]
             /\ model[p].n = 0 => Handled(i, ps)[p].n = 1
  <2>1. Handled(i, ps)[p] = [n |-> Min({Many, model[p].n + 1}), by |-> Version[i]]
    BY <1>6
  <2>2. Handled(i, ps)[p].n = Min({Many, model[p].n + 1}) /\ Handled(i, ps)[p].by = Version[i]
    BY <2>1
  <2> QED BY <1>3, <2>2
<1>8. \A p \in Events \ ps : Handled(i, ps)[p] = model[p]
  BY <1>6
<1> QED BY <1>5, <1>7, <1>8

\* Where a batch ends: behind the local checkpoint, within what failed before.
LEMMA ReadsFacts ==
    ASSUME TypeOK, NEW i \in Instances, NEW s \in Segments, NEW to \in Events,
           Reads(i, s, to), upTo[i][s] = 0 \/ cp[i][s] < upTo[i][s]
    PROVE  cp[i][s] < to /\ (upTo[i][s] = 0 \/ to <= upTo[i][s])
<1>1. cp[i][s] \in Nat /\ upTo[i][s] \in Nat
  BY RunnerAssumption DEF TypeOK
<1>2. CASE upTo[i][s] = 0
  BY <1>1, <1>2 DEF Reads
<1>3. CASE upTo[i][s] # 0
  <2> DEFINE S == Own(s, cp[i][s], upTo[i][s]) \cup {upTo[i][s]}
  <2>1. S \subseteq Nat /\ S # {} /\ upTo[i][s] \in S /\ \A k \in S : k > cp[i][s]
    BY <1>1, <1>3 DEF Own, Events
  <2>2. to = Min(S)
    BY <1>3 DEF Reads
  <2>3. to \in S /\ \A k \in S : to <= k
    BY <2>1, <2>2, MinFacts
  <2> QED BY <2>1, <2>3
<1> QED BY <1>2, <1>3

-----------------------------------------------------------------------------
\* The fields of a row.
LEMMA RowTypes ==
    ASSUME TypeOK, \A s \in Segments : RowSound(s)
    PROVE  /\ \A s \in Segments :
                /\ rows[s] \in Row /\ rows[s].pos \in 0..MaxHead
                /\ rows[s].epoch \in Nat /\ rows[s].version \in Nat
           /\ Version \in [Instances -> Nat] /\ Owner \in [Instances -> Owners]
           /\ 0 \in Segments
<1>1. \A s \in Segments : rows[s] \in Row
  BY DEF TypeOK, StoreTypeOK
<1> QED BY <1>1, StoreAssumption, RunnerAssumption DEF Row, RowSound

\* g is f with v for the loop of segment s of instance i.
At(f, g, i, s, v) ==
    /\ g[i][s] = v
    /\ \A j \in Instances, t \in Segments : j # i \/ t # s => g[j][t] = f[j][t]

\* An EXCEPT on one loop changes that loop only.
LEMMA SetAt ==
    ASSUME NEW S, NEW f \in [Instances -> [Segments -> S]],
           NEW i \in Instances, NEW s \in Segments, NEW v \in S
    PROVE  /\ [f EXCEPT ![i][s] = v] \in [Instances -> [Segments -> S]]
           /\ At(f, [f EXCEPT ![i][s] = v], i, s, v)
BY DEF At

\* Goto moves one loop.
LEMMA GotoAt ==
    ASSUME TypeOK, NEW i \in Instances, NEW s \in Segments, NEW w \in PCs, Goto(i, s, w)
    PROVE  pc' \in [Instances -> [Segments -> PCs]] /\ At(pc, pc', i, s, w)
<1>1. pc' = [pc EXCEPT ![i][s] = w] /\ pc \in [Instances -> [Segments -> PCs]]
  BY DEF Goto, TypeOK
<1> QED BY <1>1, SetAt

MemRecord == [pos : 0..MaxHead, owned : BOOLEAN]

\* setPhase leaves every position in memory alone.
LEMMA PhaseAt ==
    ASSUME TypeOK, NEW i \in Instances, NEW s \in Segments, NEW o \in BOOLEAN, Phase(i, s, o)
    PROVE  /\ mem' \in [Instances -> [Segments -> MemRecord]]
           /\ \A j \in Instances, t \in Segments : mem'[j][t].pos = mem[j][t].pos
<1>1. mem \in [Instances -> [Segments -> MemRecord]]
  BY DEF TypeOK, MemRecord
<1> DEFINE v == [mem[i][s] EXCEPT !.owned = o]
<1>2. v \in MemRecord /\ v.pos = mem[i][s].pos
  BY <1>1 DEF MemRecord
<1>3. mem' = [mem EXCEPT ![i][s] = v]
  BY <1>1 DEF Phase
<1> HIDE DEF v
<1>4. mem' \in [Instances -> [Segments -> MemRecord]] /\ At(mem, mem', i, s, v)
  BY <1>1, <1>2, <1>3, SetAt
<1> QED BY <1>2, <1>4 DEF At

\* What a claim, a release, a heartbeat and a commit make of the rows.
RowAt(s, r) ==
    /\ rows' \in [Segments -> Row] /\ rows'[s] = r
    /\ \A t \in Segments : t # s => rows'[t] = rows[t]

\* An EXCEPT on one row changes that row only.
LEMMA SetRow ==
    ASSUME TypeOK, NEW s \in Segments, NEW r \in Row, rows' = [rows EXCEPT ![s] = r]
    PROVE  RowAt(s, r)
BY DEF TypeOK, StoreTypeOK, RowAt

\* The row of s keeps its position, Version and claim; the heartbeat may change.
RowKept(s) ==
    /\ rows'[s].pos = rows[s].pos /\ rows'[s].version = rows[s].version
    /\ rows'[s].owner = rows[s].owner /\ rows'[s].epoch = rows[s].epoch

RowsKept == rows' \in [Segments -> Row] /\ \A t \in Segments : RowKept(t)

\* The claim on s goes to Owner[i] with epoch e; position and Version stay.
ClaimGoes(i, s) ==
    /\ rows' \in [Segments -> Row]
    /\ \A t \in Segments : t # s => RowKept(t)
    /\ rows'[s].pos = rows[s].pos /\ rows'[s].version = rows[s].version
    /\ rows'[s].owner = Owner[i]
    /\ IF Owned(i, s, lease[i][s]) THEN RowKept(s) ELSE rows'[s].epoch = rows[s].epoch + 1

\* Claim gives the row to the claimant and keeps its checkpoint.
LEMMA ClaimedAt ==
    ASSUME TypeOK, \A s \in Segments : RowSound(s), NEW i \in Instances, NEW s \in Segments,
           rows' = [rows EXCEPT ![s] = Claimed(i, s, lease[i][s])]
    PROVE  ClaimGoes(i, s)
<1> DEFINE r == Claimed(i, s, lease[i][s])
<1>1. rows[s] \in Row /\ Owner[i] \in Owners
  BY RowTypes
<1>2. /\ r \in Row /\ r.pos = rows[s].pos /\ r.version = rows[s].version /\ r.owner = Owner[i]
      /\ r.epoch = IF Owned(i, s, lease[i][s]) THEN rows[s].epoch ELSE rows[s].epoch + 1
  <2>1. rows[s].epoch \in Nat
    BY <1>1 DEF Row
  <2>2. PICK e \in Nat : e = IF Owned(i, s, lease[i][s]) THEN rows[s].epoch ELSE rows[s].epoch + 1
    BY <2>1
  <2>3. r = [rows[s] EXCEPT !.owner = Owner[i], !.fresh = TRUE, !.epoch = e]
    BY <1>1, <2>2 DEF Claimed, Row
  <2> QED BY <1>1, <2>2, <2>3 DEF Row
<1> HIDE DEF r
<1>3. RowAt(s, r)
  BY <1>2, SetRow DEF r
<1> QED BY <1>2, <1>3 DEF RowAt, RowKept, ClaimGoes, Owned

\* The claim on s is given up, or nothing happens.
ClaimDropped(i, s) ==
    /\ rows' \in [Segments -> Row]
    /\ \A t \in Segments : t # s => RowKept(t)
    /\ RowKept(s) \/ (/\ rows'[s].owner = None /\ rows'[s].epoch = rows[s].epoch
                       /\ rows'[s].pos = rows[s].pos /\ rows'[s].version = rows[s].version)

\* Release drops the claim and keeps the checkpoint.
LEMMA ReleasedAt ==
    ASSUME TypeOK, \A s \in Segments : RowSound(s), NEW i \in Instances, NEW s \in Segments,
           NEW e, rows' = Released(i, s, e) \/ rows' = rows
    PROVE  ClaimDropped(i, s)
<1>1. rows \in [Segments -> Row]
  BY DEF TypeOK, StoreTypeOK
<1>2. CASE rows' = rows
  BY <1>1, <1>2 DEF ClaimDropped, RowKept
<1>3. CASE rows' = [rows EXCEPT ![s].owner = None]
  <2> DEFINE r == [rows[s] EXCEPT !.owner = None]
  <2>1. rows' = [rows EXCEPT ![s] = r]
    BY <1>1, <1>3
  <2>2. /\ r \in Row /\ r.owner = None /\ r.epoch = rows[s].epoch
        /\ r.pos = rows[s].pos /\ r.version = rows[s].version
    BY <1>1 DEF Row
  <2> HIDE DEF r
  <2>3. RowAt(s, r)
    BY <2>1, <2>2, SetRow
  <2> QED BY <2>2, <2>3 DEF RowAt, RowKept, ClaimDropped
<1> QED BY <1>2, <1>3 DEF Released

\* A heartbeat keeps checkpoint and claim.
LEMMA RefreshedAt ==
    ASSUME TypeOK, NEW s \in Segments, NEW f \in BOOLEAN,
           rows' = [rows EXCEPT ![s].fresh = f] \/ rows' = rows
    PROVE  RowsKept
<1>1. rows \in [Segments -> Row]
  BY DEF TypeOK, StoreTypeOK
<1>2. CASE rows' = rows
  BY <1>1, <1>2 DEF RowsKept, RowKept
<1>3. CASE rows' = [rows EXCEPT ![s].fresh = f]
  <2> DEFINE r == [rows[s] EXCEPT !.fresh = f]
  <2>1. rows' = [rows EXCEPT ![s] = r]
    BY <1>1, <1>3
  <2>2. /\ r \in Row /\ r.owner = rows[s].owner /\ r.epoch = rows[s].epoch
        /\ r.pos = rows[s].pos /\ r.version = rows[s].version
    BY <1>1 DEF Row
  <2> HIDE DEF r
  <2>3. RowAt(s, r)
    BY <2>1, <2>2, SetRow
  <2> QED BY <2>2, <2>3 DEF RowAt, RowKept, RowsKept
<1> QED BY <1>2, <1>3

\* The checkpoint of s moves.
Moved(i, s, pos) ==
    /\ rows' \in [Segments -> Row]
    /\ \A t \in Segments : t # s => RowKept(t)
    /\ rows'[s].pos = pos /\ rows'[s].version = Version[i]
    /\ rows'[s].owner = rows[s].owner /\ rows'[s].epoch = rows[s].epoch

\* The last step of Commit moves one checkpoint and keeps the claim.
LEMMA CommittedAt ==
    ASSUME TypeOK, NEW i \in Instances, NEW s \in Segments, NEW pos \in Nat,
           rows' = [rows EXCEPT ![s] = Committed(s, pos, Version[i])]
    PROVE  Moved(i, s, pos)
<1> DEFINE r == Committed(s, pos, Version[i])
<1>1. rows \in [Segments -> Row] /\ rows[s] \in Row /\ Version[i] \in Nat
  BY RunnerAssumption DEF TypeOK, StoreTypeOK
<1>2. /\ r \in Row /\ r.owner = rows[s].owner /\ r.epoch = rows[s].epoch
      /\ r.pos = pos /\ r.version = Version[i]
  BY <1>1 DEF Row, Committed
<1> HIDE DEF r
<1>3. RowAt(s, r)
  BY <1>2, SetRow DEF r
<1> QED BY <1>2, <1>3 DEF RowAt, RowKept, Moved

\* Every checkpoint goes back to 0 and every claim but the one on s is dropped.
AllReset(i, s) ==
    /\ rows' \in [Segments -> Row]
    /\ \A t \in Segments :
          /\ rows'[t].pos = 0 /\ rows'[t].version = Version[i]
          /\ rows'[t].epoch = rows[t].epoch
          /\ rows'[t].owner = IF t = s THEN rows[t].owner ELSE None

\* The last step of Reset.
LEMMA ResetAt ==
    ASSUME TypeOK, NEW i \in Instances, NEW s \in Segments, rows' = ResetRows(s, Version[i])
    PROVE  AllReset(i, s)
<1>1. rows \in [Segments -> Row] /\ Version[i] \in Nat
  BY RunnerAssumption DEF TypeOK, StoreTypeOK
<1> QED BY <1>1 DEF AllReset, ResetRows, Row

-----------------------------------------------------------------------------
(***************************************************************************)
(* A move of the loop of segment s of instance i.  The other loops keep what *)
(* they have, but may lose a lease (Forget) or be ended with their instance; *)
(* a row that changes is no other loop's claim any more.                     *)
(***************************************************************************)
OthersKept(i, s) ==
    \A j \in Instances, t \in Segments : j # i \/ t # s =>
        /\ cp'[j][t] = cp[j][t] /\ opTo'[j][t] = opTo[j][t] /\ upTo'[j][t] = upTo[j][t]
        /\ opLease'[j][t] = opLease[j][t]
        /\ lease'[j][t] = lease[j][t] \/ lease'[j][t] = 0
        /\ pc'[j][t] = pc[j][t] \/ pc'[j][t] \in {"off", "claim"}

Taken(i, s, t) ==
    /\ rows'[t].epoch >= rows[t].epoch
    /\ \A j \in Instances : j # i \/ t # s =>
          /\ ~(rows'[t].owner = Owner[j] /\ rows'[t].epoch = lease[j][t])
          /\ ~(rows'[t].owner = Owner[j] /\ rows'[t].epoch = opLease[j][t])
          /\ Transactional => pc[j][t] \notin InCommit \cup InReset

RowsMove(i, s) ==
    /\ rows' \in [Segments -> Row]
    /\ \A t \in Segments : RowSound(t)'
    /\ \A t \in Segments : RowKept(t) \/ Taken(i, s, t)

EpochsFrom(i, s) ==
    /\ opLease'[i][s] = lease[i][s] \/ opLease'[i][s] = opLease[i][s]
    /\ \/ lease'[i][s] = 0 \/ lease'[i][s] = lease[i][s]
       \/ lease'[i][s] > rows[s].epoch

UnitsFrom(i, s) ==
    /\ pc'[i][s] \in InCommit => pc[i][s] \in InCommit \/ MayCommit(s)
    /\ pc'[i][s] \in InReset => pc[i][s] \in InReset \/ MayReset

Move(i, s) ==
    /\ OthersKept(i, s) /\ RowsMove(i, s) /\ EpochsFrom(i, s) /\ UnitsFrom(i, s)
    /\ LoopSound(i, s)' /\ requested' <= MaxRequests

\* The types of what one loop keeps, and of its row.
LEMMA LoopTypes ==
    ASSUME TypeOK, NEW i \in Instances, NEW s \in Segments
    PROVE  /\ lease[i][s] \in Nat /\ opLease[i][s] \in Nat /\ cp[i][s] \in 0..MaxHead
           /\ opTo[i][s] \in 0..MaxHead /\ upTo[i][s] \in 0..MaxHead
           /\ pc[i][s] \in PCs /\ rows[s] \in Row /\ rows[s].epoch \in Nat
           /\ rows[s].pos \in Nat /\ rows[s].version \in Nat /\ Owner[i] \in Owners /\ Owner[i] # None
           /\ MaxHead \in Nat /\ Version[i] \in Nat
<1>1. rows[s] \in Row /\ pc[i][s] \in PCs /\ lease[i][s] \in Nat /\ opLease[i][s] \in Nat
  BY DEF TypeOK, StoreTypeOK
<1>2. cp[i][s] \in 0..MaxHead /\ opTo[i][s] \in 0..MaxHead /\ upTo[i][s] \in 0..MaxHead
  BY DEF TypeOK
<1>3. rows[s].epoch \in Nat /\ rows[s].pos \in Nat /\ rows[s].version \in Nat
  BY <1>1 DEF Row
<1> QED BY <1>1, <1>2, <1>3, StoreAssumption, RunnerAssumption

\* A loop that does not move stays sound: its row is kept, or no longer its claim.
LEMMA OtherLoops ==
    ASSUME TypeOK, TypeOK', ClaimsSound, NEW i \in Instances, NEW s \in Segments,
           OthersKept(i, s), RowsMove(i, s), NEW j \in Instances, NEW t \in Segments,
           j # i \/ t # s
    PROVE  LoopSound(j, t)'
<1>1. /\ lease[j][t] \in Nat /\ opLease[j][t] \in Nat /\ rows[t].epoch \in Nat
      /\ Owner[j] # None
  BY LoopTypes
<1>2. rows'[t].epoch \in Nat
  BY DEF TypeOK, StoreTypeOK, Row
<1>3. LoopSound(j, t)
  BY DEF ClaimsSound
<1>4. /\ cp'[j][t] = cp[j][t] /\ opTo'[j][t] = opTo[j][t] /\ upTo'[j][t] = upTo[j][t]
      /\ opLease'[j][t] = opLease[j][t]
      /\ lease'[j][t] = lease[j][t] \/ lease'[j][t] = 0
      /\ pc'[j][t] = pc[j][t] \/ pc'[j][t] \in {"off", "claim"}
  BY DEF OthersKept
<1>5. RowSound(t)' /\ (RowKept(t) \/ Taken(i, s, t))
  BY DEF RowsMove
<1>6. rows'[t].epoch >= rows[t].epoch
  BY <1>2, <1>5 DEF RowKept, Taken
<1>7. LeaseBehind(j, t)'
  BY <1>1, <1>2, <1>3, <1>4, <1>6 DEF LoopSound, LeaseBehind, InCommit
<1>8. BatchAhead(j, t)'
  BY <1>3, <1>4 DEF LoopSound, BatchAhead, InCommit
<1>9. ASSUME NEW e \in Nat, Owned(j, t, e)'
      PROVE  e # 0
  BY <1>9, <1>1, <1>5 DEF Owned, RowSound
<1>10. CASE RowKept(t)
  <2>1. \A e : Owned(j, t, e)' <=> Owned(j, t, e)
    BY <1>10 DEF Owned, RowKept
  <2>2. FromCheckpoint(j, t)'
    BY <1>1, <1>3, <1>4, <1>9, <1>10, <2>1 DEF LoopSound, FromCheckpoint, InCommit, RowKept
  <2>3. LockHeld(j, t)'
    BY <1>3, <1>4, <2>1 DEF LoopSound, LockHeld, InCommit, InReset
  <2> QED BY <1>7, <1>8, <2>2, <2>3 DEF LoopSound
<1>11. CASE Taken(i, s, t)
  <2>1. ~Owned(j, t, lease[j][t])' /\ ~Owned(j, t, opLease[j][t])'
    BY <1>11, <1>4, <1>1, <1>9 DEF Taken, Owned
  <2>2. FromCheckpoint(j, t)'
    BY <2>1 DEF FromCheckpoint
  <2>3. Transactional => pc[j][t] \notin InCommit \cup InReset
    BY <1>11 DEF Taken
  <2>4. LockHeld(j, t)'
    BY <1>4, <2>3 DEF LockHeld, InCommit, InReset
  <2> QED BY <1>7, <1>8, <2>2, <2>4 DEF LoopSound
<1> QED BY <1>5, <1>10, <1>11

\* A move keeps the claims sound.
LEMMA MoveKeeps ==
    ASSUME TypeOK, TypeOK', ClaimsSound, NEW i \in Instances, NEW s \in Segments, Move(i, s)
    PROVE  ClaimsSound'
<1>1. ASSUME NEW j \in Instances, NEW t \in Segments PROVE LoopSound(j, t)'
  <2>1. CASE j = i /\ t = s
    BY <2>1 DEF Move
  <2>2. CASE j # i \/ t # s
    BY <2>2, OtherLoops DEF Move
  <2> QED BY <2>1, <2>2
<1>2. EpochsDiffer'
  <2> SUFFICES ASSUME NEW j \in Instances, NEW k \in Instances, NEW t \in Segments, j # k,
                      NEW e \in {lease'[j][t], opLease'[j][t]}, Knows(k, t, e)'
               PROVE  e = 0
    BY DEF EpochsDiffer
  <2>1. ASSUME NEW m \in Instances
        PROVE  /\ lease[m][t] \in Nat /\ opLease[m][t] \in Nat /\ lease'[m][t] \in Nat
               /\ opLease'[m][t] \in Nat
               /\ lease[m][t] <= rows[t].epoch /\ opLease[m][t] <= rows[t].epoch
    BY LoopTypes DEF TypeOK, ClaimsSound, LoopSound, LeaseBehind
  <2>2. rows[t].epoch \in Nat
    BY LoopTypes
  <2>3. ASSUME NEW m \in Instances, NEW n \in Instances, m # n, m = i /\ t = s,
               NEW x \in {lease'[m][t], opLease'[m][t]}, NEW y \in {lease'[n][t], opLease'[n][t]},
               x = y
        PROVE  x = 0
    <3>1. y = 0 \/ Knows(n, t, y)
      BY <2>3 DEF Move, OthersKept, Knows
    <3>2. x = 0 \/ x > rows[t].epoch \/ x \in {lease[m][t], opLease[m][t]}
      BY <2>3 DEF Move, EpochsFrom
    <3>3. y <= rows[t].epoch
      BY <3>1, <2>1, <2>2 DEF Knows
    <3>4. CASE x \in {lease[m][t], opLease[m][t]} /\ Knows(n, t, y)
      BY <2>3, <3>4 DEF ClaimsSound, EpochsDiffer
    <3> QED BY <2>1, <2>2, <2>3, <3>1, <3>2, <3>3, <3>4
  <2>4. CASE j = i /\ t = s
    BY <2>3, <2>4 DEF Knows
  <2>5. CASE k = i /\ t = s
    <3>1. e \in {lease'[k][t], opLease'[k][t]}
      BY DEF Knows
    <3> QED BY <2>3, <2>5, <3>1
  <2>6. CASE ~(j = i /\ t = s) /\ ~(k = i /\ t = s)
    <3>1. e = 0 \/ e \in {lease[j][t], opLease[j][t]}
      BY <2>6 DEF Move, OthersKept
    <3>2. e = 0 \/ Knows(k, t, e)
      BY <2>6 DEF Move, OthersKept, Knows
    <3> QED BY <3>1, <3>2 DEF ClaimsSound, EpochsDiffer
  <2> QED BY <2>4, <2>5, <2>6
<1>3. UnitsApart'
  <2>1. ASSUME NEW j \in Instances, NEW t \in Segments, j # i \/ t # s
        PROVE  /\ pc'[j][t] \in InCommit => pc[j][t] \in InCommit
               /\ pc'[j][t] \in InReset => pc[j][t] \in InReset
    BY <2>1 DEF Move, OthersKept, InCommit, InReset
  <2>2. /\ pc'[i][s] \in InCommit => pc[i][s] \in InCommit \/ MayCommit(s)
        /\ pc'[i][s] \in InReset => pc[i][s] \in InReset \/ MayReset
    BY DEF Move, UnitsFrom
  <2>3. ASSUME MayCommit(s), NEW j \in Instances, NEW t \in Segments
        PROVE  /\ pc[j][t] \notin InReset
               /\ Transactional /\ t = s => pc[j][t] \notin InCommit
    BY <2>3 DEF MayCommit, Resetting, Committing, InReset, InCommit
  <2>4. ASSUME MayReset, NEW j \in Instances, NEW t \in Segments
        PROVE  pc[j][t] \notin InReset \cup InCommit
    BY <2>4 DEF MayReset, Resetting, Committing, InReset, InCommit
  <2>5. UnitsApart
    BY DEF ClaimsSound
  <2>6. ASSUME NEW j \in Instances, NEW k \in Instances, NEW t \in Segments, NEW u \in Segments,
               pc'[j][t] \in InReset, pc'[k][u] \in InReset \cup InCommit
        PROVE  j = k /\ t = u
    <3>1. CASE j = i /\ t = s /\ pc[i][s] \notin InReset
      <4>1. MayReset
        BY <2>2, <2>6, <3>1
      <4> QED BY <2>1, <2>4, <2>6, <3>1, <4>1 DEF InReset, InCommit
    <3>2. CASE pc[j][t] \in InReset
      <4>1. CASE k = i /\ u = s /\ pc[i][s] \notin InReset \cup InCommit
        BY <2>2, <2>3, <2>4, <2>6, <3>2, <4>1
      <4>2. CASE pc[k][u] \in InReset \cup InCommit
        BY <2>5, <3>2, <4>2 DEF UnitsApart
      <4> QED BY <2>1, <2>6, <4>1, <4>2
    <3> QED BY <2>1, <2>6, <3>1, <3>2
  <2>7. ASSUME Transactional, NEW j \in Instances, NEW k \in Instances, NEW t \in Segments,
               pc'[j][t] \in InCommit, pc'[k][t] \in InCommit
        PROVE  j = k
    <3>1. CASE pc[j][t] \in InCommit /\ pc[k][t] \in InCommit
      BY <2>5, <2>7, <3>1 DEF UnitsApart
    <3>2. CASE pc[j][t] \notin InCommit
      BY <2>1, <2>2, <2>3, <2>7, <3>2
    <3>3. CASE pc[k][t] \notin InCommit
      BY <2>1, <2>2, <2>3, <2>7, <3>3
    <3> QED BY <3>1, <3>2, <3>3
  <2> QED BY <2>6, <2>7 DEF UnitsApart
<1> QED BY <1>1, <1>2, <1>3 DEF ClaimsSound, Move, RowsMove

\* What the changes of rows above take from the other loops.
LEMMA KeptMove ==
    ASSUME TypeOK, ClaimsSound, NEW i \in Instances, NEW s \in Segments, RowsKept
    PROVE  RowsMove(i, s)
BY DEF RowsKept, RowsMove, RowKept, ClaimsSound, RowSound

\* No transaction is open on a row that is not locked.
LEMMA Unlocked ==
    ASSUME NEW s \in Segments, ~RowLocked(s), NEW j \in Instances, Transactional
    PROVE  pc[j][s] \notin InCommit \cup InReset
BY DEF RowLocked, Committing, Resetting, InCommit, InReset

\* A claim takes the row from every other loop: the epoch it gives out is new.
LEMMA ClaimMove ==
    ASSUME TypeOK, ClaimsSound, NEW i \in Instances, NEW s \in Segments, ClaimGoes(i, s), ~RowLocked(s)
    PROVE  RowsMove(i, s)
<1>1. \A t \in Segments : RowSound(t) /\ rows[t].epoch \in Nat
  BY LoopTypes, StoreAssumption DEF ClaimsSound, TypeOK, StoreTypeOK, Row
<1>2. \A t \in Segments : RowSound(t)'
  BY <1>1 DEF ClaimGoes, RowSound, RowKept, Owned
<1>3. CASE Owned(i, s, lease[i][s])
  BY <1>2, <1>3 DEF RowsMove, ClaimGoes
<1>4. CASE ~Owned(i, s, lease[i][s])
  <2>1. rows'[s].epoch = rows[s].epoch + 1
    BY <1>4 DEF ClaimGoes
  <2>2. \A j \in Instances : /\ lease[j][s] \in Nat /\ opLease[j][s] \in Nat
                             /\ lease[j][s] <= rows[s].epoch /\ opLease[j][s] <= rows[s].epoch
    BY LoopTypes DEF ClaimsSound, LoopSound, LeaseBehind
  <2>3. Taken(i, s, s)
    BY <1>1, <2>1, <2>2, Unlocked DEF Taken
  <2> QED BY <1>2, <2>3 DEF RowsMove, ClaimGoes
<1> QED BY <1>3, <1>4

\* A released row is nobody's claim.
LEMMA DropMove ==
    ASSUME TypeOK, ClaimsSound, NEW i \in Instances, NEW s \in Segments, ClaimDropped(i, s),
           ~RowLocked(s) \/ RowKept(s)
    PROVE  RowsMove(i, s)
<1>1. \A t \in Segments : RowSound(t) /\ rows[t].epoch \in Nat
  BY LoopTypes, StoreAssumption DEF ClaimsSound, TypeOK, StoreTypeOK, Row
<1>2. \A t \in Segments : RowSound(t)'
  BY <1>1 DEF ClaimDropped, RowSound, RowKept
<1>3. CASE RowKept(s)
  BY <1>2, <1>3 DEF RowsMove, ClaimDropped
<1>4. CASE ~RowKept(s)
  <2>1. rows'[s].epoch = rows[s].epoch /\ rows'[s].owner = None
    BY <1>4 DEF ClaimDropped
  <2>2. \A j \in Instances : Owner[j] # None
    BY LoopTypes
  <2>3. Taken(i, s, s)
    BY <1>1, <1>4, <2>1, <2>2, Unlocked DEF Taken
  <2> QED BY <1>2, <2>3 DEF RowsMove, ClaimDropped
<1> QED BY <1>3, <1>4

\* A claim has one loop: who shares the Owner has another epoch.
LEMMA OneClaimant ==
    ASSUME TypeOK, ClaimsSound, NEW i \in Instances, NEW s \in Segments, NEW e \in Nat,
           Knows(i, s, e), Owned(i, s, e), NEW j \in Instances, j # i
    PROVE  ~Owned(j, s, lease[j][s]) /\ ~Owned(j, s, opLease[j][s])
<1>1. e > 0
  BY LoopTypes DEF ClaimsSound, RowSound, Owned
<1>2. ~Knows(j, s, e)
  BY <1>1 DEF ClaimsSound, EpochsDiffer, Knows
<1> QED BY <1>2 DEF Owned, Knows

\* A checkpoint moved under a claim is not behind any other loop's claim.
LEMMA MovedMove ==
    ASSUME TypeOK, ClaimsSound, NEW i \in Instances, NEW s \in Segments,
           Moved(i, s, opTo[i][s]), Owned(i, s, opLease[i][s]), pc[i][s] = "written"
    PROVE  RowsMove(i, s)
<1>1. \A t \in Segments : RowSound(t) /\ rows[t].epoch \in Nat
  BY LoopTypes DEF ClaimsSound
<1>2. \A t \in Segments : RowSound(t)'
  BY <1>1, LoopTypes DEF Moved, RowSound, RowKept
<1>3. opLease[i][s] \in Nat /\ Knows(i, s, opLease[i][s])
  BY LoopTypes DEF Knows
<1>4. ASSUME NEW j \in Instances, j # i
      PROVE  ~Owned(j, s, lease[j][s]) /\ ~Owned(j, s, opLease[j][s])
  BY <1>3, <1>4, OneClaimant
<1>5. ASSUME NEW j \in Instances, j # i, Transactional PROVE pc[j][s] \notin InCommit \cup InReset
  BY <1>5 DEF ClaimsSound, UnitsApart, InCommit, InReset
<1>6. Taken(i, s, s)
  BY <1>1, <1>4, <1>5 DEF Taken, Moved, Owned
<1> QED BY <1>2, <1>6 DEF RowsMove, Moved

\* A Reset runs alone, and leaves only its own claim.
LEMMA ResetMove ==
    ASSUME TypeOK, ClaimsSound, NEW i \in Instances, NEW s \in Segments,
           AllReset(i, s), Owned(i, s, opLease[i][s]), pc[i][s] = "wiped"
    PROVE  RowsMove(i, s)
<1>1. \A t \in Segments : RowSound(t) /\ rows[t].epoch \in Nat /\ MaxHead \in Nat
  BY LoopTypes DEF ClaimsSound
<1>2. \A t \in Segments : RowSound(t)'
  BY <1>1 DEF AllReset, RowSound
<1>3. opLease[i][s] \in Nat /\ Knows(i, s, opLease[i][s])
  BY LoopTypes DEF Knows
<1>4. ASSUME NEW j \in Instances, j # i
      PROVE  ~Owned(j, s, lease[j][s]) /\ ~Owned(j, s, opLease[j][s])
  BY <1>3, <1>4, OneClaimant
<1>5. ASSUME NEW j \in Instances, NEW t \in Segments, j # i \/ t # s
      PROVE pc[j][t] \notin InCommit \cup InReset
  BY <1>5 DEF ClaimsSound, UnitsApart, InCommit, InReset
<1>6. Taken(i, s, s)
  BY <1>1, <1>4, <1>5 DEF Taken, AllReset, Owned
<1>7. \A j \in Instances : Owner[j] # None
  BY LoopTypes
<1>8. ASSUME NEW t \in Segments, t # s PROVE Taken(i, s, t)
  BY <1>1, <1>5, <1>7, <1>8 DEF Taken, AllReset
<1> QED BY <1>2, <1>6, <1>8 DEF RowsMove, AllReset

-----------------------------------------------------------------------------
(***************************************************************************)
(* What each action does, loop by loop.                                      *)
(***************************************************************************)
LoopNats == [Instances -> [Segments -> Nat]]
LoopPositions == [Instances -> [Segments -> 0..MaxHead]]

\* Variables no invariant of the claims is about.
OtherTypes ==
    /\ requested \in Nat /\ served \in Nat /\ failed \in Nat
    /\ head \in 0..MaxHead
    /\ model \in [Events -> [n : 0..Many, by : Nat]]
    /\ up \in [Instances -> {"new", "up", "stopping", "down"}]
    /\ serving \in [Instances -> [Segments -> 0..MaxRequests]]
    /\ mem \in [Instances -> [Segments -> MemRecord]]
    /\ resetting \in [Instances -> BOOLEAN]
    /\ faults \in 0..MaxFaults

ClaimTypes ==
    /\ rows \in [Segments -> Row]
    /\ pc \in [Instances -> [Segments -> PCs]]
    /\ lease \in LoopNats /\ opLease \in LoopNats
    /\ cp \in LoopPositions /\ opTo \in LoopPositions /\ upTo \in LoopPositions

\* TypeOK in two parts.
LEMMA TypesSplit == TypeOK <=> OtherTypes /\ ClaimTypes
BY DEF TypeOK, StoreTypeOK, OtherTypes, ClaimTypes, LoopNats, LoopPositions, MemRecord

\* The same, for the next state.
LEMMA TypesSplitPrime == TypeOK' <=> OtherTypes' /\ ClaimTypes'
BY DEF TypeOK, StoreTypeOK, OtherTypes, ClaimTypes, LoopNats, LoopPositions, MemRecord

\* What the lemmas on the actions start from.
LEMMA ActFacts ==
    ASSUME TypeOK, ClaimsSound, NEW i \in Instances, NEW s \in Segments
    PROVE  /\ OtherTypes /\ ClaimTypes /\ \A t \in Segments : RowSound(t) /\ rows[t].pos \in 0..MaxHead
           /\ rows[s].epoch \in Nat /\ lease[i][s] \in Nat /\ cp[i][s] \in 0..MaxHead
           /\ opTo[i][s] \in 0..MaxHead
           /\ requested \in 0..MaxRequests
           /\ MaxHead \in Nat /\ MaxFaults \in Nat /\ MaxRequests \in Nat
<1>1. OtherTypes /\ ClaimTypes /\ \A t \in Segments : RowSound(t)
  BY TypesSplit DEF ClaimsSound
<1>2. \A t \in Segments : rows[t].pos \in 0..MaxHead
  BY <1>1, RowTypes
<1>3. requested \in 0..MaxRequests /\ MaxHead \in Nat /\ MaxFaults \in Nat /\ MaxRequests \in Nat
  BY <1>1, RunnerAssumption DEF ClaimsSound, OtherTypes
<1> QED BY <1>1, <1>2, <1>3, LoopTypes

LEMMA ClaimGrantedDoes ==
    ASSUME TypeOK, ClaimsSound, NEW i \in Instances, NEW s \in Segments, ClaimGranted(i, s)
    PROVE  /\ TypeOK'
           /\ pc[i][s] = "claim" /\ ~RowLocked(s)
           /\ ClaimGoes(i, s)
           /\ At(pc, pc', i, s, AfterClaim(i, s))
           /\ At(lease, lease', i, s, rows'[s].epoch)
           /\ At(cp, cp', i, s, rows[s].pos)
           /\ At(upTo, upTo', i, s, 0)
           /\ UNCHANGED <<opLease, opTo, requested, served, failed, head, model, up, serving, mem, resetting, faults>>
<1>0. /\ OtherTypes /\ ClaimTypes /\ \A t \in Segments : RowSound(t) /\ rows[t].pos \in 0..MaxHead
      /\ rows[s].epoch \in Nat /\ lease[i][s] \in Nat /\ cp[i][s] \in 0..MaxHead /\ opTo[i][s] \in 0..MaxHead
      /\ requested \in 0..MaxRequests /\ MaxHead \in Nat /\ MaxFaults \in Nat /\ MaxRequests \in Nat
  BY ActFacts
<1>1. (pc[i][s] = "claim" /\ ~RowLocked(s)) /\ UNCHANGED <<opLease, opTo, requested, served, failed, head, model, up, serving, mem, resetting, faults>>
  BY DEF ClaimGranted
<1>2. ClaimGoes(i, s) /\ rows' \in [Segments -> Row]
  BY ClaimedAt DEF ClaimsSound, ClaimGoes, ClaimGranted
<1>3. pc' \in [Instances -> [Segments -> PCs]] /\ At(pc, pc', i, s, AfterClaim(i, s))
  <2>1. Goto(i, s, AfterClaim(i, s)) /\ (AfterClaim(i, s)) \in PCs
    BY DEF ClaimGranted, PCs, AfterClaim
  <2> QED BY <2>1, GotoAt
<1>4. lease' \in LoopNats /\ At(lease, lease', i, s, rows'[s].epoch)
  <2>1. lease' = [lease EXCEPT ![i][s] = rows'[s].epoch] /\ (rows'[s].epoch) \in Nat
    BY <1>0, <1>2 DEF ClaimGranted, Row
  <2> QED BY <1>0, <2>1, SetAt DEF ClaimTypes, LoopNats
<1>5. cp' \in LoopPositions /\ At(cp, cp', i, s, rows[s].pos)
  <2>1. cp' = [cp EXCEPT ![i][s] = rows[s].pos] /\ (rows[s].pos) \in 0..MaxHead
    BY <1>0 DEF ClaimGranted, OtherTypes
  <2> QED BY <1>0, <2>1, SetAt DEF ClaimTypes, LoopPositions
<1>6. upTo' \in LoopPositions /\ At(upTo, upTo', i, s, 0)
  <2>1. upTo' = [upTo EXCEPT ![i][s] = 0] /\ (0) \in 0..MaxHead
    BY <1>0 DEF ClaimGranted, OtherTypes
  <2> QED BY <1>0, <2>1, SetAt DEF ClaimTypes, LoopPositions
<1>7. TypeOK'
  BY <1>0, <1>1, <1>2, <1>3, <1>4, <1>5, <1>6, TypesSplitPrime DEF OtherTypes, ClaimTypes
<1> QED BY <1>1, <1>2, <1>3, <1>4, <1>5, <1>6, <1>7

LEMMA ClaimRefusedDoes ==
    ASSUME TypeOK, ClaimsSound, NEW i \in Instances, NEW s \in Segments, ClaimRefused(i, s)
    PROVE  /\ TypeOK'
           /\ pc[i][s] = "claim"
           /\ \A j \in Instances, t \in Segments : mem'[j][t].pos = mem[j][t].pos
           /\ UNCHANGED <<rows, pc, lease, opLease, cp, opTo, upTo, requested, served, failed, head, model, up, serving, resetting, faults>>
<1>0. /\ OtherTypes /\ ClaimTypes /\ \A t \in Segments : RowSound(t) /\ rows[t].pos \in 0..MaxHead
      /\ rows[s].epoch \in Nat /\ lease[i][s] \in Nat /\ cp[i][s] \in 0..MaxHead /\ opTo[i][s] \in 0..MaxHead
      /\ requested \in 0..MaxRequests /\ MaxHead \in Nat /\ MaxFaults \in Nat /\ MaxRequests \in Nat
  BY ActFacts
<1>1. (pc[i][s] = "claim") /\ UNCHANGED <<rows, pc, lease, opLease, cp, opTo, upTo, requested, served, failed, head, model, up, serving, resetting, faults>>
  BY DEF ClaimRefused, storeVars
<1>2. mem' \in [Instances -> [Segments -> MemRecord]] /\ \A j \in Instances, t \in Segments : mem'[j][t].pos = mem[j][t].pos
  <2>1. Phase(i, s, FALSE)
    BY DEF ClaimRefused
  <2> QED BY <2>1, PhaseAt
<1>3. TypeOK'
  BY <1>0, <1>1, <1>2, TypesSplitPrime DEF OtherTypes, ClaimTypes
<1> QED BY <1>1, <1>2, <1>3

LEMMA ClaimFailsDoes ==
    ASSUME TypeOK, ClaimsSound, NEW i \in Instances, NEW s \in Segments, ClaimFails(i, s)
    PROVE  /\ TypeOK'
           /\ pc[i][s] = "claim" /\ Transactional /\ (~RowLocked(s) \/ UNCHANGED rows)
           /\ (ClaimGoes(i, s) \/ RowsKept)
           /\ \A j \in Instances, t \in Segments : mem'[j][t].pos = mem[j][t].pos
           /\ UNCHANGED <<pc, lease, opLease, cp, opTo, upTo, requested, served, failed, head, model, up, serving, resetting>>
<1>0. /\ OtherTypes /\ ClaimTypes /\ \A t \in Segments : RowSound(t) /\ rows[t].pos \in 0..MaxHead
      /\ rows[s].epoch \in Nat /\ lease[i][s] \in Nat /\ cp[i][s] \in 0..MaxHead /\ opTo[i][s] \in 0..MaxHead
      /\ requested \in 0..MaxRequests /\ MaxHead \in Nat /\ MaxFaults \in Nat /\ MaxRequests \in Nat
  BY ActFacts
<1>1. (pc[i][s] = "claim" /\ Transactional /\ (~RowLocked(s) \/ UNCHANGED rows)) /\ UNCHANGED <<pc, lease, opLease, cp, opTo, upTo, requested, served, failed, head, model, up, serving, resetting>>
  BY DEF ClaimFails
<1>2. (ClaimGoes(i, s) \/ RowsKept) /\ rows' \in [Segments -> Row]
  BY <1>0, ClaimedAt DEF ClaimsSound, ClaimGoes, RowsKept, RowKept, ClaimFails, ClaimTypes
<1>3. mem' \in [Instances -> [Segments -> MemRecord]] /\ \A j \in Instances, t \in Segments : mem'[j][t].pos = mem[j][t].pos
  <2>1. Phase(i, s, FALSE)
    BY DEF ClaimFails
  <2> QED BY <2>1, PhaseAt
<1>4. faults' \in 0..MaxFaults
  BY <1>0 DEF OtherTypes, Fault, ClaimFails
<1>5. TypeOK'
  BY <1>0, <1>1, <1>2, <1>3, <1>4, TypesSplitPrime DEF OtherTypes, ClaimTypes
<1> QED BY <1>1, <1>2, <1>3, <1>4, <1>5

LEMMA StepAsideDoes ==
    ASSUME TypeOK, ClaimsSound, NEW i \in Instances, NEW s \in Segments, StepAside(i, s)
    PROVE  /\ TypeOK'
           /\ pc[i][s] = "aside" /\ ~RowLocked(s)
           /\ ClaimDropped(i, s)
           /\ At(pc, pc', i, s, "claim")
           /\ \A j \in Instances, t \in Segments : mem'[j][t].pos = mem[j][t].pos
           /\ UNCHANGED <<lease, opLease, cp, opTo, upTo, requested, served, failed, head, model, up, serving, resetting, faults>>
<1>0. /\ OtherTypes /\ ClaimTypes /\ \A t \in Segments : RowSound(t) /\ rows[t].pos \in 0..MaxHead
      /\ rows[s].epoch \in Nat /\ lease[i][s] \in Nat /\ cp[i][s] \in 0..MaxHead /\ opTo[i][s] \in 0..MaxHead
      /\ requested \in 0..MaxRequests /\ MaxHead \in Nat /\ MaxFaults \in Nat /\ MaxRequests \in Nat
  BY ActFacts
<1>1. (pc[i][s] = "aside" /\ ~RowLocked(s)) /\ UNCHANGED <<lease, opLease, cp, opTo, upTo, requested, served, failed, head, model, up, serving, resetting, faults>>
  BY DEF StepAside, DropSegment
<1>2. ClaimDropped(i, s) /\ rows' \in [Segments -> Row]
  BY ReleasedAt DEF ClaimsSound, ClaimDropped, StepAside
<1>3. pc' \in [Instances -> [Segments -> PCs]] /\ At(pc, pc', i, s, "claim")
  <2>1. Goto(i, s, "claim") /\ ("claim") \in PCs
    BY DEF StepAside, DropSegment, PCs
  <2> QED BY <2>1, GotoAt
<1>4. mem' \in [Instances -> [Segments -> MemRecord]] /\ \A j \in Instances, t \in Segments : mem'[j][t].pos = mem[j][t].pos
  <2>1. Phase(i, s, FALSE)
    BY DEF StepAside, DropSegment
  <2> QED BY <2>1, PhaseAt
<1>5. TypeOK'
  BY <1>0, <1>1, <1>2, <1>3, <1>4, TypesSplitPrime DEF OtherTypes, ClaimTypes
<1> QED BY <1>1, <1>2, <1>3, <1>4, <1>5

LEMMA ShedDoes ==
    ASSUME TypeOK, ClaimsSound, NEW i \in Instances, NEW s \in Segments, Shed(i, s)
    PROVE  /\ TypeOK'
           /\ pc[i][s] \in {"claim", "work"} /\ ~RowLocked(s)
           /\ ClaimDropped(i, s)
           /\ At(pc, pc', i, s, "claim")
           /\ \A j \in Instances, t \in Segments : mem'[j][t].pos = mem[j][t].pos
           /\ UNCHANGED <<lease, opLease, cp, opTo, upTo, requested, served, failed, head, model, up, serving, resetting>>
<1>0. /\ OtherTypes /\ ClaimTypes /\ \A t \in Segments : RowSound(t) /\ rows[t].pos \in 0..MaxHead
      /\ rows[s].epoch \in Nat /\ lease[i][s] \in Nat /\ cp[i][s] \in 0..MaxHead /\ opTo[i][s] \in 0..MaxHead
      /\ requested \in 0..MaxRequests /\ MaxHead \in Nat /\ MaxFaults \in Nat /\ MaxRequests \in Nat
  BY ActFacts
<1>1. (pc[i][s] \in {"claim", "work"} /\ ~RowLocked(s)) /\ UNCHANGED <<lease, opLease, cp, opTo, upTo, requested, served, failed, head, model, up, serving, resetting>>
  BY DEF Shed, DropSegment
<1>2. ClaimDropped(i, s) /\ rows' \in [Segments -> Row]
  BY ReleasedAt DEF ClaimsSound, ClaimDropped, Shed
<1>3. pc' \in [Instances -> [Segments -> PCs]] /\ At(pc, pc', i, s, "claim")
  <2>1. Goto(i, s, "claim") /\ ("claim") \in PCs
    BY DEF Shed, DropSegment, PCs
  <2> QED BY <2>1, GotoAt
<1>4. mem' \in [Instances -> [Segments -> MemRecord]] /\ \A j \in Instances, t \in Segments : mem'[j][t].pos = mem[j][t].pos
  <2>1. Phase(i, s, FALSE)
    BY DEF Shed, DropSegment
  <2> QED BY <2>1, PhaseAt
<1>5. faults' \in 0..MaxFaults
  BY <1>0 DEF OtherTypes, Fault, Shed
<1>6. TypeOK'
  BY <1>0, <1>1, <1>2, <1>3, <1>4, <1>5, TypesSplitPrime DEF OtherTypes, ClaimTypes
<1> QED BY <1>1, <1>2, <1>3, <1>4, <1>5, <1>6

LEMMA StallDoes ==
    ASSUME TypeOK, ClaimsSound, NEW i \in Instances, NEW s \in Segments, Stall(i, s)
    PROVE  /\ TypeOK'
           /\ pc[i][s] = "stalled"
           /\ RowsKept
           /\ At(pc, pc', i, s, "claim")
           /\ \A j \in Instances, t \in Segments : mem'[j][t].pos = mem[j][t].pos
           /\ UNCHANGED <<lease, opLease, cp, opTo, upTo, requested, served, failed, head, model, up, serving, resetting, faults>>
<1>0. /\ OtherTypes /\ ClaimTypes /\ \A t \in Segments : RowSound(t) /\ rows[t].pos \in 0..MaxHead
      /\ rows[s].epoch \in Nat /\ lease[i][s] \in Nat /\ cp[i][s] \in 0..MaxHead /\ opTo[i][s] \in 0..MaxHead
      /\ requested \in 0..MaxRequests /\ MaxHead \in Nat /\ MaxFaults \in Nat /\ MaxRequests \in Nat
  BY ActFacts
<1>1. (pc[i][s] = "stalled") /\ UNCHANGED <<lease, opLease, cp, opTo, upTo, requested, served, failed, head, model, up, serving, resetting, faults>>
  BY DEF Stall
<1>2. RowsKept /\ rows' \in [Segments -> Row]
  BY RefreshedAt DEF RowsKept, Stall, Refreshed
<1>3. pc' \in [Instances -> [Segments -> PCs]] /\ At(pc, pc', i, s, "claim")
  <2>1. Goto(i, s, "claim") /\ ("claim") \in PCs
    BY DEF Stall, PCs
  <2> QED BY <2>1, GotoAt
<1>4. mem' \in [Instances -> [Segments -> MemRecord]] /\ \A j \in Instances, t \in Segments : mem'[j][t].pos = mem[j][t].pos
  <2>1. Phase(i, s, TRUE)
    BY DEF Stall
  <2> QED BY <2>1, PhaseAt
<1>5. TypeOK'
  BY <1>0, <1>1, <1>2, <1>3, <1>4, TypesSplitPrime DEF OtherTypes, ClaimTypes
<1> QED BY <1>1, <1>2, <1>3, <1>4, <1>5

LEMMA ExitDoes ==
    ASSUME TypeOK, ClaimsSound, NEW i \in Instances, NEW s \in Segments, Exit(i, s)
    PROVE  /\ TypeOK'
           /\ pc[i][s] \in {"claim", "work", "stalled"} /\ ~RowLocked(s)
           /\ ClaimDropped(i, s)
           /\ At(pc, pc', i, s, "off")
           /\ \A j \in Instances, t \in Segments : mem'[j][t].pos = mem[j][t].pos
           /\ UNCHANGED <<lease, opLease, cp, opTo, upTo, requested, served, failed, head, model, serving, resetting>>
<1>0. /\ OtherTypes /\ ClaimTypes /\ \A t \in Segments : RowSound(t) /\ rows[t].pos \in 0..MaxHead
      /\ rows[s].epoch \in Nat /\ lease[i][s] \in Nat /\ cp[i][s] \in 0..MaxHead /\ opTo[i][s] \in 0..MaxHead
      /\ requested \in 0..MaxRequests /\ MaxHead \in Nat /\ MaxFaults \in Nat /\ MaxRequests \in Nat
  BY ActFacts
<1>1. (pc[i][s] \in {"claim", "work", "stalled"} /\ ~RowLocked(s)) /\ UNCHANGED <<lease, opLease, cp, opTo, upTo, requested, served, failed, head, model, serving, resetting>>
  BY DEF Exit
<1>2. ClaimDropped(i, s) /\ rows' \in [Segments -> Row]
  BY ReleasedAt DEF ClaimsSound, ClaimDropped, Exit
<1>3. pc' \in [Instances -> [Segments -> PCs]] /\ At(pc, pc', i, s, "off")
  <2>1. Goto(i, s, "off") /\ ("off") \in PCs
    BY DEF Exit, PCs
  <2> QED BY <2>1, GotoAt
<1>4. mem' \in [Instances -> [Segments -> MemRecord]] /\ \A j \in Instances, t \in Segments : mem'[j][t].pos = mem[j][t].pos
  <2>1. Phase(i, s, FALSE)
    BY DEF Exit
  <2> QED BY <2>1, PhaseAt
<1>5. faults' \in 0..MaxFaults
  BY <1>0 DEF OtherTypes, Fault, Exit
<1>6. up' \in [Instances -> {"new", "up", "stopping", "down"}]
  BY <1>0 DEF OtherTypes, Exit
<1>7. TypeOK'
  BY <1>0, <1>1, <1>2, <1>3, <1>4, <1>5, <1>6, TypesSplitPrime DEF OtherTypes, ClaimTypes
<1> QED BY <1>1, <1>2, <1>3, <1>4, <1>5, <1>6, <1>7

LEMMA HandlerRunsDoes ==
    ASSUME TypeOK, ClaimsSound, NEW i \in Instances, NEW s \in Segments, HandlerRuns(i, s)
    PROVE  /\ TypeOK'
           /\ pc[i][s] = "commit"
           /\ At(pc, pc', i, s, "written")
           /\ model' = IF Transactional THEN model ELSE Handled(i, Own(s, cp[i][s], opTo[i][s]))
           /\ UNCHANGED <<rows, lease, opLease, cp, opTo, upTo, requested, served, failed, head, up, serving, mem, resetting, faults>>
<1>0. /\ OtherTypes /\ ClaimTypes /\ \A t \in Segments : RowSound(t) /\ rows[t].pos \in 0..MaxHead
      /\ rows[s].epoch \in Nat /\ lease[i][s] \in Nat /\ cp[i][s] \in 0..MaxHead /\ opTo[i][s] \in 0..MaxHead
      /\ requested \in 0..MaxRequests /\ MaxHead \in Nat /\ MaxFaults \in Nat /\ MaxRequests \in Nat
  BY ActFacts
<1>1. (pc[i][s] = "commit") /\ UNCHANGED <<rows, lease, opLease, cp, opTo, upTo, requested, served, failed, head, up, serving, mem, resetting, faults>>
  BY DEF HandlerRuns, storeVars
<1>2. pc' \in [Instances -> [Segments -> PCs]] /\ At(pc, pc', i, s, "written")
  <2>1. Goto(i, s, "written") /\ ("written") \in PCs
    BY DEF HandlerRuns, storeVars, PCs
  <2> QED BY <2>1, GotoAt
<1>3. model' \in [Events -> [n : 0..Many, by : Nat]] /\ model' = IF Transactional THEN model ELSE Handled(i, Own(s, cp[i][s], opTo[i][s]))
  BY HandledFacts, <1>0 DEF OtherTypes, Own, HandlerRuns
<1>4. TypeOK'
  BY <1>0, <1>1, <1>2, <1>3, TypesSplitPrime DEF OtherTypes, ClaimTypes
<1> QED BY <1>1, <1>2, <1>3, <1>4

LEMMA CommitFailsDoes ==
    ASSUME TypeOK, ClaimsSound, NEW i \in Instances, NEW s \in Segments, CommitFails(i, s)
    PROVE  /\ TypeOK'
           /\ pc[i][s] = "written" /\ Transactional
           /\ ((RowsKept /\ UNCHANGED model) \/ (Moved(i, s, opTo[i][s]) /\ model' = Handled(i, Own(s, cp[i][s], opTo[i][s]))))
           /\ At(pc, pc', i, s, "stalled")
           /\ UNCHANGED <<lease, opLease, cp, opTo, upTo, requested, served, failed, head, up, serving, mem, resetting>>
<1>0. /\ OtherTypes /\ ClaimTypes /\ \A t \in Segments : RowSound(t) /\ rows[t].pos \in 0..MaxHead
      /\ rows[s].epoch \in Nat /\ lease[i][s] \in Nat /\ cp[i][s] \in 0..MaxHead /\ opTo[i][s] \in 0..MaxHead
      /\ requested \in 0..MaxRequests /\ MaxHead \in Nat /\ MaxFaults \in Nat /\ MaxRequests \in Nat
  BY ActFacts
<1>1. (pc[i][s] = "written" /\ Transactional) /\ UNCHANGED <<lease, opLease, cp, opTo, upTo, requested, served, failed, head, up, serving, mem, resetting>>
  BY DEF CommitFails
<1>2. ((RowsKept /\ UNCHANGED model) \/ (Moved(i, s, opTo[i][s]) /\ model' = Handled(i, Own(s, cp[i][s], opTo[i][s])))) /\ rows' \in [Segments -> Row]
  <2>1. CASE UNCHANGED <<rows, model>>
    BY <2>1, <1>0 DEF RowsKept, RowKept, ClaimTypes
  <2>2. CASE /\ rows' = [rows EXCEPT ![s] = Committed(s, opTo[i][s], Version[i])]
             /\ model' = Handled(i, Own(s, cp[i][s], opTo[i][s]))
    <3>1. opTo[i][s] \in Nat /\ model' = Handled(i, Own(s, cp[i][s], opTo[i][s]))
      BY <2>2, <1>0 DEF CommitFails
    <3> QED BY <2>2, <3>1, CommittedAt DEF Moved
  <2> QED BY <2>1, <2>2 DEF CommitFails
<1>3. pc' \in [Instances -> [Segments -> PCs]] /\ At(pc, pc', i, s, "stalled")
  <2>1. Goto(i, s, "stalled") /\ ("stalled") \in PCs
    BY DEF CommitFails, PCs
  <2> QED BY <2>1, GotoAt
<1>4. model' \in [Events -> [n : 0..Many, by : Nat]]
  BY HandledFacts, <1>0 DEF OtherTypes, Own, CommitFails
<1>5. faults' \in 0..MaxFaults
  BY <1>0 DEF OtherTypes, Fault, CommitFails
<1>6. TypeOK'
  BY <1>0, <1>1, <1>2, <1>3, <1>4, <1>5, TypesSplitPrime DEF OtherTypes, ClaimTypes
<1> QED BY <1>1, <1>2, <1>3, <1>4, <1>5, <1>6

LEMMA SetStatusDoes ==
    ASSUME TypeOK, ClaimsSound, NEW i \in Instances, NEW s \in Segments, SetStatus(i, s)
    PROVE  /\ TypeOK'
           /\ pc[i][s] = "committed"
           /\ At(pc, pc', i, s, "work")
           /\ At(cp, cp', i, s, opTo[i][s])
           /\ At(upTo, upTo', i, s, IF upTo[i][s] = opTo[i][s] THEN 0 ELSE upTo[i][s])
           /\ mem' = IF lease[i][s] = opLease[i][s]
                     THEN [mem EXCEPT ![i][s] = [pos |-> opTo[i][s], owned |-> TRUE]] ELSE mem
           /\ UNCHANGED <<rows, lease, opLease, opTo, requested, served, failed, head, model, up, serving, resetting, faults>>
<1>0. /\ OtherTypes /\ ClaimTypes /\ \A t \in Segments : RowSound(t) /\ rows[t].pos \in 0..MaxHead
      /\ rows[s].epoch \in Nat /\ lease[i][s] \in Nat /\ cp[i][s] \in 0..MaxHead /\ opTo[i][s] \in 0..MaxHead
      /\ requested \in 0..MaxRequests /\ MaxHead \in Nat /\ MaxFaults \in Nat /\ MaxRequests \in Nat
  BY ActFacts
<1>1. (pc[i][s] = "committed") /\ UNCHANGED <<rows, lease, opLease, opTo, requested, served, failed, head, model, up, serving, resetting, faults>>
  BY DEF SetStatus, storeVars
<1>2. pc' \in [Instances -> [Segments -> PCs]] /\ At(pc, pc', i, s, "work")
  <2>1. Goto(i, s, "work") /\ ("work") \in PCs
    BY DEF SetStatus, storeVars, PCs
  <2> QED BY <2>1, GotoAt
<1>3. cp' \in LoopPositions /\ At(cp, cp', i, s, opTo[i][s])
  <2>1. cp' = [cp EXCEPT ![i][s] = opTo[i][s]] /\ (opTo[i][s]) \in 0..MaxHead
    BY <1>0 DEF SetStatus, storeVars, OtherTypes
  <2> QED BY <1>0, <2>1, SetAt DEF ClaimTypes, LoopPositions
<1>4. upTo' \in LoopPositions /\ At(upTo, upTo', i, s, IF upTo[i][s] = opTo[i][s] THEN 0 ELSE upTo[i][s])
  <2> DEFINE v == IF upTo[i][s] = opTo[i][s] THEN 0 ELSE upTo[i][s]
  <2>1. upTo \in [Instances -> [Segments -> 0..MaxHead]]
    BY <1>0 DEF ClaimTypes, LoopPositions
  <2>2. v \in 0..MaxHead
    BY <1>0, <2>1
  <2>3. upTo' = [upTo EXCEPT ![i][s] = v]
    BY <2>1 DEF SetStatus
  <2> HIDE DEF v
  <2>4. upTo' \in LoopPositions /\ At(upTo, upTo', i, s, v)
    BY <2>1, <2>2, <2>3, SetAt DEF LoopPositions
  <2> QED BY <2>4 DEF v
<1>5. mem' \in [Instances -> [Segments -> MemRecord]] /\ mem' = IF lease[i][s] = opLease[i][s]
                     THEN [mem EXCEPT ![i][s] = [pos |-> opTo[i][s], owned |-> TRUE]] ELSE mem
  BY <1>0, SetAt DEF OtherTypes, MemRecord, SetStatus
<1>6. TypeOK'
  BY <1>0, <1>1, <1>2, <1>3, <1>4, <1>5, TypesSplitPrime DEF OtherTypes, ClaimTypes
<1> QED BY <1>1, <1>2, <1>3, <1>4, <1>5, <1>6

LEMMA CommitBeginsDoes ==
    ASSUME TypeOK, ClaimsSound, NEW i \in Instances, NEW s \in Segments, CommitBegins(i, s)
    PROVE  /\ TypeOK'
           /\ pc[i][s] = "work" /\ MayCommit(s)
           /\ At(pc, pc', i, s, IF Owned(i, s, lease[i][s]) THEN "commit" ELSE "claim")
           /\ At(opLease, opLease', i, s, lease[i][s])
           /\ \A j \in Instances, t \in Segments : mem'[j][t].pos = mem[j][t].pos
           /\ opTo'[i][s] \in Events /\ Reads(i, s, opTo'[i][s])
           /\ At(opTo, opTo', i, s, opTo'[i][s])
           /\ UNCHANGED <<rows, lease, cp, upTo, requested, served, failed, head, model, up, serving, resetting, faults>>
<1>0. /\ OtherTypes /\ ClaimTypes /\ \A t \in Segments : RowSound(t) /\ rows[t].pos \in 0..MaxHead
      /\ rows[s].epoch \in Nat /\ lease[i][s] \in Nat /\ cp[i][s] \in 0..MaxHead /\ opTo[i][s] \in 0..MaxHead
      /\ requested \in 0..MaxRequests /\ MaxHead \in Nat /\ MaxFaults \in Nat /\ MaxRequests \in Nat
  BY ActFacts
<1>1. (pc[i][s] = "work" /\ MayCommit(s)) /\ UNCHANGED <<rows, lease, cp, upTo, requested, served, failed, head, model, up, serving, resetting, faults>>
  BY DEF CommitBegins, storeVars
<1>2. pc' \in [Instances -> [Segments -> PCs]] /\ At(pc, pc', i, s, IF Owned(i, s, lease[i][s]) THEN "commit" ELSE "claim")
  <2>1. Goto(i, s, IF Owned(i, s, lease[i][s]) THEN "commit" ELSE "claim") /\ (IF Owned(i, s, lease[i][s]) THEN "commit" ELSE "claim") \in PCs
    BY DEF CommitBegins, DropSegment, PCs
  <2> QED BY <2>1, GotoAt
<1>3. opLease' \in LoopNats /\ At(opLease, opLease', i, s, lease[i][s])
  <2>1. opLease' = [opLease EXCEPT ![i][s] = lease[i][s]] /\ (lease[i][s]) \in Nat
    BY <1>0 DEF CommitBegins, storeVars, OtherTypes
  <2> QED BY <1>0, <2>1, SetAt DEF ClaimTypes, LoopNats
<1>4. mem' \in [Instances -> [Segments -> MemRecord]] /\ \A j \in Instances, t \in Segments : mem'[j][t].pos = mem[j][t].pos
  <2>1. CASE UNCHANGED mem
    BY <2>1, <1>0 DEF OtherTypes
  <2>2. CASE Phase(i, s, FALSE)
    BY <2>2, PhaseAt
  <2> QED BY <2>1, <2>2 DEF CommitBegins, DropSegment
<1>5. /\ opTo' \in LoopPositions /\ At(opTo, opTo', i, s, opTo'[i][s])
      /\ opTo'[i][s] \in Events /\ Reads(i, s, opTo'[i][s])
  <2>1. PICK to \in Events : Reads(i, s, to) /\ opTo' = [opTo EXCEPT ![i][s] = to]
    BY DEF CommitBegins
  <2>2. to \in 0..MaxHead
    BY <1>0 DEF Events
  <2>3. opTo' \in LoopPositions /\ At(opTo, opTo', i, s, to)
    BY <1>0, <2>1, <2>2, SetAt DEF ClaimTypes, LoopPositions
  <2>4. opTo'[i][s] = to
    BY <2>3 DEF At
  <2> QED BY <2>1, <2>3, <2>4
<1>6. TypeOK'
  BY <1>0, <1>1, <1>2, <1>3, <1>4, <1>5, TypesSplitPrime DEF OtherTypes, ClaimTypes
<1> QED BY <1>1, <1>2, <1>3, <1>4, <1>5, <1>6

LEMMA HandlerFailsDoes ==
    ASSUME TypeOK, ClaimsSound, NEW i \in Instances, NEW s \in Segments, HandlerFails(i, s)
    PROVE  /\ TypeOK'
           /\ pc[i][s] = "commit"
           /\ At(pc, pc', i, s, IF upTo[i][s] = 0 THEN "work" ELSE "stalled")
           /\ At(upTo, upTo', i, s, IF upTo[i][s] = 0 THEN opTo[i][s] ELSE upTo[i][s])
           /\ \E ps \in SUBSET Events : model' = IF Transactional THEN model ELSE Handled(i, ps)
           /\ UNCHANGED <<rows, lease, opLease, cp, opTo, requested, served, failed, head, up, serving, mem, resetting>>
<1>0. /\ OtherTypes /\ ClaimTypes /\ \A t \in Segments : RowSound(t) /\ rows[t].pos \in 0..MaxHead
      /\ rows[s].epoch \in Nat /\ lease[i][s] \in Nat /\ cp[i][s] \in 0..MaxHead /\ opTo[i][s] \in 0..MaxHead
      /\ requested \in 0..MaxRequests /\ MaxHead \in Nat /\ MaxFaults \in Nat /\ MaxRequests \in Nat
  BY ActFacts
<1>1. (pc[i][s] = "commit") /\ UNCHANGED <<rows, lease, opLease, cp, opTo, requested, served, failed, head, up, serving, mem, resetting>>
  BY DEF HandlerFails, storeVars
<1>2. pc' \in [Instances -> [Segments -> PCs]] /\ At(pc, pc', i, s, IF upTo[i][s] = 0 THEN "work" ELSE "stalled")
  <2>1. Goto(i, s, IF upTo[i][s] = 0 THEN "work" ELSE "stalled") /\ (IF upTo[i][s] = 0 THEN "work" ELSE "stalled") \in PCs
    BY DEF HandlerFails, storeVars, PCs
  <2> QED BY <2>1, GotoAt
<1>3. upTo' \in LoopPositions /\ At(upTo, upTo', i, s, IF upTo[i][s] = 0 THEN opTo[i][s] ELSE upTo[i][s])
  <2>1. upTo' = [upTo EXCEPT ![i][s] = IF upTo[i][s] = 0 THEN opTo[i][s] ELSE upTo[i][s]] /\ (IF upTo[i][s] = 0 THEN opTo[i][s] ELSE upTo[i][s]) \in 0..MaxHead
    <3>1. upTo \in [Instances -> [Segments -> 0..MaxHead]]
      BY <1>0 DEF ClaimTypes, LoopPositions
    <3>2. CASE upTo[i][s] = 0
      BY <1>0, <3>2 DEF HandlerFails
    <3>3. CASE upTo[i][s] # 0
      BY <3>1, <3>3 DEF HandlerFails
    <3> QED BY <3>2, <3>3
  <2> QED BY <1>0, <2>1, SetAt DEF ClaimTypes, LoopPositions
<1>4. model' \in [Events -> [n : 0..Many, by : Nat]] /\ \E ps \in SUBSET Events : model' = IF Transactional THEN model ELSE Handled(i, ps)
  <2>1. PICK p \in Own(s, cp[i][s], opTo[i][s]) :
             model' = IF Transactional THEN model ELSE Handled(i, Own(s, cp[i][s], p - 1))
    BY DEF HandlerFails
  <2>2. Own(s, cp[i][s], p - 1) \in SUBSET Events
    BY DEF Own
  <2>3. Handled(i, Own(s, cp[i][s], p - 1)) \in [Events -> [n : 0..Many, by : Nat]]
    BY <2>2, HandledFacts
  <2> QED BY <1>0, <2>1, <2>2, <2>3 DEF OtherTypes
<1>5. faults' \in 0..MaxFaults
  BY <1>0 DEF OtherTypes, Fault, HandlerFails
<1>6. TypeOK'
  BY <1>0, <1>1, <1>2, <1>3, <1>4, <1>5, TypesSplitPrime DEF OtherTypes, ClaimTypes
<1> QED BY <1>1, <1>2, <1>3, <1>4, <1>5, <1>6

LEMMA CommitEndsDoes ==
    ASSUME TypeOK, ClaimsSound, NEW i \in Instances, NEW s \in Segments, CommitEnds(i, s)
    PROVE  /\ TypeOK'
           /\ pc[i][s] = "written"
           /\ (IF Owned(i, s, opLease[i][s]) THEN Moved(i, s, opTo[i][s]) ELSE UNCHANGED rows)
           /\ At(pc, pc', i, s, IF Owned(i, s, opLease[i][s]) THEN "committed" ELSE "claim")
           /\ model' = IF Owned(i, s, opLease[i][s]) /\ Transactional
                       THEN Handled(i, Own(s, cp[i][s], opTo[i][s])) ELSE model
           /\ \A j \in Instances, t \in Segments : mem'[j][t].pos = mem[j][t].pos
           /\ UNCHANGED <<lease, opLease, cp, opTo, upTo, requested, served, failed, head, up, serving, resetting, faults>>
<1>0. /\ OtherTypes /\ ClaimTypes /\ \A t \in Segments : RowSound(t) /\ rows[t].pos \in 0..MaxHead
      /\ rows[s].epoch \in Nat /\ lease[i][s] \in Nat /\ cp[i][s] \in 0..MaxHead /\ opTo[i][s] \in 0..MaxHead
      /\ requested \in 0..MaxRequests /\ MaxHead \in Nat /\ MaxFaults \in Nat /\ MaxRequests \in Nat
  BY ActFacts
<1>1. (pc[i][s] = "written") /\ UNCHANGED <<lease, opLease, cp, opTo, upTo, requested, served, failed, head, up, serving, resetting, faults>>
  BY DEF CommitEnds
<1>2. (IF Owned(i, s, opLease[i][s]) THEN Moved(i, s, opTo[i][s]) ELSE UNCHANGED rows) /\ rows' \in [Segments -> Row]
  <2>1. CASE Owned(i, s, opLease[i][s])
    <3>1. opTo[i][s] \in Nat /\ rows' = [rows EXCEPT ![s] = Committed(s, opTo[i][s], Version[i])]
      BY <2>1, <1>0 DEF CommitEnds
    <3> QED BY <2>1, <3>1, CommittedAt DEF Moved
  <2>2. CASE ~Owned(i, s, opLease[i][s])
    BY <2>2, <1>0 DEF CommitEnds, ClaimTypes
  <2> QED BY <2>1, <2>2
<1>3. pc' \in [Instances -> [Segments -> PCs]] /\ At(pc, pc', i, s, IF Owned(i, s, opLease[i][s]) THEN "committed" ELSE "claim")
  <2>1. Goto(i, s, IF Owned(i, s, opLease[i][s]) THEN "committed" ELSE "claim") /\ (IF Owned(i, s, opLease[i][s]) THEN "committed" ELSE "claim") \in PCs
    BY DEF CommitEnds, DropSegment, PCs
  <2> QED BY <2>1, GotoAt
<1>4. model' \in [Events -> [n : 0..Many, by : Nat]] /\ model' = IF Owned(i, s, opLease[i][s]) /\ Transactional
                       THEN Handled(i, Own(s, cp[i][s], opTo[i][s])) ELSE model
  <2>1. Own(s, cp[i][s], opTo[i][s]) \in SUBSET Events
    BY DEF Own
  <2>2. Handled(i, Own(s, cp[i][s], opTo[i][s])) \in [Events -> [n : 0..Many, by : Nat]]
    BY <2>1, HandledFacts
  <2>3. CASE Owned(i, s, opLease[i][s])
    BY <1>0, <2>2, <2>3 DEF OtherTypes, CommitEnds
  <2>4. CASE ~Owned(i, s, opLease[i][s])
    BY <1>0, <2>4 DEF OtherTypes, CommitEnds
  <2> QED BY <2>3, <2>4
<1>5. mem' \in [Instances -> [Segments -> MemRecord]] /\ \A j \in Instances, t \in Segments : mem'[j][t].pos = mem[j][t].pos
  <2>1. CASE UNCHANGED mem
    BY <2>1, <1>0 DEF OtherTypes
  <2>2. CASE Phase(i, s, FALSE)
    BY <2>2, PhaseAt
  <2> QED BY <2>1, <2>2 DEF CommitEnds, DropSegment
<1>6. TypeOK'
  BY <1>0, <1>1, <1>2, <1>3, <1>4, <1>5, TypesSplitPrime DEF OtherTypes, ClaimTypes
<1> QED BY <1>1, <1>2, <1>3, <1>4, <1>5, <1>6

LEMMA PublishDoes ==
    ASSUME TypeOK, ClaimsSound, NEW i \in Instances, NEW s \in Segments, Publish(i, s)
    PROVE  /\ TypeOK'
           /\ pc[i][s] = "work" /\ upTo[i][s] = 0
           /\ RowsKept
           /\ At(pc, pc', i, s, pc'[i][s])
           /\ pc'[i][s] \in {"committed", "claim"}
           /\ pc'[i][s] = "committed" => Transactional \/ Owned(i, s, lease[i][s])
           /\ At(opLease, opLease', i, s, lease[i][s])
           /\ At(opTo, opTo', i, s, cp[i][s])
           /\ \A j \in Instances, t \in Segments : mem'[j][t].pos = mem[j][t].pos
           /\ UNCHANGED <<lease, cp, upTo, requested, served, failed, head, model, up, serving, resetting>>
<1>0. /\ OtherTypes /\ ClaimTypes /\ \A t \in Segments : RowSound(t) /\ rows[t].pos \in 0..MaxHead
      /\ rows[s].epoch \in Nat /\ lease[i][s] \in Nat /\ cp[i][s] \in 0..MaxHead /\ opTo[i][s] \in 0..MaxHead
      /\ requested \in 0..MaxRequests /\ MaxHead \in Nat /\ MaxFaults \in Nat /\ MaxRequests \in Nat
  BY ActFacts
<1>1. (pc[i][s] = "work" /\ upTo[i][s] = 0) /\ UNCHANGED <<lease, cp, upTo, requested, served, failed, head, model, up, serving, resetting>>
  BY DEF Publish
<1>2. RowsKept /\ rows' \in [Segments -> Row]
  <2>1. \/ rows' = [rows EXCEPT ![s].fresh = TRUE]
        \/ rows' = rows
    BY DEF Publish, Refreshed
  <2> QED BY <2>1, RefreshedAt DEF RowsKept
<1>3. /\ pc' \in [Instances -> [Segments -> PCs]] /\ At(pc, pc', i, s, pc'[i][s])
      /\ pc'[i][s] \in {"committed", "claim"}
      /\ pc'[i][s] = "committed" => Transactional \/ Owned(i, s, lease[i][s])
  <2>1. PICK w \in {"committed", "claim"} :
           Goto(i, s, w) /\ (w = "committed" => Transactional \/ Owned(i, s, lease[i][s]))
    BY DEF Publish, DropSegment
  <2>2. pc' \in [Instances -> [Segments -> PCs]] /\ At(pc, pc', i, s, w)
    BY <2>1, GotoAt DEF PCs
  <2>3. w = pc'[i][s]
    BY <2>2 DEF At
  <2> QED BY <2>1, <2>2, <2>3
<1>4. opLease' \in LoopNats /\ At(opLease, opLease', i, s, lease[i][s])
  <2>1. opLease' = [opLease EXCEPT ![i][s] = lease[i][s]] /\ (lease[i][s]) \in Nat
    BY <1>0 DEF Publish, OtherTypes
  <2> QED BY <1>0, <2>1, SetAt DEF ClaimTypes, LoopNats
<1>5. opTo' \in LoopPositions /\ At(opTo, opTo', i, s, cp[i][s])
  <2>1. opTo' = [opTo EXCEPT ![i][s] = cp[i][s]] /\ (cp[i][s]) \in 0..MaxHead
    BY <1>0 DEF Publish, OtherTypes
  <2> QED BY <1>0, <2>1, SetAt DEF ClaimTypes, LoopPositions
<1>6. mem' \in [Instances -> [Segments -> MemRecord]] /\ \A j \in Instances, t \in Segments : mem'[j][t].pos = mem[j][t].pos
  <2>1. CASE UNCHANGED mem
    BY <2>1, <1>0 DEF OtherTypes
  <2>2. CASE Phase(i, s, FALSE)
    BY <2>2, PhaseAt
  <2> QED BY <2>1, <2>2 DEF Publish, DropSegment
<1>7. faults' \in 0..MaxFaults
  BY <1>0 DEF OtherTypes, Fault, Publish
<1>8. TypeOK'
  BY <1>0, <1>1, <1>2, <1>3, <1>4, <1>5, <1>6, <1>7, TypesSplitPrime DEF OtherTypes, ClaimTypes
<1> QED BY <1>1, <1>2, <1>3, <1>4, <1>5, <1>6, <1>7, <1>8

LEMMA RebuildUpgradeDoes ==
    ASSUME TypeOK, ClaimsSound, NEW i \in Instances, NEW s \in Segments, RebuildUpgrade(i, s)
    PROVE  /\ TypeOK'
           /\ pc[i][s] = "upgrade"
           /\ At(pc, pc', i, s, "lockwait")
           /\ At(opLease, opLease', i, s, lease[i][s])
           /\ resetting' = [resetting EXCEPT ![i] = TRUE]
           /\ UNCHANGED <<rows, lease, cp, opTo, upTo, requested, served, failed, head, model, up, mem, faults>>
<1>0. /\ OtherTypes /\ ClaimTypes /\ \A t \in Segments : RowSound(t) /\ rows[t].pos \in 0..MaxHead
      /\ rows[s].epoch \in Nat /\ lease[i][s] \in Nat /\ cp[i][s] \in 0..MaxHead /\ opTo[i][s] \in 0..MaxHead
      /\ requested \in 0..MaxRequests /\ MaxHead \in Nat /\ MaxFaults \in Nat /\ MaxRequests \in Nat
  BY ActFacts
<1>1. (pc[i][s] = "upgrade") /\ UNCHANGED <<rows, lease, cp, opTo, upTo, requested, served, failed, head, model, up, mem, faults>>
  BY DEF RebuildUpgrade, Rebuild, storeVars
<1>2. pc' \in [Instances -> [Segments -> PCs]] /\ At(pc, pc', i, s, "lockwait")
  <2>1. Goto(i, s, "lockwait") /\ ("lockwait") \in PCs
    BY DEF RebuildUpgrade, Rebuild, storeVars, PCs
  <2> QED BY <2>1, GotoAt
<1>3. opLease' \in LoopNats /\ At(opLease, opLease', i, s, lease[i][s])
  <2>1. opLease' = [opLease EXCEPT ![i][s] = lease[i][s]] /\ (lease[i][s]) \in Nat
    BY <1>0 DEF RebuildUpgrade, Rebuild, storeVars, OtherTypes
  <2> QED BY <1>0, <2>1, SetAt DEF ClaimTypes, LoopNats
<1>4. serving' \in [Instances -> [Segments -> 0..MaxRequests]]
  <2>1. serving' = [serving EXCEPT ![i][s] = 0] /\ 0 \in 0..MaxRequests
    BY <1>0 DEF RebuildUpgrade, Rebuild
  <2> QED BY <1>0, <2>1, SetAt DEF OtherTypes
<1>5. resetting' \in [Instances -> BOOLEAN] /\ resetting' = [resetting EXCEPT ![i] = TRUE]
  BY <1>0 DEF OtherTypes, RebuildUpgrade, Rebuild
<1>6. TypeOK'
  BY <1>0, <1>1, <1>2, <1>3, <1>4, <1>5, TypesSplitPrime DEF OtherTypes, ClaimTypes
<1> QED BY <1>1, <1>2, <1>3, <1>4, <1>5, <1>6

LEMMA RebuildDueDoes ==
    ASSUME TypeOK, ClaimsSound, NEW i \in Instances, NEW s \in Segments, s = 0,
           RebuildDue(i)
    PROVE  /\ TypeOK'
           /\ s = 0 /\ pc[i][s] = "work" /\ requested > served
           /\ At(pc, pc', i, s, "lockwait")
           /\ At(opLease, opLease', i, s, lease[i][s])
           /\ resetting' = [resetting EXCEPT ![i] = TRUE]
           /\ UNCHANGED <<rows, lease, cp, opTo, upTo, requested, served, failed, head, model, up, mem, faults>>
<1>0. /\ OtherTypes /\ ClaimTypes /\ \A t \in Segments : RowSound(t) /\ rows[t].pos \in 0..MaxHead
      /\ rows[s].epoch \in Nat /\ lease[i][s] \in Nat /\ cp[i][s] \in 0..MaxHead /\ opTo[i][s] \in 0..MaxHead
      /\ requested \in 0..MaxRequests /\ MaxHead \in Nat /\ MaxFaults \in Nat /\ MaxRequests \in Nat
  BY ActFacts
<1>1. (s = 0 /\ pc[i][s] = "work" /\ requested > served) /\ UNCHANGED <<rows, lease, cp, opTo, upTo, requested, served, failed, head, model, up, mem, faults>>
  BY DEF RebuildDue, RebuildOpen, Rebuild, storeVars
<1>2. pc' \in [Instances -> [Segments -> PCs]] /\ At(pc, pc', i, s, "lockwait")
  <2>1. Goto(i, s, "lockwait") /\ ("lockwait") \in PCs
    BY DEF RebuildDue, RebuildOpen, Rebuild, storeVars, PCs
  <2> QED BY <2>1, GotoAt
<1>3. opLease' \in LoopNats /\ At(opLease, opLease', i, s, lease[i][s])
  <2>1. opLease' = [opLease EXCEPT ![i][s] = lease[i][s]] /\ (lease[i][s]) \in Nat
    BY <1>0 DEF RebuildDue, Rebuild, storeVars, OtherTypes
  <2> QED BY <1>0, <2>1, SetAt DEF ClaimTypes, LoopNats
<1>4. serving' \in [Instances -> [Segments -> 0..MaxRequests]]
  <2>1. serving' = [serving EXCEPT ![i][s] = requested] /\ requested \in 0..MaxRequests
    BY <1>0 DEF RebuildDue, Rebuild
  <2> QED BY <1>0, <2>1, SetAt DEF OtherTypes
<1>5. resetting' \in [Instances -> BOOLEAN] /\ resetting' = [resetting EXCEPT ![i] = TRUE]
  BY <1>0 DEF OtherTypes, RebuildDue, Rebuild
<1>6. TypeOK'
  BY <1>0, <1>1, <1>2, <1>3, <1>4, <1>5, TypesSplitPrime DEF OtherTypes, ClaimTypes
<1> QED BY <1>1, <1>2, <1>3, <1>4, <1>5, <1>6

LEMMA ResetBeginsDoes ==
    ASSUME TypeOK, ClaimsSound, NEW i \in Instances, NEW s \in Segments, ResetBegins(i, s)
    PROVE  /\ TypeOK'
           /\ pc[i][s] = "lockwait" /\ MayReset
           /\ At(pc, pc', i, s, IF Owned(i, s, opLease[i][s]) THEN "wiping" ELSE "claim")
           /\ \A j \in Instances, t \in Segments : mem'[j][t].pos = mem[j][t].pos
           /\ resetting' = IF Owned(i, s, opLease[i][s]) THEN resetting
                           ELSE [resetting EXCEPT ![i] = FALSE]
           /\ UNCHANGED <<rows, lease, opLease, cp, opTo, upTo, requested, served, failed, head, model, up, serving, faults>>
<1>0. /\ OtherTypes /\ ClaimTypes /\ \A t \in Segments : RowSound(t) /\ rows[t].pos \in 0..MaxHead
      /\ rows[s].epoch \in Nat /\ lease[i][s] \in Nat /\ cp[i][s] \in 0..MaxHead /\ opTo[i][s] \in 0..MaxHead
      /\ requested \in 0..MaxRequests /\ MaxHead \in Nat /\ MaxFaults \in Nat /\ MaxRequests \in Nat
  BY ActFacts
<1>1. (pc[i][s] = "lockwait" /\ MayReset) /\ UNCHANGED <<rows, lease, opLease, cp, opTo, upTo, requested, served, failed, head, model, up, serving, faults>>
  BY DEF ResetBegins, storeVars
<1>2. pc' \in [Instances -> [Segments -> PCs]] /\ At(pc, pc', i, s, IF Owned(i, s, opLease[i][s]) THEN "wiping" ELSE "claim")
  <2>1. Goto(i, s, IF Owned(i, s, opLease[i][s]) THEN "wiping" ELSE "claim") /\ (IF Owned(i, s, opLease[i][s]) THEN "wiping" ELSE "claim") \in PCs
    BY DEF ResetBegins, RebuildLost, DropSegment, PCs
  <2> QED BY <2>1, GotoAt
<1>3. mem' \in [Instances -> [Segments -> MemRecord]] /\ \A j \in Instances, t \in Segments : mem'[j][t].pos = mem[j][t].pos
  <2>1. CASE UNCHANGED mem
    BY <2>1, <1>0 DEF OtherTypes
  <2>2. CASE Phase(i, s, FALSE)
    BY <2>2, PhaseAt
  <2> QED BY <2>1, <2>2 DEF ResetBegins, RebuildLost, DropSegment
<1>4. resetting' \in [Instances -> BOOLEAN] /\ resetting' = IF Owned(i, s, opLease[i][s]) THEN resetting
                           ELSE [resetting EXCEPT ![i] = FALSE]
  BY <1>0 DEF OtherTypes, ResetBegins, RebuildLost
<1>5. TypeOK'
  BY <1>0, <1>1, <1>2, <1>3, <1>4, TypesSplitPrime DEF OtherTypes, ClaimTypes
<1> QED BY <1>1, <1>2, <1>3, <1>4, <1>5

\* An empty read model.
LEMMA EmptyFacts ==
    /\ Empty \in [Events -> [n : 0..Many, by : Nat]]
    /\ \A p \in Events : Empty[p].n = 0
BY DEF Empty, Many

LEMMA WipeDoes ==
    ASSUME TypeOK, ClaimsSound, NEW i \in Instances, NEW s \in Segments, Wipe(i, s)
    PROVE  /\ TypeOK'
           /\ pc[i][s] = "wiping"
           /\ At(pc, pc', i, s, "wiped")
           /\ model' = IF Transactional THEN model ELSE Empty
           /\ UNCHANGED <<rows, lease, opLease, cp, opTo, upTo, requested, served, failed, head, up, serving, mem, resetting, faults>>
<1>0. /\ OtherTypes /\ ClaimTypes /\ \A t \in Segments : RowSound(t) /\ rows[t].pos \in 0..MaxHead
      /\ rows[s].epoch \in Nat /\ lease[i][s] \in Nat /\ cp[i][s] \in 0..MaxHead /\ opTo[i][s] \in 0..MaxHead
      /\ requested \in 0..MaxRequests /\ MaxHead \in Nat /\ MaxFaults \in Nat /\ MaxRequests \in Nat
  BY ActFacts
<1>1. (pc[i][s] = "wiping") /\ UNCHANGED <<rows, lease, opLease, cp, opTo, upTo, requested, served, failed, head, up, serving, mem, resetting, faults>>
  BY DEF Wipe, storeVars
<1>2. pc' \in [Instances -> [Segments -> PCs]] /\ At(pc, pc', i, s, "wiped")
  <2>1. Goto(i, s, "wiped") /\ ("wiped") \in PCs
    BY DEF Wipe, storeVars, PCs
  <2> QED BY <2>1, GotoAt
<1>3. model' \in [Events -> [n : 0..Many, by : Nat]] /\ model' = IF Transactional THEN model ELSE Empty
  BY <1>0, EmptyFacts DEF OtherTypes, Wipe
<1>4. TypeOK'
  BY <1>0, <1>1, <1>2, <1>3, TypesSplitPrime DEF OtherTypes, ClaimTypes
<1> QED BY <1>1, <1>2, <1>3, <1>4

LEMMA WipeFailsDoes ==
    ASSUME TypeOK, ClaimsSound, NEW i \in Instances, NEW s \in Segments, WipeFails(i, s)
    PROVE  /\ TypeOK'
           /\ pc[i][s] = "wiping"
           /\ At(pc, pc', i, s, "stalled")
           /\ model' \in IF Transactional THEN {model} ELSE {model, Empty}
           /\ resetting' = [resetting EXCEPT ![i] = FALSE]
           /\ UNCHANGED <<rows, lease, opLease, cp, opTo, upTo, requested, served, head, up, serving, mem>>
<1>0. /\ OtherTypes /\ ClaimTypes /\ \A t \in Segments : RowSound(t) /\ rows[t].pos \in 0..MaxHead
      /\ rows[s].epoch \in Nat /\ lease[i][s] \in Nat /\ cp[i][s] \in 0..MaxHead /\ opTo[i][s] \in 0..MaxHead
      /\ requested \in 0..MaxRequests /\ MaxHead \in Nat /\ MaxFaults \in Nat /\ MaxRequests \in Nat
  BY ActFacts
<1>1. (pc[i][s] = "wiping") /\ UNCHANGED <<rows, lease, opLease, cp, opTo, upTo, requested, served, head, up, serving, mem>>
  BY DEF WipeFails
<1>2. pc' \in [Instances -> [Segments -> PCs]] /\ At(pc, pc', i, s, "stalled")
  <2>1. Goto(i, s, "stalled") /\ ("stalled") \in PCs
    BY DEF WipeFails, PCs
  <2> QED BY <2>1, GotoAt
<1>3. model' \in [Events -> [n : 0..Many, by : Nat]] /\ model' \in IF Transactional THEN {model} ELSE {model, Empty}
  BY <1>0, EmptyFacts DEF OtherTypes, WipeFails
<1>4. failed' \in Nat
  <2>1. serving[i][s] \in Nat /\ failed \in Nat
    BY <1>0 DEF OtherTypes
  <2> QED BY <2>1 DEF WipeFails, FailedAfter
<1>5. resetting' \in [Instances -> BOOLEAN] /\ resetting' = [resetting EXCEPT ![i] = FALSE]
  BY <1>0 DEF OtherTypes, WipeFails
<1>6. faults' \in 0..MaxFaults
  BY <1>0 DEF OtherTypes, Fault, WipeFails
<1>7. TypeOK'
  BY <1>0, <1>1, <1>2, <1>3, <1>4, <1>5, <1>6, TypesSplitPrime DEF OtherTypes, ClaimTypes
<1> QED BY <1>1, <1>2, <1>3, <1>4, <1>5, <1>6, <1>7

LEMMA ResetEndsDoes ==
    ASSUME TypeOK, ClaimsSound, NEW i \in Instances, NEW s \in Segments, ResetEnds(i, s)
    PROVE  /\ TypeOK'
           /\ pc[i][s] = "wiped"
           /\ (IF Owned(i, s, opLease[i][s]) THEN AllReset(i, s) ELSE UNCHANGED rows)
           /\ At(pc, pc', i, s, IF Owned(i, s, opLease[i][s]) THEN "reset" ELSE "claim")
           /\ served' = IF Owned(i, s, opLease[i][s]) THEN requested ELSE served
           /\ model' = IF Owned(i, s, opLease[i][s]) /\ Transactional THEN Empty ELSE model
           /\ \A j \in Instances, t \in Segments : mem'[j][t].pos = mem[j][t].pos
           /\ resetting' = IF Owned(i, s, opLease[i][s]) THEN resetting
                           ELSE [resetting EXCEPT ![i] = FALSE]
           /\ UNCHANGED <<lease, opLease, cp, opTo, upTo, requested, failed, head, up, serving, faults>>
<1>0. /\ OtherTypes /\ ClaimTypes /\ \A t \in Segments : RowSound(t) /\ rows[t].pos \in 0..MaxHead
      /\ rows[s].epoch \in Nat /\ lease[i][s] \in Nat /\ cp[i][s] \in 0..MaxHead /\ opTo[i][s] \in 0..MaxHead
      /\ requested \in 0..MaxRequests /\ MaxHead \in Nat /\ MaxFaults \in Nat /\ MaxRequests \in Nat
  BY ActFacts
<1>1. (pc[i][s] = "wiped") /\ UNCHANGED <<lease, opLease, cp, opTo, upTo, requested, failed, head, up, serving, faults>>
  BY DEF ResetEnds
<1>2. (IF Owned(i, s, opLease[i][s]) THEN AllReset(i, s) ELSE UNCHANGED rows) /\ rows' \in [Segments -> Row]
  BY <1>0, ResetAt DEF ResetEnds, AllReset, ClaimTypes
<1>3. pc' \in [Instances -> [Segments -> PCs]] /\ At(pc, pc', i, s, IF Owned(i, s, opLease[i][s]) THEN "reset" ELSE "claim")
  <2>1. Goto(i, s, IF Owned(i, s, opLease[i][s]) THEN "reset" ELSE "claim") /\ (IF Owned(i, s, opLease[i][s]) THEN "reset" ELSE "claim") \in PCs
    BY DEF ResetEnds, RebuildLost, DropSegment, PCs
  <2> QED BY <2>1, GotoAt
<1>4. served' \in Nat /\ served' = IF Owned(i, s, opLease[i][s]) THEN requested ELSE served
  BY <1>0 DEF OtherTypes, ResetEnds
<1>5. model' \in [Events -> [n : 0..Many, by : Nat]] /\ model' = IF Owned(i, s, opLease[i][s]) /\ Transactional THEN Empty ELSE model
  BY <1>0, EmptyFacts DEF OtherTypes, ResetEnds
<1>6. mem' \in [Instances -> [Segments -> MemRecord]] /\ \A j \in Instances, t \in Segments : mem'[j][t].pos = mem[j][t].pos
  <2>1. CASE UNCHANGED mem
    BY <2>1, <1>0 DEF OtherTypes
  <2>2. CASE Phase(i, s, FALSE)
    BY <2>2, PhaseAt
  <2> QED BY <2>1, <2>2 DEF ResetEnds, RebuildLost, DropSegment
<1>7. resetting' \in [Instances -> BOOLEAN] /\ resetting' = IF Owned(i, s, opLease[i][s]) THEN resetting
                           ELSE [resetting EXCEPT ![i] = FALSE]
  BY <1>0 DEF OtherTypes, ResetEnds, RebuildLost
<1>8. TypeOK'
  BY <1>0, <1>1, <1>2, <1>3, <1>4, <1>5, <1>6, <1>7, TypesSplitPrime DEF OtherTypes, ClaimTypes
<1> QED BY <1>1, <1>2, <1>3, <1>4, <1>5, <1>6, <1>7, <1>8

LEMMA ResetFailsDoes ==
    ASSUME TypeOK, ClaimsSound, NEW i \in Instances, NEW s \in Segments, ResetFails(i, s)
    PROVE  /\ TypeOK'
           /\ pc[i][s] = "wiped" /\ Transactional
           /\ ((RowsKept /\ UNCHANGED <<model, served>>) \/ (AllReset(i, s) /\ model' = Empty))
           /\ At(pc, pc', i, s, "stalled")
           /\ resetting' = [resetting EXCEPT ![i] = FALSE]
           /\ UNCHANGED <<lease, opLease, cp, opTo, upTo, requested, head, up, serving, mem>>
<1>0. /\ OtherTypes /\ ClaimTypes /\ \A t \in Segments : RowSound(t) /\ rows[t].pos \in 0..MaxHead
      /\ rows[s].epoch \in Nat /\ lease[i][s] \in Nat /\ cp[i][s] \in 0..MaxHead /\ opTo[i][s] \in 0..MaxHead
      /\ requested \in 0..MaxRequests /\ MaxHead \in Nat /\ MaxFaults \in Nat /\ MaxRequests \in Nat
  BY ActFacts
<1>1. (pc[i][s] = "wiped" /\ Transactional) /\ UNCHANGED <<lease, opLease, cp, opTo, upTo, requested, head, up, serving, mem>>
  BY DEF ResetFails
<1>2. ((RowsKept /\ UNCHANGED <<model, served>>) \/ (AllReset(i, s) /\ model' = Empty)) /\ rows' \in [Segments -> Row]
  <2>1. CASE UNCHANGED <<rows, served, model>>
    BY <2>1, <1>0 DEF RowsKept, RowKept, ClaimTypes
  <2>2. CASE rows' = ResetRows(s, Version[i]) /\ model' = Empty
    BY <2>2, ResetAt DEF AllReset
  <2> QED BY <2>1, <2>2 DEF ResetFails
<1>3. pc' \in [Instances -> [Segments -> PCs]] /\ At(pc, pc', i, s, "stalled")
  <2>1. Goto(i, s, "stalled") /\ ("stalled") \in PCs
    BY DEF ResetFails, PCs
  <2> QED BY <2>1, GotoAt
<1>4. model' \in [Events -> [n : 0..Many, by : Nat]]
  BY <1>0, EmptyFacts DEF OtherTypes, ResetFails
<1>5. served' \in Nat
  BY <1>0 DEF OtherTypes, ResetFails
<1>6. failed' \in Nat
  <2>1. serving[i][s] \in Nat /\ failed \in Nat
    BY <1>0 DEF OtherTypes
  <2> QED BY <2>1 DEF ResetFails, FailedAfter
<1>7. resetting' \in [Instances -> BOOLEAN] /\ resetting' = [resetting EXCEPT ![i] = FALSE]
  BY <1>0 DEF OtherTypes, ResetFails
<1>8. faults' \in 0..MaxFaults
  BY <1>0 DEF OtherTypes, Fault, ResetFails
<1>9. TypeOK'
  BY <1>0, <1>1, <1>2, <1>3, <1>4, <1>5, <1>6, <1>7, <1>8, TypesSplitPrime DEF OtherTypes, ClaimTypes
<1> QED BY <1>1, <1>2, <1>3, <1>4, <1>5, <1>6, <1>7, <1>8, <1>9

LEMMA ForgetDoes ==
    ASSUME TypeOK, ClaimsSound, NEW i \in Instances, NEW s \in Segments, Forget(i, s)
    PROVE  /\ TypeOK'
           /\ pc[i][s] = "reset"
           /\ At(pc, pc', i, s, "reclaim")
           /\ \A j \in Instances, t \in Segments :
                mem'[j][t].pos = IF j = i THEN 0 ELSE mem[j][t].pos
           /\ \A j \in Instances, t \in Segments :
                lease'[j][t] = IF j = i /\ t # s THEN 0 ELSE lease[j][t]
           /\ UNCHANGED <<rows, opLease, cp, opTo, upTo, requested, served, failed, head, model, up, serving, resetting, faults>>
<1>0. /\ OtherTypes /\ ClaimTypes /\ \A t \in Segments : RowSound(t) /\ rows[t].pos \in 0..MaxHead
      /\ rows[s].epoch \in Nat /\ lease[i][s] \in Nat /\ cp[i][s] \in 0..MaxHead /\ opTo[i][s] \in 0..MaxHead
      /\ requested \in 0..MaxRequests /\ MaxHead \in Nat /\ MaxFaults \in Nat /\ MaxRequests \in Nat
  BY ActFacts
<1>1. (pc[i][s] = "reset") /\ UNCHANGED <<rows, opLease, cp, opTo, upTo, requested, served, failed, head, model, up, serving, resetting, faults>>
  BY DEF Forget, storeVars
<1>2. pc' \in [Instances -> [Segments -> PCs]] /\ At(pc, pc', i, s, "reclaim")
  <2>1. Goto(i, s, "reclaim") /\ ("reclaim") \in PCs
    BY DEF Forget, storeVars, PCs
  <2> QED BY <2>1, GotoAt
<1>3. mem' \in [Instances -> [Segments -> MemRecord]] /\ \A j \in Instances, t \in Segments :
                mem'[j][t].pos = IF j = i THEN 0 ELSE mem[j][t].pos
  <2>1. \A m \in MemRecord : [m EXCEPT !.pos = 0] \in MemRecord /\ [m EXCEPT !.pos = 0].pos = 0
    BY <1>0 DEF MemRecord
  <2>2. mem' = [mem EXCEPT ![i] = [t \in Segments |-> [mem[i][t] EXCEPT !.pos = 0]]]
    BY DEF Forget
  <2>3. mem' \in [Instances -> [Segments -> MemRecord]]
    BY <1>0, <2>1, <2>2 DEF OtherTypes
  <2>4. \A t \in Segments : mem'[i][t] = [mem[i][t] EXCEPT !.pos = 0]
    BY <1>0, <2>2 DEF OtherTypes
  <2>5. \A t \in Segments : mem'[i][t].pos = 0
    <3> SUFFICES ASSUME NEW t \in Segments PROVE mem'[i][t].pos = 0
      OBVIOUS
    <3>1. PICK m \in MemRecord : m = mem[i][t]
      BY <1>0 DEF OtherTypes
    <3> QED BY <2>1, <2>4, <3>1
  <2>6. \A j \in Instances : j # i => mem'[j] = mem[j]
    BY <1>0, <2>2 DEF OtherTypes
  <2> QED BY <2>3, <2>5, <2>6
<1>4. /\ lease' \in LoopNats
      /\ \A j \in Instances, t \in Segments :
            lease'[j][t] = IF j = i /\ t # s THEN 0 ELSE lease[j][t]
  BY <1>0 DEF Forget, ClaimTypes, LoopNats
<1>5. TypeOK'
  BY <1>0, <1>1, <1>2, <1>3, <1>4, TypesSplitPrime DEF OtherTypes, ClaimTypes
<1> QED BY <1>1, <1>2, <1>3, <1>4, <1>5

\* reclaim, when it is given the claim.
Reclaimed(i, s) ==
    /\ ClaimGoes(i, s)
    /\ At(lease, lease', i, s, rows'[s].epoch) /\ At(cp, cp', i, s, rows[s].pos)
    /\ At(upTo, upTo', i, s, 0) /\ At(pc, pc', i, s, "work")
    /\ At(mem, mem', i, s, [pos |-> rows[s].pos, owned |-> TRUE])

\* reclaim, when another loop has taken the segment.
ReclaimRefused(i, s) ==
    /\ At(pc, pc', i, s, "claim") /\ UNCHANGED <<rows, lease, cp, upTo>>
    /\ \A j \in Instances, t \in Segments : mem'[j][t].pos = mem[j][t].pos

LEMMA ReclaimDoes ==
    ASSUME TypeOK, ClaimsSound, NEW i \in Instances, NEW s \in Segments, Reclaim(i, s)
    PROVE  /\ TypeOK'
           /\ pc[i][s] = "reclaim" /\ ~RowLocked(s)
           /\ Reclaimed(i, s) \/ ReclaimRefused(i, s)
           /\ resetting' = [resetting EXCEPT ![i] = FALSE]
           /\ UNCHANGED <<requested, served, failed, head, model, up, opLease, opTo, serving, faults>>
<1>0. /\ OtherTypes /\ ClaimTypes /\ \A t \in Segments : RowSound(t) /\ rows[t].pos \in 0..MaxHead
      /\ rows[s].epoch \in Nat /\ lease[i][s] \in Nat /\ cp[i][s] \in 0..MaxHead /\ opTo[i][s] \in 0..MaxHead
      /\ requested \in 0..MaxRequests /\ MaxHead \in Nat /\ MaxFaults \in Nat /\ MaxRequests \in Nat
  BY ActFacts
<1>1. /\ pc[i][s] = "reclaim" /\ ~RowLocked(s)
      /\ UNCHANGED <<requested, served, failed, head, model, up, opLease, opTo, serving, faults>>
  BY DEF Reclaim
<1>2. resetting' \in [Instances -> BOOLEAN] /\ resetting' = [resetting EXCEPT ![i] = FALSE]
  BY <1>0 DEF OtherTypes, Reclaim, RebuildLost
<1>3. CASE Claimable(i, s, lease[i][s])
  <2>1. ClaimGoes(i, s) /\ rows' \in [Segments -> Row] /\ rows'[s].epoch \in Nat
    <3>1. ClaimGoes(i, s)
      BY <1>3, ClaimedAt DEF ClaimsSound, Reclaim
    <3> QED BY <3>1 DEF ClaimGoes, Row
  <2>2. pc' \in [Instances -> [Segments -> PCs]] /\ At(pc, pc', i, s, "work")
    <3>1. Goto(i, s, "work") /\ "work" \in PCs
      BY <1>3 DEF Reclaim, PCs
    <3> QED BY <3>1, GotoAt
  <2>3. lease' \in LoopNats /\ At(lease, lease', i, s, rows'[s].epoch)
    <3>1. lease' = [lease EXCEPT ![i][s] = rows'[s].epoch]
      BY <1>3 DEF Reclaim
    <3> QED BY <1>0, <2>1, <3>1, SetAt DEF ClaimTypes, LoopNats
  <2>4. cp' \in LoopPositions /\ At(cp, cp', i, s, rows[s].pos)
    <3>1. cp' = [cp EXCEPT ![i][s] = rows[s].pos]
      BY <1>3 DEF Reclaim
    <3> QED BY <1>0, <3>1, SetAt DEF ClaimTypes, LoopPositions
  <2>5. upTo' \in LoopPositions /\ At(upTo, upTo', i, s, 0)
    <3>1. upTo' = [upTo EXCEPT ![i][s] = 0] /\ 0 \in 0..MaxHead
      BY <1>0, <1>3 DEF Reclaim
    <3> QED BY <1>0, <3>1, SetAt DEF ClaimTypes, LoopPositions
  <2>6. /\ mem' \in [Instances -> [Segments -> MemRecord]]
        /\ At(mem, mem', i, s, [pos |-> rows[s].pos, owned |-> TRUE])
    <3>1. mem' = [mem EXCEPT ![i][s] = [pos |-> rows[s].pos, owned |-> TRUE]]
      BY <1>3 DEF Reclaim
    <3>2. [pos |-> rows[s].pos, owned |-> TRUE] \in MemRecord
      BY <1>0 DEF MemRecord
    <3> QED BY <1>0, <3>1, <3>2, SetAt DEF OtherTypes
  <2>7. TypeOK'
    BY <1>0, <1>1, <1>2, <2>1, <2>2, <2>3, <2>4, <2>5, <2>6, TypesSplitPrime DEF OtherTypes, ClaimTypes
  <2> QED BY <1>1, <1>2, <2>1, <2>2, <2>3, <2>4, <2>5, <2>6, <2>7 DEF Reclaimed
<1>4. CASE ~Claimable(i, s, lease[i][s])
  <2>1. UNCHANGED <<rows, lease, cp, upTo>>
    BY <1>4 DEF Reclaim
  <2>2. pc' \in [Instances -> [Segments -> PCs]] /\ At(pc, pc', i, s, "claim")
    <3>1. Goto(i, s, "claim") /\ "claim" \in PCs
      BY <1>4 DEF Reclaim, RebuildLost, DropSegment, PCs
    <3> QED BY <3>1, GotoAt
  <2>3. /\ mem' \in [Instances -> [Segments -> MemRecord]]
        /\ \A j \in Instances, t \in Segments : mem'[j][t].pos = mem[j][t].pos
    <3>1. Phase(i, s, FALSE)
      BY <1>4 DEF Reclaim, RebuildLost, DropSegment
    <3> QED BY <3>1, PhaseAt
  <2>4. TypeOK'
    BY <1>0, <1>1, <1>2, <2>1, <2>2, <2>3, TypesSplitPrime DEF OtherTypes, ClaimTypes
  <2> QED BY <1>1, <1>2, <2>1, <2>2, <2>3, <2>4 DEF ReclaimRefused
<1> QED BY <1>3, <1>4

\* A process that starts, is told to stop, or dies.
LEMMA ProcessDoes ==
    ASSUME TypeOK, ClaimsSound, NEW i \in Instances, Start(i) \/ Stop(i) \/ Crash(i)
    PROVE  /\ TypeOK'
           /\ \A j \in Instances, t \in Segments :
                 /\ pc'[j][t] = pc[j][t] \/ (j = i /\ pc'[j][t] \in {"off", "claim"})
                 /\ ~Transactional => mem'[j][t].pos = mem[j][t].pos
           /\ ~Transactional => UNCHANGED resetting
           /\ UNCHANGED <<rows, requested, served, failed, head, model, lease, cp, opLease, opTo,
                          upTo, serving>>
<1>0. /\ OtherTypes /\ ClaimTypes /\ 0 \in 0..MaxHead /\ MaxFaults \in Nat
  BY TypesSplit, RunnerAssumption
<1>1. UNCHANGED <<rows, requested, served, failed, head, model, lease, cp, opLease, opTo, upTo, serving>>
  BY DEF Start, Stop, Crash, storeVars
<1>2. /\ pc' \in [Instances -> [Segments -> PCs]]
      /\ \A j \in Instances, t \in Segments :
            pc'[j][t] = pc[j][t] \/ (j = i /\ pc'[j][t] \in {"off", "claim"})
  BY <1>0 DEF Start, Stop, Crash, ClaimTypes, PCs
<1>3. up' \in [Instances -> {"new", "up", "stopping", "down"}]
  BY <1>0 DEF Start, Stop, Crash, OtherTypes
<1>4. faults' \in 0..MaxFaults
  BY <1>0 DEF Start, Stop, Crash, OtherTypes, Fault
<1>5. mem' \in [Instances -> [Segments -> MemRecord]] /\ (~Transactional => UNCHANGED mem)
  <2>1. [pos |-> 0, owned |-> FALSE] \in MemRecord
    BY <1>0 DEF MemRecord
  <2>2. CASE UNCHANGED mem
    BY <1>0, <2>2 DEF OtherTypes
  <2>3. CASE /\ mem' = [mem EXCEPT ![i] = [s \in Segments |-> [pos |-> 0, owned |-> FALSE]]]
             /\ Transactional
    BY <1>0, <2>1, <2>3 DEF OtherTypes
  <2> QED BY <2>2, <2>3 DEF Start, Stop, Crash
<1>6. resetting' \in [Instances -> BOOLEAN] /\ (~Transactional => UNCHANGED resetting)
  BY <1>0 DEF Start, Stop, Crash, OtherTypes
<1>7. TypeOK'
  BY <1>0, <1>1, <1>2, <1>3, <1>4, <1>5, <1>6, TypesSplitPrime DEF OtherTypes, ClaimTypes
<1> QED BY <1>1, <1>2, <1>5, <1>6, <1>7

\* Steps of no loop: a heartbeat expires, an event or a request comes, or nothing happens.
Aside ==
    (\E s \in Segments : Expire(s)) \/ Append \/ Request \/ UNCHANGED vars

\* What they change.
LEMMA AsideDoes ==
    ASSUME TypeOK, ClaimsSound, Aside
    PROVE  /\ TypeOK' /\ RowsKept /\ requested' \in 0..MaxRequests
           /\ requested' = requested \/ requested' = requested + 1
           /\ UNCHANGED <<served, model, up, pc, lease, cp, opLease, opTo, upTo, serving, mem, resetting>>
<1>0. /\ OtherTypes /\ ClaimTypes /\ MaxHead \in Nat /\ MaxFaults \in Nat /\ MaxRequests \in Nat
      /\ requested \in 0..MaxRequests
  BY TypesSplit, RunnerAssumption DEF ClaimsSound, OtherTypes
<1>1. /\ UNCHANGED <<served, failed, model, up, pc, lease, cp, opLease, opTo, upTo, serving, mem, resetting>>
      /\ requested' \in 0..MaxRequests /\ (requested' = requested \/ requested' = requested + 1)
  BY <1>0 DEF Aside, Expire, Append, Request, RequestRebuild, vars, runnerVars, storeVars
<1>2. RowsKept
  <2>1. CASE UNCHANGED rows
    BY <1>0, <2>1 DEF RowsKept, RowKept, ClaimTypes
  <2>2. ASSUME NEW s \in Segments, Expire(s) PROVE RowsKept
    BY <2>2, RefreshedAt DEF Expire, Expired
  <2> QED BY <2>1, <2>2 DEF Aside, Append, Request, RequestRebuild, vars, storeVars
<1>3. head' \in 0..MaxHead /\ faults' \in 0..MaxFaults
  BY <1>0 DEF Aside, Expire, Append, Request, RequestRebuild, vars, runnerVars, storeVars, Fault, OtherTypes
<1>4. TypeOK'
  BY <1>0, <1>1, <1>2, <1>3, TypesSplitPrime DEF OtherTypes, ClaimTypes, RowsKept
<1> QED BY <1>1, <1>2, <1>4

-----------------------------------------------------------------------------
(***************************************************************************)
(* Every action is a move, so the claims stay sound.                         *)
(***************************************************************************)
Idle == PCs \ ({"work", "committed"} \cup InCommit \cup InReset)

\* A loop that ends up outside of work has nothing to be sound about but its lease.
LEMMA IdleMove ==
    ASSUME TypeOK, TypeOK', ClaimsSound, NEW i \in Instances, NEW s \in Segments,
           OthersKept(i, s), RowsMove(i, s), requested' <= MaxRequests, pc'[i][s] \in Idle,
           opLease'[i][s] = lease[i][s] \/ opLease'[i][s] = opLease[i][s],
           \/ lease'[i][s] = 0 \/ lease'[i][s] = lease[i][s]
           \/ lease'[i][s] = rows'[s].epoch /\ rows'[s].epoch > rows[s].epoch
    PROVE  Move(i, s)
<1>1. /\ lease[i][s] \in Nat /\ opLease[i][s] \in Nat /\ rows[s].epoch \in Nat
      /\ lease[i][s] <= rows[s].epoch /\ opLease[i][s] <= rows[s].epoch
  BY LoopTypes DEF ClaimsSound, LoopSound, LeaseBehind
<1>2. rows'[s].epoch \in Nat /\ rows'[s].epoch >= rows[s].epoch
  BY <1>1 DEF TypeOK, StoreTypeOK, Row, RowsMove, RowKept, Taken
<1>3. pc'[i][s] \notin {"work", "committed"} \cup InCommit \cup InReset
  BY DEF Idle
<1>4. LoopSound(i, s)'
  BY <1>1, <1>2, <1>3
     DEF LoopSound, LeaseBehind, BatchAhead, FromCheckpoint, LockHeld
<1>5. EpochsFrom(i, s) /\ UnitsFrom(i, s)
  BY <1>3 DEF EpochsFrom, UnitsFrom
<1> QED BY <1>4, <1>5 DEF Move

\* The same, when only the place of the loop changes.
LEMMA PcMove ==
    ASSUME TypeOK, TypeOK', ClaimsSound, NEW i \in Instances, NEW s \in Segments, NEW w \in Idle,
           UNCHANGED <<lease, cp, opLease, opTo, upTo>>, At(pc, pc', i, s, w),
           RowsMove(i, s), requested' = requested
    PROVE  Move(i, s)
<1>1. OthersKept(i, s) /\ pc'[i][s] \in Idle
  BY DEF OthersKept, At
<1>2. requested' <= MaxRequests
  BY DEF ClaimsSound
<1> QED BY <1>1, <1>2, IdleMove

\* The same, when the call also remembers the lease it is made with.
LEMMA CallMove ==
    ASSUME TypeOK, TypeOK', ClaimsSound, NEW i \in Instances, NEW s \in Segments, NEW w \in Idle,
           UNCHANGED <<lease, cp, opTo, upTo>>, At(opLease, opLease', i, s, lease[i][s]),
           At(pc, pc', i, s, w), RowsMove(i, s), requested' = requested
    PROVE  Move(i, s)
<1>1. OthersKept(i, s) /\ pc'[i][s] \in Idle /\ opLease'[i][s] = lease[i][s]
  BY DEF OthersKept, At
<1>2. requested' <= MaxRequests
  BY DEF ClaimsSound
<1> QED BY <1>1, <1>2, IdleMove

\* A step that leaves the rows alone takes none.
LEMMA SameMove ==
    ASSUME TypeOK, ClaimsSound, NEW i \in Instances, NEW s \in Segments, UNCHANGED rows
    PROVE  RowsMove(i, s)
<1>1. RowsKept
  BY DEF RowsKept, RowKept, TypeOK, StoreTypeOK
<1> QED BY <1>1, KeptMove

\* Claims that are refused or fail, releases, sheds, stalls and exits are moves.
LEMMA ClaimActions ==
    ASSUME TypeOK, ClaimsSound, NEW i \in Instances, NEW s \in Segments,
           \/ ClaimRefused(i, s) \/ ClaimFails(i, s) \/ StepAside(i, s) \/ Shed(i, s)
           \/ Stall(i, s) \/ Exit(i, s)
    PROVE  TypeOK' /\ Move(i, s)
<1> USE DEF PCs, Idle, InCommit, InReset
<1>1. CASE ClaimRefused(i, s)
  <2>1. At(pc, pc', i, s, "claim")
    BY <1>1, ClaimRefusedDoes DEF At
  <2> QED BY <1>1, <2>1, ClaimRefusedDoes, SameMove, PcMove
<1>2. CASE ClaimFails(i, s)
  <2>1. At(pc, pc', i, s, "claim")
    BY <1>2, ClaimFailsDoes DEF At
  <2>2. RowsMove(i, s)
    BY <1>2, ClaimFailsDoes, KeptMove, ClaimMove, SameMove
  <2> QED BY <1>2, <2>1, <2>2, ClaimFailsDoes, PcMove
<1>3. CASE StepAside(i, s)
  BY <1>3, StepAsideDoes, DropMove, PcMove
<1>4. CASE Shed(i, s)
  BY <1>4, ShedDoes, DropMove, PcMove
<1>5. CASE Stall(i, s)
  BY <1>5, StallDoes, KeptMove, PcMove
<1>6. CASE Exit(i, s)
  BY <1>6, ExitDoes, DropMove, PcMove
<1> QED BY <1>1, <1>2, <1>3, <1>4, <1>5, <1>6

\* So are the steps of a rebuild that end outside a unit of work.
LEMMA RebuildActions ==
    ASSUME TypeOK, ClaimsSound, NEW i \in Instances, NEW s \in Segments,
           \/ RebuildUpgrade(i, s) \/ (s = 0 /\ RebuildDue(i)) \/ WipeFails(i, s)
           \/ ResetEnds(i, s) \/ ResetFails(i, s) \/ Forget(i, s)
    PROVE  TypeOK' /\ Move(i, s)
<1> USE DEF PCs, Idle, InCommit, InReset
<1>1. CASE RebuildUpgrade(i, s)
  BY <1>1, RebuildUpgradeDoes, SameMove, CallMove
<1>2. CASE s = 0 /\ RebuildDue(i)
  BY <1>2, RebuildDueDoes, SameMove, CallMove
<1>3. CASE WipeFails(i, s)
  BY <1>3, WipeFailsDoes, SameMove, PcMove
<1>4. CASE ResetEnds(i, s)
  <2>1. CASE Owned(i, s, opLease[i][s])
    <3>1. RowsMove(i, s)
      BY <1>4, <2>1, ResetEndsDoes, ResetMove
    <3>2. At(pc, pc', i, s, "reset")
      BY <1>4, <2>1, ResetEndsDoes
    <3> QED BY <1>4, <3>1, <3>2, ResetEndsDoes, PcMove
  <2>2. CASE ~Owned(i, s, opLease[i][s])
    <3>1. RowsMove(i, s)
      BY <1>4, <2>2, ResetEndsDoes, SameMove
    <3>2. At(pc, pc', i, s, "claim")
      BY <1>4, <2>2, ResetEndsDoes
    <3> QED BY <1>4, <3>1, <3>2, ResetEndsDoes, PcMove
  <2> QED BY <2>1, <2>2
<1>5. CASE ResetFails(i, s)
  <2>1. Owned(i, s, opLease[i][s])
    BY <1>5, ResetFailsDoes DEF ClaimsSound, LoopSound, LockHeld
  <2>2. RowsMove(i, s)
    BY <1>5, <2>1, ResetFailsDoes, ResetMove, KeptMove
  <2> QED BY <1>5, <2>2, ResetFailsDoes, PcMove
<1>6. CASE Forget(i, s)
  <2>1. OthersKept(i, s) /\ pc'[i][s] \in Idle /\ opLease'[i][s] = opLease[i][s]
        /\ lease'[i][s] = lease[i][s]
    BY <1>6, ForgetDoes DEF OthersKept, At
  <2>2. RowsMove(i, s) /\ requested' <= MaxRequests
    BY <1>6, ForgetDoes, SameMove DEF ClaimsSound
  <2> QED BY <1>6, <2>1, <2>2, ForgetDoes, IdleMove
<1> QED BY <1>1, <1>2, <1>3, <1>4, <1>5, <1>6

\* What holds of a loop when the claims are sound; epoch 0 is never a claim.
LEMMA Mine ==
    ASSUME TypeOK, ClaimsSound, NEW i \in Instances, NEW s \in Segments
    PROVE  /\ LeaseBehind(i, s) /\ BatchAhead(i, s) /\ FromCheckpoint(i, s) /\ LockHeld(i, s)
           /\ ~Owned(i, s, 0)
BY LoopTypes DEF ClaimsSound, LoopSound, RowSound, Owned

LEMMA ClaimGrantedMoves ==
    ASSUME TypeOK, ClaimsSound, NEW i \in Instances, NEW s \in Segments, ClaimGranted(i, s)
    PROVE  TypeOK' /\ Move(i, s)
<1>1. /\ TypeOK' /\ pc[i][s] = "claim" /\ ~RowLocked(s) /\ ClaimGoes(i, s)
      /\ At(pc, pc', i, s, AfterClaim(i, s)) /\ At(lease, lease', i, s, rows'[s].epoch)
      /\ At(cp, cp', i, s, rows[s].pos) /\ At(upTo, upTo', i, s, 0)
      /\ UNCHANGED <<opLease, opTo, requested>>
  BY ClaimGrantedDoes
<1>2. RowsMove(i, s) /\ OthersKept(i, s) /\ requested' <= MaxRequests
  BY <1>1, ClaimMove DEF OthersKept, At, ClaimsSound
<1>3. /\ lease[i][s] \in Nat /\ opLease[i][s] \in Nat /\ rows[s].epoch \in Nat
      /\ lease[i][s] <= rows[s].epoch /\ opLease[i][s] <= rows[s].epoch
  BY LoopTypes, Mine DEF LeaseBehind
<1>4. /\ rows'[s].epoch = lease[i][s] \/ rows'[s].epoch = rows[s].epoch + 1
      /\ rows'[s].epoch >= rows[s].epoch /\ rows'[s].pos = rows[s].pos
  BY <1>1, <1>3 DEF ClaimGoes, Owned, RowKept
<1>5. EpochsFrom(i, s) /\ UnitsFrom(i, s)
  BY <1>1, <1>3, <1>4 DEF EpochsFrom, UnitsFrom, At, AfterClaim, InCommit, InReset
<1>6. LoopSound(i, s)'
  BY <1>1, <1>3, <1>4
     DEF LoopSound, LeaseBehind, BatchAhead, FromCheckpoint, LockHeld, At, AfterClaim, InCommit, InReset
<1> QED BY <1>1, <1>2, <1>5, <1>6 DEF Move

LEMMA ReclaimMoves ==
    ASSUME TypeOK, ClaimsSound, NEW i \in Instances, NEW s \in Segments, Reclaim(i, s)
    PROVE  TypeOK' /\ Move(i, s)
<1>1. CASE ReclaimRefused(i, s)
  <2>1. RowsMove(i, s) /\ "claim" \in Idle
    BY <1>1, SameMove DEF ReclaimRefused, Idle, PCs, InCommit, InReset
  <2> QED BY <1>1, <2>1, ReclaimDoes, PcMove DEF ReclaimRefused
<1>2. CASE Reclaimed(i, s)
  <2>1. /\ TypeOK' /\ pc[i][s] = "reclaim" /\ ~RowLocked(s) /\ ClaimGoes(i, s)
        /\ At(pc, pc', i, s, "work") /\ At(lease, lease', i, s, rows'[s].epoch)
        /\ At(cp, cp', i, s, rows[s].pos) /\ At(upTo, upTo', i, s, 0)
        /\ UNCHANGED <<opLease, opTo, requested>>
    BY <1>2, ReclaimDoes DEF Reclaimed
  <2>2. RowsMove(i, s) /\ OthersKept(i, s) /\ requested' <= MaxRequests
    BY <2>1, ClaimMove DEF OthersKept, At, ClaimsSound
  <2>3. /\ lease[i][s] \in Nat /\ opLease[i][s] \in Nat /\ rows[s].epoch \in Nat
        /\ lease[i][s] <= rows[s].epoch /\ opLease[i][s] <= rows[s].epoch
    BY LoopTypes, Mine DEF LeaseBehind
  <2>4. /\ rows'[s].epoch = lease[i][s] \/ rows'[s].epoch = rows[s].epoch + 1
        /\ rows'[s].epoch >= rows[s].epoch /\ rows'[s].pos = rows[s].pos
    BY <2>1, <2>3 DEF ClaimGoes, Owned, RowKept
  <2>5. EpochsFrom(i, s) /\ UnitsFrom(i, s)
    BY <2>1, <2>3, <2>4 DEF EpochsFrom, UnitsFrom, At, InCommit, InReset
  <2>6. LoopSound(i, s)'
    BY <2>1, <2>3, <2>4
       DEF LoopSound, LeaseBehind, BatchAhead, FromCheckpoint, LockHeld, At, InCommit, InReset
  <2> QED BY <2>1, <2>2, <2>5, <2>6 DEF Move
<1> QED BY <1>1, <1>2, ReclaimDoes

LEMMA CommitBeginsMoves ==
    ASSUME TypeOK, ClaimsSound, NEW i \in Instances, NEW s \in Segments, CommitBegins(i, s)
    PROVE  TypeOK' /\ Move(i, s)
<1>1. /\ TypeOK' /\ pc[i][s] = "work" /\ MayCommit(s)
      /\ At(pc, pc', i, s, IF Owned(i, s, lease[i][s]) THEN "commit" ELSE "claim")
      /\ At(opLease, opLease', i, s, lease[i][s]) /\ At(opTo, opTo', i, s, opTo'[i][s])
      /\ opTo'[i][s] \in Events /\ Reads(i, s, opTo'[i][s])
      /\ UNCHANGED <<rows, lease, cp, upTo, requested>>
  BY CommitBeginsDoes
<1>2. RowsMove(i, s) /\ OthersKept(i, s) /\ requested' <= MaxRequests
  BY <1>1, SameMove DEF OthersKept, At, ClaimsSound
<1>3. EpochsFrom(i, s) /\ UnitsFrom(i, s)
  BY <1>1 DEF EpochsFrom, UnitsFrom, At, InCommit, InReset
<1>4. LeaseBehind(i, s) /\ BatchAhead(i, s) /\ FromCheckpoint(i, s)
  BY Mine
<1>5. CASE ~Owned(i, s, lease[i][s])
  <2>1. pc'[i][s] \in Idle /\ opLease'[i][s] = lease[i][s] /\ lease'[i][s] = lease[i][s]
    BY <1>1, <1>5 DEF At, Idle, PCs, InCommit, InReset
  <2> QED BY <1>1, <1>2, <2>1, IdleMove
<1>6. CASE Owned(i, s, lease[i][s])
  <2>1. cp[i][s] < opTo'[i][s] /\ (upTo[i][s] = 0 \/ opTo'[i][s] <= upTo[i][s])
    BY <1>1, <1>4, ReadsFacts DEF BatchAhead
  <2>2. pc'[i][s] = "commit" /\ opLease'[i][s] = lease[i][s]
    BY <1>1, <1>6 DEF At
  <2>3. LeaseBehind(i, s)' /\ LockHeld(i, s)'
    BY <1>1, <1>4, <1>6, <2>2 DEF LeaseBehind, LockHeld, Owned, InCommit, InReset
  <2>4. FromCheckpoint(i, s)'
    BY <1>1, <1>4, <1>6, <2>2 DEF FromCheckpoint, Owned, InCommit
  <2>5. cp[i][s] \in Nat /\ opTo'[i][s] \in Nat
    BY <1>1, LoopTypes DEF Events
  <2>6. BatchAhead(i, s)'
    BY <1>1, <2>1, <2>2, <2>5 DEF BatchAhead, InCommit
  <2> QED BY <1>1, <1>2, <1>3, <2>3, <2>4, <2>6 DEF Move, LoopSound
<1> QED BY <1>5, <1>6

LEMMA HandlerMoves ==
    ASSUME TypeOK, ClaimsSound, NEW i \in Instances, NEW s \in Segments,
           HandlerRuns(i, s) \/ HandlerFails(i, s)
    PROVE  TypeOK' /\ Move(i, s)
<1>0. /\ LeaseBehind(i, s) /\ BatchAhead(i, s) /\ FromCheckpoint(i, s) /\ LockHeld(i, s)
      /\ ~Owned(i, s, 0)
  BY Mine
<1>1. CASE HandlerRuns(i, s)
  <2>1. /\ TypeOK' /\ pc[i][s] = "commit" /\ At(pc, pc', i, s, "written")
        /\ UNCHANGED <<rows, lease, cp, opLease, opTo, upTo, requested>>
    BY <1>1, HandlerRunsDoes
  <2>2. RowsMove(i, s) /\ OthersKept(i, s) /\ requested' <= MaxRequests
    BY <2>1, SameMove DEF OthersKept, At, ClaimsSound
  <2>3. EpochsFrom(i, s) /\ UnitsFrom(i, s)
    BY <2>1 DEF EpochsFrom, UnitsFrom, At, InCommit, InReset
  <2>4. LoopSound(i, s)'
    BY <1>0, <2>1 DEF LoopSound, LeaseBehind, BatchAhead, FromCheckpoint, LockHeld, Owned, At, InCommit, InReset
  <2> QED BY <2>1, <2>2, <2>3, <2>4 DEF Move
<1>2. CASE HandlerFails(i, s)
  <2>1. /\ TypeOK' /\ pc[i][s] = "commit"
        /\ At(pc, pc', i, s, IF upTo[i][s] = 0 THEN "work" ELSE "stalled")
        /\ At(upTo, upTo', i, s, IF upTo[i][s] = 0 THEN opTo[i][s] ELSE upTo[i][s])
        /\ UNCHANGED <<rows, lease, cp, opLease, opTo, requested>>
    BY <1>2, HandlerFailsDoes
  <2>2. RowsMove(i, s) /\ OthersKept(i, s) /\ requested' <= MaxRequests
    BY <2>1, SameMove DEF OthersKept, At, ClaimsSound
  <2>3. EpochsFrom(i, s) /\ UnitsFrom(i, s)
    BY <2>1 DEF EpochsFrom, UnitsFrom, At, InCommit, InReset
  <2>4. Owned(i, s, lease[i][s]) => cp[i][s] = rows[s].pos
    BY <1>0, <2>1 DEF LeaseBehind, FromCheckpoint, InCommit
  <2>5. FromCheckpoint(i, s)' /\ LockHeld(i, s)'
    BY <2>1, <2>4 DEF FromCheckpoint, LockHeld, Owned, At, InCommit, InReset
  <2>6. LeaseBehind(i, s)' /\ BatchAhead(i, s)'
    BY <1>0, <2>1 DEF LeaseBehind, BatchAhead, At, InCommit
  <2> QED BY <2>1, <2>2, <2>3, <2>5, <2>6 DEF Move, LoopSound
<1> QED BY <1>1, <1>2

LEMMA CommitEndsMoves ==
    ASSUME TypeOK, ClaimsSound, NEW i \in Instances, NEW s \in Segments,
           CommitEnds(i, s) \/ CommitFails(i, s)
    PROVE  TypeOK' /\ Move(i, s)
<1>0. /\ LeaseBehind(i, s) /\ BatchAhead(i, s) /\ FromCheckpoint(i, s) /\ LockHeld(i, s)
      /\ ~Owned(i, s, 0)
  BY Mine
<1>1. CASE CommitFails(i, s)
  <2>1. Owned(i, s, opLease[i][s])
    BY <1>0, <1>1, CommitFailsDoes DEF LockHeld, InCommit
  <2>2. RowsMove(i, s) /\ "stalled" \in Idle
    BY <1>1, <2>1, CommitFailsDoes, MovedMove, KeptMove DEF Idle, PCs, InCommit, InReset
  <2> QED BY <1>1, <2>2, CommitFailsDoes, PcMove
<1>2. CASE CommitEnds(i, s) /\ ~Owned(i, s, opLease[i][s])
  <2>1. RowsMove(i, s) /\ "claim" \in Idle
    BY <1>2, CommitEndsDoes, SameMove DEF Idle, PCs, InCommit, InReset
  <2>2. At(pc, pc', i, s, "claim")
    BY <1>2, CommitEndsDoes
  <2> QED BY <1>2, <2>1, <2>2, CommitEndsDoes, PcMove
<1>3. CASE CommitEnds(i, s) /\ Owned(i, s, opLease[i][s])
  <2>1. /\ TypeOK' /\ pc[i][s] = "written" /\ Moved(i, s, opTo[i][s])
        /\ UNCHANGED <<lease, cp, opLease, opTo, upTo, requested>>
    BY <1>3, CommitEndsDoes
  <2>2. At(pc, pc', i, s, "committed")
    BY <1>3, CommitEndsDoes
  <2>3. RowsMove(i, s) /\ OthersKept(i, s) /\ requested' <= MaxRequests
    BY <1>3, <2>1, <2>2, MovedMove DEF OthersKept, At, ClaimsSound
  <2>4. EpochsFrom(i, s) /\ UnitsFrom(i, s)
    BY <2>1, <2>2 DEF EpochsFrom, UnitsFrom, At, InCommit, InReset
  <2>5. LoopSound(i, s)'
    BY <1>0, <2>1, <2>2
       DEF LoopSound, LeaseBehind, BatchAhead, FromCheckpoint, LockHeld, Moved, Owned, At, InCommit, InReset
  <2> QED BY <2>1, <2>3, <2>4, <2>5 DEF Move
<1> QED BY <1>1, <1>2, <1>3

LEMMA PublishMoves ==
    ASSUME TypeOK, ClaimsSound, NEW i \in Instances, NEW s \in Segments, Publish(i, s)
    PROVE  TypeOK' /\ Move(i, s)
<1>0. LeaseBehind(i, s) /\ BatchAhead(i, s) /\ FromCheckpoint(i, s)
  BY Mine
<1>1. /\ TypeOK' /\ pc[i][s] = "work" /\ upTo[i][s] = 0 /\ RowsKept
      /\ At(pc, pc', i, s, pc'[i][s]) /\ pc'[i][s] \in {"committed", "claim"}
      /\ At(opLease, opLease', i, s, lease[i][s]) /\ At(opTo, opTo', i, s, cp[i][s])
      /\ UNCHANGED <<lease, cp, upTo, requested>>
  BY PublishDoes
<1>2. RowsMove(i, s) /\ OthersKept(i, s) /\ requested' <= MaxRequests
  BY <1>1, KeptMove DEF OthersKept, At, ClaimsSound
<1>3. EpochsFrom(i, s) /\ UnitsFrom(i, s)
  BY <1>1 DEF EpochsFrom, UnitsFrom, At, InCommit, InReset
<1>4. cp[i][s] \in Nat
  BY LoopTypes
<1>5. LoopSound(i, s)'
  BY <1>0, <1>1, <1>4
     DEF LoopSound, LeaseBehind, BatchAhead, FromCheckpoint, LockHeld, RowsKept, RowKept, Owned, At, InCommit, InReset
<1> QED BY <1>1, <1>2, <1>3, <1>5 DEF Move

LEMMA SetStatusMoves ==
    ASSUME TypeOK, ClaimsSound, NEW i \in Instances, NEW s \in Segments, SetStatus(i, s)
    PROVE  TypeOK' /\ Move(i, s)
<1>0. LeaseBehind(i, s) /\ BatchAhead(i, s) /\ FromCheckpoint(i, s)
  BY Mine
<1>1. /\ TypeOK' /\ pc[i][s] = "committed" /\ At(pc, pc', i, s, "work")
      /\ At(cp, cp', i, s, opTo[i][s])
      /\ At(upTo, upTo', i, s, IF upTo[i][s] = opTo[i][s] THEN 0 ELSE upTo[i][s])
      /\ UNCHANGED <<rows, lease, opLease, opTo, requested>>
  BY SetStatusDoes
<1>2. RowsMove(i, s) /\ OthersKept(i, s) /\ requested' <= MaxRequests
  BY <1>1, SameMove DEF OthersKept, At, ClaimsSound
<1>3. EpochsFrom(i, s) /\ UnitsFrom(i, s)
  BY <1>1 DEF EpochsFrom, UnitsFrom, At, InCommit, InReset
<1>4. upTo[i][s] \in Nat /\ opTo[i][s] \in Nat
  BY LoopTypes
<1>5. LoopSound(i, s)'
  BY <1>0, <1>1, <1>4
     DEF LoopSound, LeaseBehind, BatchAhead, FromCheckpoint, LockHeld, Owned, At, InCommit, InReset
<1> QED BY <1>1, <1>2, <1>3, <1>5 DEF Move

LEMMA ResetMoves ==
    ASSUME TypeOK, ClaimsSound, NEW i \in Instances, NEW s \in Segments,
           ResetBegins(i, s) \/ Wipe(i, s)
    PROVE  TypeOK' /\ Move(i, s)
<1>0. LeaseBehind(i, s) /\ LockHeld(i, s)
  BY Mine
<1>1. CASE ResetBegins(i, s) /\ ~Owned(i, s, opLease[i][s])
  <2>1. RowsMove(i, s) /\ "claim" \in Idle
    BY <1>1, ResetBeginsDoes, SameMove DEF Idle, PCs, InCommit, InReset
  <2>2. At(pc, pc', i, s, "claim")
    BY <1>1, ResetBeginsDoes
  <2> QED BY <1>1, <2>1, <2>2, ResetBeginsDoes, PcMove
<1>2. CASE ResetBegins(i, s) /\ Owned(i, s, opLease[i][s])
  <2>1. /\ TypeOK' /\ pc[i][s] = "lockwait" /\ MayReset
        /\ UNCHANGED <<rows, lease, cp, opLease, opTo, upTo, requested>>
    BY <1>2, ResetBeginsDoes
  <2>2. At(pc, pc', i, s, "wiping")
    BY <1>2, ResetBeginsDoes
  <2>3. RowsMove(i, s) /\ OthersKept(i, s) /\ requested' <= MaxRequests
    BY <2>1, <2>2, SameMove DEF OthersKept, At, ClaimsSound
  <2>4. EpochsFrom(i, s) /\ UnitsFrom(i, s)
    BY <2>1, <2>2 DEF EpochsFrom, UnitsFrom, At, InCommit, InReset
  <2>5. LoopSound(i, s)'
    BY <1>0, <1>2, <2>1, <2>2
       DEF LoopSound, LeaseBehind, BatchAhead, FromCheckpoint, LockHeld, Owned, At, InCommit, InReset
  <2> QED BY <2>1, <2>3, <2>4, <2>5 DEF Move
<1>3. CASE Wipe(i, s)
  <2>1. /\ TypeOK' /\ pc[i][s] = "wiping" /\ At(pc, pc', i, s, "wiped")
        /\ UNCHANGED <<rows, lease, cp, opLease, opTo, upTo, requested>>
    BY <1>3, WipeDoes
  <2>2. RowsMove(i, s) /\ OthersKept(i, s) /\ requested' <= MaxRequests
    BY <2>1, SameMove DEF OthersKept, At, ClaimsSound
  <2>3. EpochsFrom(i, s) /\ UnitsFrom(i, s)
    BY <2>1 DEF EpochsFrom, UnitsFrom, At, InCommit, InReset
  <2>4. LoopSound(i, s)'
    BY <1>0, <2>1
       DEF LoopSound, LeaseBehind, BatchAhead, FromCheckpoint, LockHeld, Owned, At, InCommit, InReset
  <2> QED BY <2>1, <2>2, <2>3, <2>4 DEF Move
<1> QED BY <1>1, <1>2, <1>3

\* Starting, stopping and dying keep the claims sound.
LEMMA ProcessKeeps ==
    ASSUME TypeOK, ClaimsSound, NEW i \in Instances, Start(i) \/ Stop(i) \/ Crash(i)
    PROVE  TypeOK' /\ ClaimsSound'
<1>1. /\ TypeOK'
      /\ \A j \in Instances, t \in Segments :
            pc'[j][t] = pc[j][t] \/ pc'[j][t] \in {"off", "claim"}
      /\ UNCHANGED <<rows, requested, lease, cp, opLease, opTo, upTo>>
  BY ProcessDoes
<1>2. \A s \in Segments : RowSound(s)'
  BY <1>1 DEF ClaimsSound, RowSound
<1>3. ASSUME NEW j \in Instances, NEW t \in Segments PROVE LoopSound(j, t)'
  <2>1. LeaseBehind(j, t) /\ BatchAhead(j, t) /\ FromCheckpoint(j, t) /\ LockHeld(j, t)
    BY Mine
  <2> QED BY <1>1, <2>1
       DEF LoopSound, LeaseBehind, BatchAhead, FromCheckpoint, LockHeld, Owned, InCommit, InReset
<1>4. EpochsDiffer'
  BY <1>1 DEF ClaimsSound, EpochsDiffer, Knows
<1>5. \A j \in Instances, t \in Segments :
         /\ pc'[j][t] \in InCommit => pc[j][t] \in InCommit
         /\ pc'[j][t] \in InReset => pc[j][t] \in InReset
  BY <1>1 DEF InCommit, InReset
<1>6. UnitsApart'
  BY <1>5 DEF ClaimsSound, UnitsApart
<1> QED BY <1>1, <1>2, <1>3, <1>4, <1>6 DEF ClaimsSound

\* So do the steps of no loop.
LEMMA AsideKeeps ==
    ASSUME TypeOK, ClaimsSound, Aside
    PROVE  TypeOK' /\ ClaimsSound'
<1>1. /\ TypeOK' /\ RowsKept /\ requested' \in 0..MaxRequests
      /\ UNCHANGED <<pc, lease, cp, opLease, opTo, upTo>>
  BY AsideDoes
<1>2. \A s \in Segments : RowSound(s)'
  BY <1>1 DEF ClaimsSound, RowSound, RowsKept, RowKept
<1>3. ASSUME NEW j \in Instances, NEW t \in Segments PROVE LoopSound(j, t)'
  <2>1. LeaseBehind(j, t) /\ BatchAhead(j, t) /\ FromCheckpoint(j, t) /\ LockHeld(j, t)
    BY Mine
  <2> QED BY <1>1, <2>1
       DEF LoopSound, LeaseBehind, BatchAhead, FromCheckpoint, LockHeld, Owned, RowsKept, RowKept
<1>4. EpochsDiffer' /\ UnitsApart'
  BY <1>1 DEF ClaimsSound, EpochsDiffer, Knows, UnitsApart
<1>5. requested' <= MaxRequests
  BY <1>1, RunnerAssumption
<1> QED BY <1>1, <1>2, <1>3, <1>4, <1>5 DEF ClaimsSound

\* One action of a loop.
LoopActs(i, s) == Step(i, s) \/ Failure(i, s) \/ ResetBegins(i, s) \/ (s = 0 /\ RebuildDue(i))

\* Every action of a loop is a move.
LEMMA LoopMoves ==
    ASSUME TypeOK, ClaimsSound, NEW i \in Instances, NEW s \in Segments, LoopActs(i, s)
    PROVE  TypeOK' /\ Move(i, s)
BY ClaimActions, RebuildActions, ClaimGrantedMoves, ReclaimMoves, CommitBeginsMoves, HandlerMoves,
   CommitEndsMoves, PublishMoves, SetStatusMoves, ResetMoves
   DEF LoopActs, Step, Failure

\* A step is an action of a loop, of a process, or of neither.
LEMMA NextSplit ==
    ASSUME [Next]_vars
    PROVE  \/ \E i \in Instances, s \in Segments : LoopActs(i, s)
           \/ \E i \in Instances : Start(i) \/ Stop(i) \/ Crash(i)
           \/ Aside
<1>1. 0 \in Segments
  BY StoreAssumption
<1> QED BY <1>1 DEF Next, LoopActs, Aside

\* The claims stay sound.
LEMMA ClaimsStep == TypeOK /\ ClaimsSound /\ [Next]_vars => TypeOK' /\ ClaimsSound'
<1> SUFFICES ASSUME TypeOK, ClaimsSound, [Next]_vars PROVE TypeOK' /\ ClaimsSound'
  OBVIOUS
<1>1. ASSUME NEW i \in Instances, NEW s \in Segments, LoopActs(i, s) PROVE TypeOK' /\ ClaimsSound'
  BY <1>1, LoopMoves, MoveKeeps
<1> QED BY <1>1, NextSplit, ProcessKeeps, AsideKeeps

-----------------------------------------------------------------------------
(***************************************************************************)
(* Where checkpoints and the read model move.                                *)
(***************************************************************************)
CheckpointsKept ==
    \A t \in Segments : rows'[t].pos = rows[t].pos /\ rows'[t].version = rows[t].version

\* Claims and heartbeats leave checkpoints alone.
LEMMA RowsStay ==
    ASSUME TypeOK, NEW i \in Instances, NEW s \in Segments,
           RowsKept \/ ClaimGoes(i, s) \/ ClaimDropped(i, s) \/ UNCHANGED rows
    PROVE  CheckpointsKept
BY DEF RowsKept, ClaimGoes, ClaimDropped, RowKept, CheckpointsKept

\* All actions of a loop but the two ends of a Commit and of a Reset.
QuietActs(i, s) ==
    \/ ClaimGranted(i, s) \/ ClaimRefused(i, s) \/ StepAside(i, s) \/ CommitBegins(i, s)
    \/ HandlerRuns(i, s) \/ Publish(i, s) \/ SetStatus(i, s) \/ Stall(i, s)
    \/ RebuildUpgrade(i, s) \/ Wipe(i, s) \/ Forget(i, s) \/ Reclaim(i, s) \/ Exit(i, s)
    \/ ClaimFails(i, s) \/ Shed(i, s) \/ HandlerFails(i, s) \/ WipeFails(i, s)
    \/ ResetBegins(i, s) \/ (s = 0 /\ RebuildDue(i))

\* They leave checkpoints and served requests alone, and what a transaction wrote.
LEMMA QuietDoes ==
    ASSUME TypeOK, ClaimsSound, NEW i \in Instances, NEW s \in Segments, QuietActs(i, s)
    PROVE  CheckpointsKept /\ UNCHANGED served /\ (Transactional => UNCHANGED model)
<1>1. CASE ClaimGranted(i, s) \/ ClaimRefused(i, s) \/ StepAside(i, s) \/ ClaimFails(i, s) \/ Shed(i, s)
  BY <1>1, ClaimGrantedDoes, ClaimRefusedDoes, StepAsideDoes, ClaimFailsDoes, ShedDoes, RowsStay
<1>2. CASE CommitBegins(i, s) \/ HandlerRuns(i, s) \/ Publish(i, s) \/ SetStatus(i, s) \/ HandlerFails(i, s)
  BY <1>2, CommitBeginsDoes, HandlerRunsDoes, PublishDoes, SetStatusDoes, HandlerFailsDoes, RowsStay
<1>3. CASE Stall(i, s) \/ RebuildUpgrade(i, s) \/ Wipe(i, s) \/ Forget(i, s) \/ Exit(i, s)
  BY <1>3, StallDoes, RebuildUpgradeDoes, WipeDoes, ForgetDoes, ExitDoes, RowsStay
<1>4. CASE Reclaim(i, s) \/ WipeFails(i, s) \/ ResetBegins(i, s) \/ (s = 0 /\ RebuildDue(i))
  BY <1>4, ReclaimDoes, WipeFailsDoes, ResetBeginsDoes, RebuildDueDoes, RowsStay
     DEF Reclaimed, ReclaimRefused
<1> QED BY <1>1, <1>2, <1>3, <1>4 DEF QuietActs

\* The other four move checkpoints.
LEMMA ActsSplit ==
    ASSUME NEW i \in Instances, NEW s \in Segments, LoopActs(i, s)
    PROVE  \/ QuietActs(i, s) \/ CommitEnds(i, s) \/ CommitFails(i, s)
           \/ ResetEnds(i, s) \/ ResetFails(i, s)
BY DEF LoopActs, QuietActs, Step, Failure

\* ExactlyOnce, when neither checkpoints nor the read model change,
LEMMA OnceKept ==
    ASSUME TypeOK, ExactlyOnce, CheckpointsKept, Transactional => UNCHANGED model
    PROVE  ExactlyOnce'
BY RunnerAssumption DEF ExactlyOnce, CheckpointsKept, Events

\* A transaction that commits moves the checkpoint over what it applied, from where it was.
LEMMA CommitApplies ==
    ASSUME TypeOK, ClaimsSound, NEW i \in Instances, NEW s \in Segments,
           Owned(i, s, opLease[i][s]), pc[i][s] = "written"
    PROVE  /\ cp[i][s] = rows[s].pos /\ cp[i][s] < opTo[i][s]
           /\ cp[i][s] \in Nat /\ opTo[i][s] \in Nat
           /\ Own(s, cp[i][s], opTo[i][s]) \in SUBSET Events
           /\ \A p \in Events : p \in Own(s, cp[i][s], opTo[i][s]) <=>
                  SegmentOf[p] = s /\ p > rows[s].pos /\ p <= opTo[i][s]
<1>1. cp[i][s] = rows[s].pos /\ cp[i][s] < opTo[i][s]
  BY Mine DEF FromCheckpoint, BatchAhead, InCommit
<1>2. cp[i][s] \in Nat /\ opTo[i][s] \in Nat
  BY LoopTypes
<1>3. Events \subseteq Nat
  BY DEF Events
<1> QED BY <1>1, <1>2, <1>3 DEF Own

\* when a Commit lands,
LEMMA OnceCommitted ==
    ASSUME TypeOK, ClaimsSound, ExactlyOnce, NEW i \in Instances, NEW s \in Segments,
           Owned(i, s, opLease[i][s]), pc[i][s] = "written", Moved(i, s, opTo[i][s]),
           Transactional => model' = Handled(i, Own(s, cp[i][s], opTo[i][s]))
    PROVE  ExactlyOnce'
<1> SUFFICES ASSUME Transactional, NEW p \in Events
             PROVE  model'[p].n = IF p <= rows'[SegmentOf[p]].pos THEN 1 ELSE 0
  BY DEF ExactlyOnce
<1> DEFINE ps == Own(s, cp[i][s], opTo[i][s])
<1>1. /\ cp[i][s] = rows[s].pos /\ cp[i][s] < opTo[i][s]
      /\ cp[i][s] \in Nat /\ opTo[i][s] \in Nat /\ ps \in SUBSET Events
      /\ p \in ps <=> SegmentOf[p] = s /\ p > rows[s].pos /\ p <= opTo[i][s]
  BY CommitApplies
<1>2. /\ p \in ps => (model[p].n = 0 => model'[p].n = 1)
      /\ p \notin ps => model'[p] = model[p]
  BY <1>1, HandledFacts
<1> HIDE DEF ps
<1>3. /\ model[p].n = IF p <= rows[SegmentOf[p]].pos THEN 1 ELSE 0
      /\ SegmentOf[p] \in Segments /\ p \in Nat
  BY RunnerAssumption DEF ExactlyOnce, Events
<1>4. CASE SegmentOf[p] # s
  BY <1>1, <1>2, <1>3, <1>4 DEF Moved, RowKept
<1>5. CASE SegmentOf[p] = s
  BY <1>1, <1>2, <1>3, <1>5 DEF Moved
<1> QED BY <1>4, <1>5

\* and when a Reset does.
LEMMA OnceReset ==
    ASSUME TypeOK, NEW i \in Instances, NEW s \in Segments, AllReset(i, s),
           Transactional => model' = Empty
    PROVE  ExactlyOnce'
<1> SUFFICES ASSUME Transactional, NEW p \in Events
             PROVE  model'[p].n = IF p <= rows'[SegmentOf[p]].pos THEN 1 ELSE 0
  BY DEF ExactlyOnce
<1>1. model'[p].n = 0 /\ SegmentOf[p] \in Segments /\ p \in Nat /\ p > 0
  BY RunnerAssumption, EmptyFacts DEF Events
<1> QED BY <1>1 DEF AllReset

\* Every step keeps ExactlyOnce.
LEMMA OnceStep == IInv /\ [Next]_vars => ExactlyOnce'
<1> SUFFICES ASSUME TypeOK, ClaimsSound, ExactlyOnce, [Next]_vars PROVE ExactlyOnce'
  BY DEF IInv
<1>1. ASSUME NEW i \in Instances, NEW s \in Segments, LoopActs(i, s) PROVE ExactlyOnce'
  <2>1. CASE QuietActs(i, s)
    BY <2>1, QuietDoes, OnceKept
  <2>2. CASE CommitEnds(i, s) /\ Owned(i, s, opLease[i][s])
    BY <2>2, CommitEndsDoes, OnceCommitted
  <2>3. CASE CommitEnds(i, s) /\ ~Owned(i, s, opLease[i][s])
    BY <2>3, CommitEndsDoes, OnceKept, RowsStay
  <2>4. CASE CommitFails(i, s)
    <3>1. Owned(i, s, opLease[i][s])
      BY <2>4, CommitFailsDoes, Mine DEF LockHeld, InCommit
    <3> QED BY <2>4, <3>1, CommitFailsDoes, OnceCommitted, OnceKept, RowsStay
  <2>5. CASE ResetEnds(i, s) /\ Owned(i, s, opLease[i][s])
    BY <2>5, ResetEndsDoes, OnceReset
  <2>6. CASE ResetEnds(i, s) /\ ~Owned(i, s, opLease[i][s])
    BY <2>6, ResetEndsDoes, OnceKept, RowsStay
  <2>7. CASE ResetFails(i, s)
    BY <2>7, ResetFailsDoes, OnceReset, OnceKept, RowsStay
  <2> QED BY <1>1, <2>1, <2>2, <2>3, <2>4, <2>5, <2>6, <2>7, ActsSplit
<1>2. ASSUME NEW i \in Instances, Start(i) \/ Stop(i) \/ Crash(i) PROVE ExactlyOnce'
  BY <1>2, ProcessDoes, OnceKept DEF CheckpointsKept
<1>3. CASE Aside
  BY <1>3, AsideDoes, OnceKept DEF CheckpointsKept, RowsKept, RowKept
<1> QED BY <1>1, <1>2, <1>3, NextSplit

\* The invariant holds at first.
LEMMA InitIInv == Init => IInv
<1> SUFFICES ASSUME Init PROVE IInv
  OBVIOUS
<1>0. /\ MaxHead \in Nat /\ MaxRequests \in Nat /\ MaxFaults \in Nat
      /\ 0 \in 0..MaxHead /\ 0 \in 0..MaxRequests /\ 0 \in 0..MaxFaults
  BY RunnerAssumption
<1>1. /\ rows \in [Segments -> Row] /\ requested = 0 /\ served = 0 /\ failed = 0
      /\ \A s \in Segments : rows[s].pos = 0 /\ rows[s].owner = None /\ rows[s].epoch = 0
                              /\ rows[s].version = 0
  BY DEF Init, StoreInit, Row
<1>2. \A i \in Instances, s \in Segments :
         /\ pc[i][s] = "off" /\ lease[i][s] = 0 /\ opLease[i][s] = 0
         /\ mem[i][s].pos = 0 /\ cp[i][s] = 0 /\ opTo[i][s] = 0 /\ upTo[i][s] = 0
  BY DEF Init, PerLoop
<1>3. TypeOK
  <2>1. OtherTypes
    <3>1. mem \in [Instances -> [Segments -> MemRecord]]
      BY <1>0 DEF Init, PerLoop, MemRecord
    <3>2. serving \in [Instances -> [Segments -> 0..MaxRequests]]
      BY <1>0 DEF Init, PerLoop
    <3>3. /\ up \in [Instances -> {"new", "up", "stopping", "down"}]
          /\ resetting \in [Instances -> BOOLEAN]
          /\ head \in 0..MaxHead /\ faults \in 0..MaxFaults /\ model = Empty
      BY <1>0 DEF Init
    <3> QED BY <1>1, <3>1, <3>2, <3>3, EmptyFacts DEF OtherTypes
  <2>2. ClaimTypes
    BY <1>0, <1>1 DEF Init, PerLoop, PCs, ClaimTypes, LoopNats, LoopPositions
  <2> QED BY <2>1, <2>2, TypesSplit
<1>4. ClaimsSound
  <2>1. \A s \in Segments : RowSound(s)
    BY <1>0, <1>1 DEF RowSound
  <2>2. \A i \in Instances, s \in Segments : LoopSound(i, s)
    BY <1>1, <1>2
       DEF LoopSound, LeaseBehind, BatchAhead, FromCheckpoint, LockHeld, InCommit, InReset
  <2>3. EpochsDiffer /\ UnitsApart
    BY <1>2 DEF EpochsDiffer, Knows, UnitsApart, InCommit, InReset
  <2> QED BY <1>0, <1>1, <2>1, <2>2, <2>3 DEF ClaimsSound
<1>5. ExactlyOnce
  <2>1. \A p \in Events : SegmentOf[p] \in Segments /\ p \in Nat /\ p > 0
    BY RunnerAssumption DEF Events
  <2>2. \A p \in Events : model[p].n = 0
    BY EmptyFacts DEF Init
  <2> QED BY <1>1, <2>1, <2>2 DEF ExactlyOnce
<1> QED BY <1>3, <1>4, <1>5 DEF IInv

(***************************************************************************)
(* The invariant holds in every reachable state.                             *)
(***************************************************************************)
THEOREM Inductive == Spec => []IInv
<1>1. IInv /\ [Next]_vars => IInv'
  BY ClaimsStep, OnceStep DEF IInv
<1> QED BY InitIInv, <1>1, PTL DEF Spec

(***************************************************************************)
(* Types, and with them the bounds on positions and requests.                *)
(***************************************************************************)
THEOREM TypeCorrect == Spec => []TypeOK
<1>1. IInv => TypeOK
  BY DEF IInv
<1> QED BY Inductive, <1>1, PTL

(***************************************************************************)
(* Over a transactional store every event is applied exactly once: whoever   *)
(* shares an Owner, pauses beyond its claim, crashes, retries or loses an    *)
(* answer, and whenever a rebuild wipes the read model.                      *)
(***************************************************************************)
THEOREM AppliedOnce == Spec => []ExactlyOnce
<1>1. IInv => ExactlyOnce
  BY DEF IInv
<1> QED BY Inductive, <1>1, PTL

-----------------------------------------------------------------------------
(***************************************************************************)
(* Which action takes a loop where, for the invariants of one store or one   *)
(* deployment below.                                                         *)
(***************************************************************************)
Arrives(i, s, w) ==
    CASE w \in {"aside", "upgrade"} -> ClaimGranted(i, s) /\ w = AfterClaim(i, s)
      [] w = "work" -> \/ ClaimGranted(i, s) /\ w = AfterClaim(i, s)
                       \/ Reclaim(i, s) /\ Reclaimed(i, s)
                       \/ SetStatus(i, s) \/ HandlerFails(i, s)
      [] w = "commit" -> CommitBegins(i, s) /\ Owned(i, s, lease[i][s])
      [] w = "written" -> HandlerRuns(i, s)
      [] w = "committed" -> Publish(i, s) \/ (CommitEnds(i, s) /\ Owned(i, s, opLease[i][s]))
      [] w = "lockwait" -> RebuildUpgrade(i, s) \/ (s = 0 /\ RebuildDue(i))
      [] w = "wiping" -> ResetBegins(i, s) /\ Owned(i, s, opLease[i][s])
      [] w = "wiped" -> Wipe(i, s)
      [] w = "reset" -> ResetEnds(i, s) /\ Owned(i, s, opLease[i][s])
      [] w = "reclaim" -> Forget(i, s)
      [] w \in {"off", "claim", "stalled"} -> TRUE

\* Claims, releases, sheds and stalls.
LEMMA ArrivesClaim ==
    ASSUME TypeOK, ClaimsSound, NEW i \in Instances, NEW s \in Segments,
           \/ ClaimGranted(i, s) \/ ClaimRefused(i, s) \/ StepAside(i, s) \/ Stall(i, s)
           \/ Exit(i, s) \/ ClaimFails(i, s) \/ Shed(i, s)
    PROVE  Arrives(i, s, pc'[i][s]) /\ pc[i][s] # "off"
<1>1. CASE ClaimGranted(i, s)
  <2>1. pc[i][s] = "claim" /\ pc'[i][s] = AfterClaim(i, s)
    BY <1>1, ClaimGrantedDoes DEF At
  <2>2. AfterClaim(i, s) \in {"aside", "upgrade", "work"}
    BY DEF AfterClaim
  <2> QED BY <1>1, <2>1, <2>2 DEF Arrives
<1>2. CASE ClaimRefused(i, s) \/ ClaimFails(i, s)
  BY <1>2, ClaimRefusedDoes, ClaimFailsDoes DEF Arrives
<1>3. CASE StepAside(i, s) \/ Stall(i, s) \/ Exit(i, s) \/ Shed(i, s)
  <2>1. pc'[i][s] \in {"off", "claim"} /\ pc[i][s] # "off"
    BY <1>3, StepAsideDoes, StallDoes, ExitDoes, ShedDoes DEF At
  <2> QED BY <2>1 DEF Arrives
<1> QED BY <1>1, <1>2, <1>3

\* Batches and publications.
LEMMA ArrivesWork ==
    ASSUME TypeOK, ClaimsSound, NEW i \in Instances, NEW s \in Segments,
           \/ CommitBegins(i, s) \/ HandlerRuns(i, s) \/ HandlerFails(i, s) \/ CommitEnds(i, s)
           \/ CommitFails(i, s) \/ Publish(i, s) \/ SetStatus(i, s)
    PROVE  Arrives(i, s, pc'[i][s]) /\ pc[i][s] # "off"
<1>1. CASE CommitBegins(i, s)
  <2>1. pc[i][s] # "off" /\ pc'[i][s] = IF Owned(i, s, lease[i][s]) THEN "commit" ELSE "claim"
    BY <1>1, CommitBeginsDoes DEF At
  <2> QED BY <1>1, <2>1 DEF Arrives
<1>2. CASE HandlerRuns(i, s)
  <2>1. pc[i][s] # "off" /\ pc'[i][s] = "written"
    BY <1>2, HandlerRunsDoes DEF At
  <2> QED BY <1>2, <2>1 DEF Arrives
<1>3. CASE HandlerFails(i, s)
  <2>1. pc[i][s] # "off" /\ pc'[i][s] \in {"work", "stalled"}
    BY <1>3, HandlerFailsDoes DEF At
  <2> QED BY <1>3, <2>1 DEF Arrives
<1>4. CASE CommitEnds(i, s)
  <2>1. pc[i][s] # "off" /\ pc'[i][s] = IF Owned(i, s, opLease[i][s]) THEN "committed" ELSE "claim"
    BY <1>4, CommitEndsDoes DEF At
  <2> QED BY <1>4, <2>1 DEF Arrives
<1>5. CASE CommitFails(i, s)
  <2>1. pc[i][s] # "off" /\ pc'[i][s] = "stalled"
    BY <1>5, CommitFailsDoes DEF At
  <2> QED BY <1>5, <2>1 DEF Arrives
<1>6. CASE Publish(i, s)
  <2>1. pc[i][s] # "off" /\ pc'[i][s] \in {"committed", "claim"}
    BY <1>6, PublishDoes DEF At
  <2> QED BY <1>6, <2>1 DEF Arrives
<1>7. CASE SetStatus(i, s)
  <2>1. pc[i][s] # "off" /\ pc'[i][s] = "work"
    BY <1>7, SetStatusDoes DEF At
  <2> QED BY <1>7, <2>1 DEF Arrives
<1> QED BY <1>1, <1>2, <1>3, <1>4, <1>5, <1>6, <1>7

\* Rebuilds.
LEMMA ArrivesRebuild ==
    ASSUME TypeOK, ClaimsSound, NEW i \in Instances, NEW s \in Segments,
           \/ RebuildUpgrade(i, s) \/ (s = 0 /\ RebuildDue(i)) \/ ResetBegins(i, s) \/ Wipe(i, s)
           \/ WipeFails(i, s) \/ ResetEnds(i, s) \/ ResetFails(i, s) \/ Forget(i, s) \/ Reclaim(i, s)
    PROVE  Arrives(i, s, pc'[i][s]) /\ pc[i][s] # "off"
<1>1. CASE RebuildUpgrade(i, s) \/ (s = 0 /\ RebuildDue(i))
  <2>1. pc[i][s] # "off" /\ pc'[i][s] = "lockwait"
    BY <1>1, RebuildUpgradeDoes, RebuildDueDoes DEF At
  <2> QED BY <1>1, <2>1 DEF Arrives
<1>2. CASE ResetBegins(i, s)
  <2>1. pc[i][s] # "off" /\ pc'[i][s] = IF Owned(i, s, opLease[i][s]) THEN "wiping" ELSE "claim"
    BY <1>2, ResetBeginsDoes DEF At
  <2> QED BY <1>2, <2>1 DEF Arrives
<1>3. CASE Wipe(i, s)
  <2>1. pc[i][s] # "off" /\ pc'[i][s] = "wiped"
    BY <1>3, WipeDoes DEF At
  <2> QED BY <1>3, <2>1 DEF Arrives
<1>4. CASE WipeFails(i, s) \/ ResetFails(i, s)
  <2>1. pc[i][s] # "off" /\ pc'[i][s] = "stalled"
    BY <1>4, WipeFailsDoes, ResetFailsDoes DEF At
  <2> QED BY <2>1 DEF Arrives
<1>5. CASE ResetEnds(i, s)
  <2>1. pc[i][s] # "off" /\ pc'[i][s] = IF Owned(i, s, opLease[i][s]) THEN "reset" ELSE "claim"
    BY <1>5, ResetEndsDoes DEF At
  <2> QED BY <1>5, <2>1 DEF Arrives
<1>6. CASE Forget(i, s)
  <2>1. pc[i][s] # "off" /\ pc'[i][s] = "reclaim"
    BY <1>6, ForgetDoes DEF At
  <2> QED BY <1>6, <2>1 DEF Arrives
<1>7. CASE Reclaim(i, s)
  <2>1. /\ pc[i][s] # "off"
        /\ (pc'[i][s] = "work" /\ Reclaimed(i, s)) \/ pc'[i][s] = "claim"
    BY <1>7, ReclaimDoes DEF At, Reclaimed, ReclaimRefused
  <2> QED BY <1>7, <2>1 DEF Arrives
<1> QED BY <1>1, <1>2, <1>3, <1>4, <1>5, <1>6, <1>7

\* Where an action takes its loop; no loop that is off acts.
LEMMA Arrival ==
    ASSUME TypeOK, ClaimsSound, NEW i \in Instances, NEW s \in Segments, LoopActs(i, s)
    PROVE  Arrives(i, s, pc'[i][s]) /\ pc[i][s] # "off"
BY ArrivesClaim, ArrivesWork, ArrivesRebuild DEF LoopActs, Step, Failure

\* With one Version, no loop steps aside or upgrades.
LEMMA NoUpgradeStep ==
    ASSUME IInv, NoUpgrade, OneVersion, [Next]_vars
    PROVE  NoUpgrade'
<1>0. TypeOK /\ ClaimsSound
  BY DEF IInv
<1>1. \A j \in Instances : Version[j] \in Nat
  BY RunnerAssumption
<1>2. ASSUME CheckpointsKept,
             \A j \in Instances, t \in Segments :
                pc'[j][t] = pc[j][t] \/ pc'[j][t] \notin {"aside", "upgrade"}
      PROVE  NoUpgrade'
  BY <1>2 DEF NoUpgrade, CheckpointsKept
<1>3. ASSUME NEW i \in Instances, NEW s \in Segments, LoopActs(i, s) PROVE NoUpgrade'
  <2>1. OthersKept(i, s) /\ Arrives(i, s, pc'[i][s])
    BY <1>0, <1>3, LoopMoves, Arrival DEF Move
  <2>2. AfterClaim(i, s) = "work"
    <3>1. /\ rows[s].version = Version[i] \/ (rows[s].version = 0 /\ rows[s].pos = 0)
          /\ Version[i] \in Nat
      BY <1>1 DEF NoUpgrade
    <3> QED BY <3>1 DEF AfterClaim
  <2>3. pc'[i][s] \notin {"aside", "upgrade"}
    BY <2>1, <2>2 DEF Arrives
  <2>4. ASSUME NEW j \in Instances, NEW t \in Segments
        PROVE  pc'[j][t] = pc[j][t] \/ pc'[j][t] \notin {"aside", "upgrade"}
    BY <2>1, <2>3 DEF OthersKept
  <2>5. \A j \in Instances : Version[j] = Version[i]
    BY DEF OneVersion
  <2>6. CASE CheckpointsKept
    BY <1>2, <2>4, <2>6
  <2>7. CASE Moved(i, s, opTo[i][s]) \/ AllReset(i, s)
    <3>1. \A j \in Instances, t \in Segments :
             rows'[t].version = Version[j] \/ (rows'[t].version = 0 /\ rows'[t].pos = 0)
      BY <2>5, <2>7 DEF Moved, AllReset, RowKept, NoUpgrade
    <3> QED BY <2>4, <3>1 DEF NoUpgrade
  <2> QED BY <1>0, <1>3, <2>6, <2>7, ActsSplit, QuietDoes, CommitEndsDoes, CommitFailsDoes,
              ResetEndsDoes, ResetFailsDoes, RowsStay
<1>4. ASSUME NEW i \in Instances, Start(i) \/ Stop(i) \/ Crash(i) PROVE NoUpgrade'
  BY <1>0, <1>2, <1>4, ProcessDoes DEF CheckpointsKept
<1>5. CASE Aside
  BY <1>0, <1>2, <1>5, AsideDoes DEF CheckpointsKept, RowsKept, RowKept
<1> QED BY <1>3, <1>4, <1>5, NextSplit

-----------------------------------------------------------------------------
(***************************************************************************)
(* The memory store: what a handler or a wipe wrote stays.                   *)
(***************************************************************************)
ModelGrows == \A p \in Events : model[p].n > 0 => model'[p].n > 0

\* Only a Reset serves requests, and only a wipe takes events out.
LEMMA LoopWrites ==
    ASSUME TypeOK, ClaimsSound, ~Transactional, NEW i \in Instances, NEW s \in Segments,
           LoopActs(i, s)
    PROVE  /\ requested' = requested
           /\ served' = served \/ (ResetEnds(i, s) /\ Owned(i, s, opLease[i][s]))
           /\ pc[i][s] = "wiping" \/ ModelGrows
<1>1. CASE \/ ClaimGranted(i, s) \/ ClaimRefused(i, s) \/ StepAside(i, s) \/ ClaimFails(i, s)
           \/ Shed(i, s) \/ Stall(i, s) \/ Exit(i, s)
  BY <1>1, ClaimGrantedDoes, ClaimRefusedDoes, StepAsideDoes, ClaimFailsDoes, ShedDoes, StallDoes,
     ExitDoes DEF ModelGrows
<1>2. CASE CommitBegins(i, s) \/ Publish(i, s) \/ SetStatus(i, s) \/ CommitEnds(i, s) \/ CommitFails(i, s)
  BY <1>2, CommitBeginsDoes, PublishDoes, SetStatusDoes, CommitEndsDoes, CommitFailsDoes DEF ModelGrows
<1>3. CASE HandlerRuns(i, s)
  <2>1. /\ model' = Handled(i, Own(s, cp[i][s], opTo[i][s])) /\ UNCHANGED <<requested, served>>
        /\ Own(s, cp[i][s], opTo[i][s]) \in SUBSET Events
    BY <1>3, HandlerRunsDoes DEF Own
  <2> QED BY <2>1, HandledFacts DEF ModelGrows
<1>4. CASE HandlerFails(i, s)
  <2>1. UNCHANGED <<requested, served>> /\ \E ps \in SUBSET Events : model' = Handled(i, ps)
    BY <1>4, HandlerFailsDoes
  <2> QED BY <2>1, HandledFacts DEF ModelGrows
<1>5. CASE Wipe(i, s) \/ WipeFails(i, s)
  BY <1>5, WipeDoes, WipeFailsDoes
<1>6. CASE \/ RebuildUpgrade(i, s) \/ (s = 0 /\ RebuildDue(i)) \/ ResetBegins(i, s)
           \/ Forget(i, s) \/ Reclaim(i, s)
  BY <1>6, RebuildUpgradeDoes, RebuildDueDoes, ResetBeginsDoes, ForgetDoes, ReclaimDoes DEF ModelGrows
<1>7. CASE ResetEnds(i, s) \/ ResetFails(i, s)
  BY <1>7, ResetEndsDoes, ResetFailsDoes DEF ModelGrows
<1> QED BY <1>1, <1>2, <1>3, <1>4, <1>5, <1>6, <1>7 DEF LoopActs, Step, Failure

\* A loop on its way to a wipe still has a request to serve, or has lost its claim.
LEMMA WipeStaysDue ==
    ASSUME TypeOK, ClaimsSound, MemoryInv, ~Transactional, NEW i \in Instances, NEW s \in Segments,
           LoopActs(i, s)
    PROVE  WipeIsDue'
<1>1. /\ OthersKept(i, s) /\ RowsMove(i, s) /\ Arrives(i, s, pc'[i][s]) /\ requested' = requested
      /\ served' = served \/ (ResetEnds(i, s) /\ Owned(i, s, opLease[i][s]))
  BY LoopMoves, Arrival, LoopWrites DEF Move
<1> SUFFICES ASSUME NEW j \in Instances, NEW t \in Segments,
                    \/ pc'[j][t] \in InReset
                    \/ pc'[j][t] = "lockwait" /\ Owned(j, t, opLease[j][t])'
             PROVE  requested' > served'
  BY DEF WipeIsDue
<1>3. CASE j = i /\ t = s
  <2>1. CASE pc'[i][s] = "lockwait"
    <3>1. s = 0 /\ RebuildDue(i)
      BY <1>1, <2>1, RebuildUpgradeDoes DEF Arrives, MemoryInv, NoUpgrade
    <3> QED BY <3>1, RebuildDueDoes
  <2>2. CASE pc'[i][s] = "wiping"
    <3>1. ResetBegins(i, s) /\ Owned(i, s, opLease[i][s])
      BY <1>1, <2>2 DEF Arrives
    <3> QED BY <3>1, ResetBeginsDoes DEF MemoryInv, WipeIsDue
  <2>3. CASE pc'[i][s] = "wiped"
    <3>1. Wipe(i, s)
      BY <1>1, <2>3 DEF Arrives
    <3> QED BY <3>1, WipeDoes DEF MemoryInv, WipeIsDue, InReset
  <2> QED BY <1>3, <2>1, <2>2, <2>3 DEF InReset
<1>4. CASE j # i \/ t # s
  <2>1. pc'[j][t] = pc[j][t] /\ opLease'[j][t] = opLease[j][t]
    BY <1>1, <1>4 DEF OthersKept, InReset
  <2>2. CASE ResetEnds(i, s) /\ Owned(i, s, opLease[i][s])
    <3>1. pc[i][s] = "wiped" /\ AllReset(i, s)
      BY <2>2, ResetEndsDoes
    <3>2. pc[j][t] \notin InReset
      BY <1>4, <3>1 DEF ClaimsSound, UnitsApart, InReset
    <3>3. Owner[j] # None /\ opLease[i][s] \in Nat /\ Knows(i, s, opLease[i][s])
      BY LoopTypes DEF Knows
    <3>4. t = s => ~Owned(j, s, opLease[j][s])
      BY <1>4, <2>2, <3>3, OneClaimant
    <3>5. ~Owned(j, t, opLease[j][t])'
      BY <2>1, <3>1, <3>3, <3>4 DEF Owned, AllReset
    <3> QED BY <2>1, <3>2, <3>5
  <2>3. CASE served' = served
    <3>1. CASE pc[j][t] \in InReset
      BY <1>1, <2>3, <3>1 DEF MemoryInv, WipeIsDue
    <3>2. CASE pc[j][t] = "lockwait" /\ Owned(j, t, opLease[j][t])'
      <4>1. RowKept(t)
        BY <1>1, <1>4, <2>1, <3>2 DEF RowsMove, Taken, Owned
      <4>2. Owned(j, t, opLease[j][t])
        BY <2>1, <3>2, <4>1 DEF RowKept, Owned
      <4> QED BY <1>1, <2>3, <3>2, <4>2 DEF MemoryInv, WipeIsDue
    <3> QED BY <2>1, <3>1, <3>2
  <2> QED BY <1>1, <2>2, <2>3
<1> QED BY <1>3, <1>4

\* No wipe comes between the handler and the end of its Commit.
LEMMA WrittenStays ==
    ASSUME TypeOK, ClaimsSound, MemoryInv, ~Transactional, NEW i \in Instances, NEW s \in Segments,
           LoopActs(i, s)
    PROVE  WrittenIsThere'
<1>1. /\ OthersKept(i, s) /\ Arrives(i, s, pc'[i][s])
      /\ pc[i][s] = "wiping" \/ ModelGrows
  BY LoopMoves, Arrival, LoopWrites DEF Move
<1> SUFFICES ASSUME NEW j \in Instances, NEW t \in Segments, pc'[j][t] = "written",
                    NEW p \in Own(t, cp'[j][t], opTo'[j][t])
             PROVE  model'[p].n > 0
  BY DEF WrittenIsThere, Own
<1>2. p \in Events
  BY DEF Own
<1>3. CASE j = i /\ t = s
  <2>1. HandlerRuns(i, s)
    BY <1>1, <1>3 DEF Arrives
  <2>2. /\ cp' = cp /\ opTo' = opTo /\ model' = Handled(i, Own(s, cp[i][s], opTo[i][s]))
        /\ Own(s, cp[i][s], opTo[i][s]) \in SUBSET Events
    BY <2>1, HandlerRunsDoes DEF Own
  <2> QED BY <1>3, <2>2, HandledFacts
<1>4. CASE j # i \/ t # s
  <2>1. pc[j][t] = "written" /\ cp'[j][t] = cp[j][t] /\ opTo'[j][t] = opTo[j][t]
    BY <1>1, <1>4 DEF OthersKept
  <2>2. pc[i][s] # "wiping"
    BY <1>4, <2>1 DEF ClaimsSound, UnitsApart, InReset, InCommit
  <2>3. model[p].n > 0
    BY <2>1 DEF MemoryInv, WrittenIsThere
  <2> QED BY <1>1, <1>2, <2>2, <2>3 DEF ModelGrows
<1> QED BY <1>3, <1>4

\* NothingMissing, when checkpoints stay and the read model grows.
LEMMA MissingKept ==
    ASSUME NothingMissing, requested = served, CheckpointsKept, ModelGrows
    PROVE  NothingMissing'
BY RunnerAssumption DEF NothingMissing, CheckpointsKept, ModelGrows, Events

\* No action of a loop makes an event go missing.
LEMMA NothingGoesMissing ==
    ASSUME TypeOK, ClaimsSound, MemoryInv, ~Transactional, NEW i \in Instances, NEW s \in Segments,
           LoopActs(i, s)
    PROVE  NothingMissing'
<1>1. /\ requested' = requested /\ (pc[i][s] = "wiping" \/ ModelGrows)
  BY LoopWrites
<1>2. ASSUME CheckpointsKept, UNCHANGED served PROVE NothingMissing'
  <2>1. CASE requested = served
    <3>1. pc[i][s] # "wiping" /\ NothingMissing
      BY <2>1 DEF MemoryInv, WipeIsDue, InReset, TypeOK, StoreTypeOK
    <3> QED BY <1>1, <1>2, <2>1, <3>1, MissingKept
  <2>2. CASE requested # served
    BY <1>1, <1>2, <2>2 DEF NothingMissing
  <2> QED BY <2>1, <2>2
<1>3. CASE QuietActs(i, s)
  BY <1>2, <1>3, QuietDoes
<1>4. CASE CommitEnds(i, s) /\ ~Owned(i, s, opLease[i][s])
  BY <1>2, <1>4, CommitEndsDoes, RowsStay
<1>5. CASE CommitEnds(i, s) /\ Owned(i, s, opLease[i][s])
  <2>1. /\ Moved(i, s, opTo[i][s]) /\ pc[i][s] = "written" /\ UNCHANGED <<served, model>>
    BY <1>5, CommitEndsDoes
  <2> SUFFICES ASSUME requested = served, NEW p \in Events, p <= rows'[SegmentOf[p]].pos
               PROVE  model[p].n > 0
    BY <1>1, <2>1 DEF NothingMissing
  <2>2. SegmentOf[p] \in Segments /\ p \in Nat /\ rows[SegmentOf[p]].pos \in Nat
    BY RunnerAssumption, LoopTypes DEF Events
  <2>3. p \in Own(s, cp[i][s], opTo[i][s]) <=> SegmentOf[p] = s /\ p > rows[s].pos /\ p <= opTo[i][s]
    BY <1>5, <2>1, CommitApplies
  <2>4. CASE p <= rows[SegmentOf[p]].pos
    BY <2>4 DEF MemoryInv, NothingMissing
  <2>5. CASE p > rows[SegmentOf[p]].pos
    <3>1. SegmentOf[p] = s
      BY <2>1, <2>2, <2>5 DEF Moved, RowKept
    <3>2. p \in Own(s, cp[i][s], opTo[i][s])
      BY <2>1, <2>3, <2>5, <3>1 DEF Moved
    <3> QED BY <2>1, <3>2 DEF MemoryInv, WrittenIsThere
  <2> QED BY <2>2, <2>4, <2>5
<1>6. CASE ResetEnds(i, s) /\ ~Owned(i, s, opLease[i][s])
  BY <1>2, <1>6, ResetEndsDoes, RowsStay
<1>7. CASE ResetEnds(i, s) /\ Owned(i, s, opLease[i][s])
  <2>1. \A p \in Events : rows'[SegmentOf[p]].pos = 0 /\ p \in Nat /\ p > 0
    BY <1>7, ResetEndsDoes, RunnerAssumption DEF AllReset, Events
  <2> QED BY <2>1 DEF NothingMissing
<1>8. CASE CommitFails(i, s) \/ ResetFails(i, s)
  BY <1>8, CommitFailsDoes, ResetFailsDoes
<1> QED BY <1>3, <1>4, <1>5, <1>6, <1>7, <1>8, ActsSplit

\* Every step keeps MemoryInv.
LEMMA MemoryStep ==
    ASSUME IInv, MemoryInv, ~Transactional, OneVersion, [Next]_vars
    PROVE  MemoryInv'
<1>0. TypeOK /\ ClaimsSound /\ requested \in Nat /\ served \in Nat /\ served <= requested
  BY DEF IInv, TypeOK, StoreTypeOK, MemoryInv
<1>1. NoUpgrade'
  BY NoUpgradeStep DEF MemoryInv
<1>2. ASSUME NEW i \in Instances, NEW s \in Segments, LoopActs(i, s) PROVE MemoryInv'
  <2>1. served' <= requested'
    BY <1>0, <1>2, LoopWrites, ResetEndsDoes
  <2> QED BY <1>0, <1>1, <1>2, <2>1, WipeStaysDue, WrittenStays, NothingGoesMissing DEF MemoryInv
<1>3. ASSUME UNCHANGED <<served, model, cp, opLease, opTo>>, RowsKept, requested' \in Nat,
             requested' >= requested,
             \A j \in Instances, t \in Segments :
                pc'[j][t] = pc[j][t] \/ pc'[j][t] \in {"off", "claim"}
      PROVE  MemoryInv'
  <2>1. WipeIsDue'
    <3> SUFFICES ASSUME NEW j \in Instances, NEW t \in Segments,
                        \/ pc'[j][t] \in InReset
                        \/ pc'[j][t] = "lockwait" /\ Owned(j, t, opLease[j][t])'
                 PROVE  requested' > served'
      BY DEF WipeIsDue
    <3>1. pc'[j][t] = pc[j][t] /\ (Owned(j, t, opLease[j][t])' <=> Owned(j, t, opLease[j][t]))
      BY <1>3 DEF RowsKept, RowKept, Owned, InReset
    <3>2. requested > served
      BY <3>1 DEF MemoryInv, WipeIsDue
    <3> QED BY <1>0, <1>3, <3>2
  <2>2. WrittenIsThere'
    BY <1>3 DEF MemoryInv, WrittenIsThere, Own
  <2>3. NothingMissing'
    <3>1. CASE requested' = served'
      <4>1. requested = served
        BY <1>0, <1>3, <3>1
      <4> QED BY <1>3, <4>1, MissingKept DEF MemoryInv, CheckpointsKept, ModelGrows, RowsKept, RowKept
    <3>2. CASE requested' # served'
      BY <3>2 DEF NothingMissing
    <3> QED BY <3>1, <3>2
  <2>4. served' <= requested'
    BY <1>0, <1>3
  <2> QED BY <1>1, <2>1, <2>2, <2>3, <2>4 DEF MemoryInv
<1>4. ASSUME NEW i \in Instances, Start(i) \/ Stop(i) \/ Crash(i) PROVE MemoryInv'
  <2>1. /\ \A j \in Instances, t \in Segments :
              pc'[j][t] = pc[j][t] \/ pc'[j][t] \in {"off", "claim"}
        /\ UNCHANGED <<rows, requested, served, model, cp, opLease, opTo>>
    BY <1>0, <1>4, ProcessDoes
  <2>2. RowsKept
    BY <1>0, <2>1 DEF RowsKept, RowKept, TypeOK, StoreTypeOK
  <2> QED BY <1>0, <1>3, <2>1, <2>2
<1>5. CASE Aside
  BY <1>0, <1>3, <1>5, AsideDoes
<1> QED BY <1>2, <1>4, <1>5, NextSplit

(***************************************************************************)
(* No event that a checkpoint has passed is missing from the read model      *)
(* unless a rebuild is due: over a transactional store whoever runs, and     *)
(* over the memory store, whose runners are of one process, whenever claims  *)
(* expire, handlers fail half way through a batch and wipes half way through *)
(* a rebuild (memory/projection_store.go, Commit and Reset).                 *)
(***************************************************************************)
THEOREM NothingIsMissing == Transactional \/ OneVersion => (Spec => []NothingMissing)
<1>1. ASSUME Transactional PROVE Spec => []NothingMissing
  <2>1. IInv => NothingMissing
    <3> SUFFICES ASSUME TypeOK, ExactlyOnce PROVE NothingMissing
      BY DEF IInv
    <3> QED BY <1>1, RunnerAssumption DEF ExactlyOnce, NothingMissing
  <2> QED BY Inductive, <2>1, PTL
<1>2. ASSUME ~Transactional, OneVersion PROVE Spec => []NothingMissing
  <2>1. Init => MemoryInv
    <3> SUFFICES ASSUME Init PROVE MemoryInv
      OBVIOUS
    <3>1. /\ requested = 0 /\ served = 0
          /\ \A s \in Segments : rows[s].pos = 0 /\ rows[s].version = 0
          /\ \A i \in Instances, s \in Segments : pc[i][s] = "off"
      BY DEF Init, StoreInit, PerLoop
    <3>2. \A p \in Events : SegmentOf[p] \in Segments /\ p \in Nat /\ p > 0
      BY RunnerAssumption DEF Events
    <3>3. NoUpgrade /\ WipeIsDue /\ WrittenIsThere
      BY <3>1 DEF NoUpgrade, WipeIsDue, WrittenIsThere, InReset
    <3>4. NothingMissing
      BY <3>1, <3>2 DEF NothingMissing
    <3> QED BY <3>1, <3>3, <3>4 DEF MemoryInv
  <2>2. IInv /\ MemoryInv /\ [Next]_vars => MemoryInv'
    BY <1>2, MemoryStep
  <2>3. MemoryInv => NothingMissing
    BY DEF MemoryInv
  <2> QED BY Inductive, <2>1, <2>2, <2>3, PTL DEF Spec
<1> QED BY <1>1, <1>2

-----------------------------------------------------------------------------
(***************************************************************************)
(* What a loop's action does to checkpoints: nothing, a Commit or a Reset.   *)
(***************************************************************************)
Stays == CheckpointsKept /\ (Transactional => UNCHANGED model)

Commits(i, s) ==
    /\ pc[i][s] = "written" /\ Owned(i, s, opLease[i][s]) /\ Moved(i, s, opTo[i][s])
    /\ Transactional => model' = Handled(i, Own(s, cp[i][s], opTo[i][s]))

Resets(i, s) ==
    /\ pc[i][s] = "wiped" /\ AllReset(i, s)
    /\ Transactional => model' = Empty
    /\ ~Transactional => ResetEnds(i, s) /\ Owned(i, s, opLease[i][s])

\* Every action of a loop is one of these.
LEMMA CheckpointsDo ==
    ASSUME TypeOK, ClaimsSound, NEW i \in Instances, NEW s \in Segments, LoopActs(i, s)
    PROVE  Stays \/ Commits(i, s) \/ Resets(i, s)
<1>1. CASE QuietActs(i, s)
  BY <1>1, QuietDoes DEF Stays
<1>2. CASE CommitEnds(i, s) /\ Owned(i, s, opLease[i][s])
  BY <1>2, CommitEndsDoes DEF Commits
<1>3. CASE CommitEnds(i, s) /\ ~Owned(i, s, opLease[i][s])
  BY <1>3, CommitEndsDoes, RowsStay DEF Stays
<1>4. CASE CommitFails(i, s)
  <2>1. Owned(i, s, opLease[i][s])
    BY <1>4, CommitFailsDoes, Mine DEF LockHeld, InCommit
  <2> QED BY <1>4, <2>1, CommitFailsDoes, RowsStay DEF Stays, Commits
<1>5. CASE ResetEnds(i, s) /\ Owned(i, s, opLease[i][s])
  BY <1>5, ResetEndsDoes DEF Resets
<1>6. CASE ResetEnds(i, s) /\ ~Owned(i, s, opLease[i][s])
  BY <1>6, ResetEndsDoes, RowsStay DEF Stays
<1>7. CASE ResetFails(i, s)
  BY <1>7, ResetFailsDoes, RowsStay DEF Stays, Resets
<1> QED BY <1>1, <1>2, <1>3, <1>4, <1>5, <1>6, <1>7, ActsSplit

-----------------------------------------------------------------------------
(***************************************************************************)
(* A rollout over a transactional store.                                     *)
(***************************************************************************)
LEMMA FitsOwn ==
    ASSUME TypeOK, ClaimsSound, RolloutInv, NEW i \in Instances, NEW s \in Segments, LoopActs(i, s),
           \/ pc'[i][s] \in {"work", "committed"} /\ Owned(i, s, lease[i][s])'
           \/ pc'[i][s] \in InCommit /\ Owned(i, s, opLease[i][s])'
    PROVE  /\ rows'[s].version <= Version[i]
           /\ rows'[s].pos = 0 \/ rows'[s].version = Version[i]
<1>1. Arrives(i, s, pc'[i][s]) /\ rows[s].version \in Nat /\ rows[s].pos \in Nat /\ Version[i] \in Nat
  BY Arrival, LoopTypes
<1>2. ASSUME RowKept(s) \/ UNCHANGED rows \/ ClaimGoes(i, s),
             rows[s].version <= Version[i], rows[s].pos = 0 \/ rows[s].version = Version[i]
      PROVE  /\ rows'[s].version <= Version[i]
             /\ rows'[s].pos = 0 \/ rows'[s].version = Version[i]
  BY <1>2 DEF RowKept, ClaimGoes
<1>3. CASE pc'[i][s] = "work"
  <2>1. CASE ClaimGranted(i, s) /\ AfterClaim(i, s) = "work"
    <3>1. rows[s].version <= Version[i] /\ (rows[s].pos = 0 \/ rows[s].version = Version[i])
      BY <1>1, <2>1 DEF AfterClaim
    <3> QED BY <1>2, <2>1, <3>1, ClaimGrantedDoes
  <2>2. CASE Reclaim(i, s) /\ Reclaimed(i, s)
    <3>1. rows[s].version = Version[i]
      BY <2>2, ReclaimDoes DEF RolloutInv, NewestRebuilds
    <3> QED BY <1>1, <1>2, <2>2, <3>1 DEF Reclaimed
  <2>3. CASE SetStatus(i, s)
    <3>1. pc[i][s] = "committed" /\ UNCHANGED <<rows, lease>>
      BY <2>3, SetStatusDoes
    <3>2. Owned(i, s, lease[i][s])
      BY <1>3, <3>1 DEF Owned, InCommit
    <3> QED BY <1>2, <3>1, <3>2 DEF RolloutInv, VersionFits
  <2>4. CASE HandlerFails(i, s)
    <3>1. pc[i][s] = "commit" /\ UNCHANGED <<rows, lease>>
      BY <2>4, HandlerFailsDoes
    <3>2. Owned(i, s, opLease[i][s])
      BY <1>3, <3>1, Mine DEF Owned, InCommit, LeaseBehind
    <3> QED BY <1>2, <3>1, <3>2 DEF RolloutInv, VersionFits, InCommit
  <2> QED BY <1>1, <1>3, <2>1, <2>2, <2>3, <2>4 DEF Arrives
<1>4. CASE pc'[i][s] = "committed"
  <2>1. CASE Publish(i, s)
    <3>1. pc[i][s] = "work" /\ RowKept(s) /\ UNCHANGED lease
      BY <2>1, PublishDoes DEF RowsKept
    <3>2. Owned(i, s, lease[i][s])
      BY <1>4, <3>1 DEF Owned, InCommit, RowKept
    <3> QED BY <1>2, <3>1, <3>2 DEF RolloutInv, VersionFits
  <2>2. CASE CommitEnds(i, s) /\ Owned(i, s, opLease[i][s])
    <3>1. rows'[s].version = Version[i]
      BY <2>2, CommitEndsDoes DEF Moved
    <3> QED BY <1>1, <3>1
  <2> QED BY <1>1, <1>4, <2>1, <2>2 DEF Arrives
<1>5. CASE pc'[i][s] = "commit"
  <2>1. CommitBegins(i, s) /\ Owned(i, s, lease[i][s])
    BY <1>1, <1>5 DEF Arrives
  <2>2. pc[i][s] = "work" /\ UNCHANGED rows
    BY <2>1, CommitBeginsDoes
  <2> QED BY <1>2, <2>1, <2>2 DEF RolloutInv, VersionFits
<1>6. CASE pc'[i][s] = "written"
  <2>1. pc[i][s] = "commit" /\ UNCHANGED <<rows, opLease>>
    BY <1>1, <1>6, HandlerRunsDoes DEF Arrives
  <2>2. Owned(i, s, opLease[i][s])
    BY <1>6, <2>1 DEF Owned, InCommit
  <2> QED BY <1>2, <2>1, <2>2 DEF RolloutInv, VersionFits, InCommit
<1> QED BY <1>3, <1>4, <1>5, <1>6 DEF InCommit

\* So do the others: their rows are kept, or no longer their claims.
LEMMA FitsStay ==
    ASSUME TypeOK, ClaimsSound, TypeOK', ClaimsSound', RolloutInv, NEW i \in Instances,
           NEW s \in Segments, LoopActs(i, s)
    PROVE  VersionFits'
<1>1. OthersKept(i, s) /\ RowsMove(i, s)
  BY LoopMoves DEF Move
<1> SUFFICES ASSUME NEW j \in Instances, NEW t \in Segments,
                    \/ pc'[j][t] \in {"work", "committed"} /\ Owned(j, t, lease[j][t])'
                    \/ pc'[j][t] \in InCommit /\ Owned(j, t, opLease[j][t])'
             PROVE  /\ rows'[t].version <= Version[j]
                    /\ rows'[t].pos = 0 \/ rows'[t].version = Version[j]
  BY DEF VersionFits
<1>2. CASE j = i /\ t = s
  BY <1>2, FitsOwn
<1>3. CASE j # i \/ t # s
  <2>1. pc'[j][t] = pc[j][t] /\ opLease'[j][t] = opLease[j][t]
    BY <1>1, <1>3 DEF OthersKept, InCommit
  <2>2. /\ lease'[j][t] = lease[j][t] \/ lease'[j][t] = 0
        /\ rows'[t].owner = Owner[j] => rows'[t].epoch # 0
    BY <1>1, <1>3, LoopTypes DEF OthersKept, ClaimsSound, RowSound
  <2>3. \/ pc'[j][t] \in {"work", "committed"} /\ rows'[t].owner = Owner[j] /\ rows'[t].epoch = lease[j][t]
        \/ pc'[j][t] \in InCommit /\ rows'[t].owner = Owner[j] /\ rows'[t].epoch = opLease[j][t]
    BY <2>1, <2>2 DEF Owned
  <2>4. RowKept(t)
    BY <1>1, <1>3, <2>3 DEF RowsMove, Taken
  <2>5. \/ pc[j][t] \in {"work", "committed"} /\ Owned(j, t, lease[j][t])
        \/ pc[j][t] \in InCommit /\ Owned(j, t, opLease[j][t])
    BY <2>1, <2>3, <2>4 DEF RowKept, Owned
  <2> QED BY <2>4, <2>5 DEF RolloutInv, VersionFits, RowKept
<1> QED BY <1>2, <1>3

\* Who begins a rebuild saw an older Version, so nobody has a newer one.
LEMMA NewestOwn ==
    ASSUME TypeOK, ClaimsSound, OneRollout, RolloutInv, NEW i \in Instances, NEW s \in Segments,
           LoopActs(i, s), pc'[i][s] \in Rebuilds
    PROVE  \A j \in Instances : Version[j] <= Version[i]
<1>1. Arrives(i, s, pc'[i][s]) /\ Version \in [Instances -> Nat]
  BY Arrival, RunnerAssumption
<1>2. pc[i][s] \in Rebuilds => \A j \in Instances : Version[j] <= Version[i]
  BY DEF RolloutInv, NewestRebuilds
<1>3. CASE pc'[i][s] = "upgrade"
  <2>1. rows[s].version < Version[i] /\ rows[s].pos > 0
    BY <1>1, <1>3 DEF Arrives, AfterClaim
  <2>2. PICK k \in Instances : rows[s].version = Version[k]
    BY <2>1 DEF RolloutInv, VersionsKnown
  <2> QED BY <1>1, <2>1, <2>2 DEF OneRollout
<1>4. CASE pc'[i][s] = "lockwait"
  <2>1. requested <= 0 /\ requested \in Nat /\ served \in Nat
    BY DEF ClaimsSound, OneRollout, TypeOK, StoreTypeOK
  <2>2. RebuildUpgrade(i, s)
    BY <1>1, <1>4, <2>1, RebuildDueDoes DEF Arrives
  <2> QED BY <1>2, <2>2, RebuildUpgradeDoes DEF Rebuilds
<1>5. CASE pc'[i][s] \in {"wiping", "wiped", "reset", "reclaim"}
  <2>1. pc[i][s] \in {"lockwait", "wiping", "wiped", "reset"}
    BY <1>1, <1>5, ResetBeginsDoes, WipeDoes, ResetEndsDoes, ForgetDoes DEF Arrives
  <2> QED BY <1>2, <2>1 DEF Rebuilds
<1> QED BY <1>3, <1>4, <1>5 DEF Rebuilds

\* No older Version moves a checkpoint under a rebuild of the newest.
LEMMA NewestStay ==
    ASSUME TypeOK, ClaimsSound, OneRollout, RolloutInv, NEW i \in Instances, NEW s \in Segments,
           LoopActs(i, s)
    PROVE  NewestRebuilds'
<1>1. /\ OthersKept(i, s) /\ Arrives(i, s, pc'[i][s])
      /\ Stays \/ Commits(i, s) \/ Resets(i, s)
  BY LoopMoves, Arrival, CheckpointsDo DEF Move
<1>2. Version \in [Instances -> Nat]
  BY RunnerAssumption
<1>3. ASSUME NEW j \in Instances, NEW t \in Segments, pc'[j][t] \in Rebuilds
      PROVE  \A k \in Instances : Version[k] <= Version[j]
  <2>1. CASE j = i /\ t = s
    BY <1>3, <2>1, NewestOwn
  <2>2. CASE j # i \/ t # s
    <3>1. pc[j][t] \in Rebuilds
      BY <1>1, <1>3, <2>2 DEF OthersKept, Rebuilds
    <3> QED BY <3>1 DEF RolloutInv, NewestRebuilds
  <2> QED BY <2>1, <2>2
<1>4. ASSUME NEW j \in Instances, NEW t \in Segments, pc'[j][t] \in {"reset", "reclaim"}
      PROVE  rows'[t].version = Version[j]
  <2>1. CASE j = i /\ t = s /\ pc'[i][s] = "reset"
    <3>1. ResetEnds(i, s) /\ Owned(i, s, opLease[i][s])
      BY <1>1, <2>1 DEF Arrives
    <3> QED BY <2>1, <3>1, ResetEndsDoes DEF AllReset
  <2>2. CASE j = i /\ t = s /\ pc'[i][s] = "reclaim"
    <3>1. pc[i][s] = "reset" /\ UNCHANGED rows
      BY <1>1, <2>2, ForgetDoes DEF Arrives
    <3> QED BY <2>2, <3>1 DEF RolloutInv, NewestRebuilds
  <2>3. CASE j # i \/ t # s
    <3>1. pc[j][t] \in {"reset", "reclaim"}
      BY <1>1, <1>4, <2>3 DEF OthersKept
    <3>2. rows[t].version = Version[j] /\ \A k \in Instances : Version[k] <= Version[j]
      BY <3>1 DEF RolloutInv, NewestRebuilds, Rebuilds
    <3>3. CASE Stays
      BY <3>2, <3>3 DEF Stays, CheckpointsKept
    <3>4. CASE Commits(i, s)
      <4>1. rows[s].version <= Version[i]
        BY <3>4 DEF Commits, RolloutInv, VersionFits, InCommit
      <4>2. t = s => Version[i] = Version[j]
        BY <1>2, <3>2, <4>1
      <4> QED BY <3>2, <3>4, <4>2 DEF Commits, Moved, RowKept
    <3>5. CASE Resets(i, s)
      <4>1. Version[j] <= Version[i]
        BY <3>5 DEF Resets, RolloutInv, NewestRebuilds, Rebuilds
      <4>2. Version[i] = Version[j]
        BY <1>2, <3>2, <4>1
      <4> QED BY <3>5, <4>2 DEF Resets, AllReset
    <3> QED BY <1>1, <3>3, <3>4, <3>5
  <2> QED BY <1>4, <2>1, <2>2, <2>3
<1> QED BY <1>3, <1>4 DEF NewestRebuilds

\* Versions, when neither checkpoints nor the read model change.
LEMMA MixKept ==
    ASSUME VersionsKnown, VersionsDoNotMix, CheckpointsKept, UNCHANGED model
    PROVE  VersionsKnown' /\ VersionsDoNotMix'
BY RunnerAssumption DEF VersionsKnown, VersionsDoNotMix, CheckpointsKept, Events

\* No action of a loop mixes Versions.
LEMMA MixStay ==
    ASSUME TypeOK, ClaimsSound, Transactional, RolloutInv, NEW i \in Instances, NEW s \in Segments,
           LoopActs(i, s)
    PROVE  VersionsKnown' /\ VersionsDoNotMix'
<1>1. \A p \in Events : SegmentOf[p] \in Segments /\ p \in Nat /\ p > 0
  BY RunnerAssumption DEF Events
<1>2. CASE Stays
  BY <1>2, MixKept DEF Stays, RolloutInv
<1>3. CASE Resets(i, s)
  <2>1. VersionsKnown'
    BY <1>3 DEF Resets, AllReset, VersionsKnown
  <2>2. VersionsDoNotMix'
    BY <1>1, <1>3 DEF Resets, AllReset, VersionsDoNotMix
  <2> QED BY <2>1, <2>2
<1>4. CASE Commits(i, s)
  <2> DEFINE ps == Own(s, cp[i][s], opTo[i][s])
  <2>1. /\ pc[i][s] = "written" /\ Owned(i, s, opLease[i][s]) /\ Moved(i, s, opTo[i][s])
        /\ model' = Handled(i, ps)
    BY <1>4 DEF Commits
  <2>2. VersionsKnown'
    BY <2>1 DEF Moved, RowKept, RolloutInv, VersionsKnown
  <2>3. VersionsDoNotMix'
    <3> SUFFICES ASSUME NEW p \in Events, p <= rows'[SegmentOf[p]].pos
                 PROVE  model'[p].by = rows'[SegmentOf[p]].version
      BY DEF VersionsDoNotMix
    <3>1. ps \in SUBSET Events /\ (p \in ps <=> SegmentOf[p] = s /\ p > rows[s].pos /\ p <= opTo[i][s])
      BY <2>1, CommitApplies
    <3>2. /\ p \in ps => model'[p].by = Version[i]
          /\ p \notin ps => model'[p] = model[p]
      BY <2>1, <3>1, HandledFacts
    <3>3. /\ p <= rows[SegmentOf[p]].pos => model[p].by = rows[SegmentOf[p]].version
          /\ rows[SegmentOf[p]].pos \in Nat /\ SegmentOf[p] \in Segments /\ p \in Nat /\ p > 0
      BY <1>1, LoopTypes DEF RolloutInv, VersionsDoNotMix
    <3> HIDE DEF ps
    <3>4. CASE SegmentOf[p] # s
      BY <2>1, <3>1, <3>2, <3>3, <3>4 DEF Moved, RowKept
    <3>5. CASE SegmentOf[p] = s /\ p \in ps
      BY <2>1, <3>2, <3>5 DEF Moved
    <3>6. CASE SegmentOf[p] = s /\ p \notin ps
      <4>1. p <= rows[s].pos /\ rows'[s].version = Version[i]
        BY <2>1, <3>1, <3>3, <3>6 DEF Moved
      <4>2. rows[s].version = Version[i]
        BY <2>1, <3>3, <3>6, <4>1 DEF RolloutInv, VersionFits, InCommit
      <4> QED BY <3>2, <3>3, <3>6, <4>1, <4>2
    <3> QED BY <3>4, <3>5, <3>6
  <2> QED BY <2>2, <2>3
<1> QED BY <1>2, <1>3, <1>4, CheckpointsDo

\* Every step keeps RolloutInv.
LEMMA RolloutStep ==
    ASSUME IInv, IInv', RolloutInv, Transactional, OneRollout, [Next]_vars
    PROVE  RolloutInv'
<1>0. TypeOK /\ ClaimsSound /\ TypeOK' /\ ClaimsSound'
  BY DEF IInv
<1>1. ASSUME NEW i \in Instances, NEW s \in Segments, LoopActs(i, s) PROVE RolloutInv'
  BY <1>0, <1>1, FitsStay, NewestStay, MixStay DEF RolloutInv
<1>2. ASSUME UNCHANGED <<lease, opLease, model>>, RowsKept,
             \A j \in Instances, t \in Segments :
                pc'[j][t] = pc[j][t] \/ pc'[j][t] \in {"off", "claim"}
      PROVE  RolloutInv'
  <2>1. VersionsKnown' /\ VersionsDoNotMix'
    BY <1>2, MixKept DEF RolloutInv, CheckpointsKept, RowsKept, RowKept
  <2>2. VersionFits'
    BY <1>2 DEF RolloutInv, VersionFits, RowsKept, RowKept, Owned, InCommit
  <2>3. NewestRebuilds'
    BY <1>2 DEF RolloutInv, NewestRebuilds, Rebuilds, RowsKept, RowKept
  <2> QED BY <2>1, <2>2, <2>3 DEF RolloutInv
<1>3. ASSUME NEW i \in Instances, Start(i) \/ Stop(i) \/ Crash(i) PROVE RolloutInv'
  <2>1. /\ \A j \in Instances, t \in Segments :
              pc'[j][t] = pc[j][t] \/ pc'[j][t] \in {"off", "claim"}
        /\ UNCHANGED <<rows, model, lease, opLease>>
    BY <1>0, <1>3, ProcessDoes
  <2>2. RowsKept
    BY <1>0, <2>1 DEF RowsKept, RowKept, TypeOK, StoreTypeOK
  <2> QED BY <1>2, <2>1, <2>2
<1>4. CASE Aside
  BY <1>0, <1>2, <1>4, AsideDoes
<1> QED BY <1>1, <1>3, <1>4, NextSplit

(***************************************************************************)
(* While at most two Versions run, over a transactional store and with no    *)
(* rebuild asked for, what a checkpoint has passed was applied by the        *)
(* Version it names: the newer Version starts over and the older one, which  *)
(* may still be in a batch or a claim, steps aside (segment.go, work).       *)
(***************************************************************************)
THEOREM RolloutDoesNotMix == Transactional /\ OneRollout => (Spec => []VersionsDoNotMix)
<1> SUFFICES ASSUME Transactional, OneRollout PROVE Spec => []VersionsDoNotMix
  OBVIOUS
<1>1. Init => RolloutInv
  <2> SUFFICES ASSUME Init PROVE RolloutInv
    OBVIOUS
  <2>1. /\ \A s \in Segments : rows[s].pos = 0 /\ rows[s].version = 0
        /\ \A i \in Instances, s \in Segments : pc[i][s] = "off"
    BY DEF Init, StoreInit, PerLoop
  <2>2. \A p \in Events : SegmentOf[p] \in Segments /\ p \in Nat /\ p > 0
    BY RunnerAssumption DEF Events
  <2>3. VersionsDoNotMix /\ VersionsKnown
    BY <2>1, <2>2 DEF VersionsDoNotMix, VersionsKnown
  <2>4. VersionFits /\ NewestRebuilds
    BY <2>1 DEF VersionFits, NewestRebuilds, InCommit, Rebuilds
  <2> QED BY <2>3, <2>4 DEF RolloutInv
<1>2. IInv /\ IInv' /\ RolloutInv /\ [Next]_vars => RolloutInv'
  BY RolloutStep
<1>3. RolloutInv => VersionsDoNotMix
  BY DEF RolloutInv
<1> QED BY Inductive, <1>1, <1>2, <1>3, PTL DEF Spec

-----------------------------------------------------------------------------
(***************************************************************************)
(* One instance over the memory store: the positions it answers from.        *)
(***************************************************************************)
\* Where the positions in memory come from.
MemFrom(i, s) ==
    \A t \in Segments :
        \/ mem'[i][t].pos = mem[i][t].pos
        \/ mem'[i][t].pos = 0
        \/ t = s /\ mem'[i][s].pos = rows[s].pos
        \/ /\ t = s /\ pc[i][s] = "committed" /\ lease[i][s] = opLease[i][s]
           /\ mem'[i][s].pos = opTo[i][s]

\* Who is resetting stays so until its rebuild has ended; nobody becomes new.
FlagsFrom(i, s) ==
    /\ resetting[i] /\ ~resetting'[i] => pc[i][s] \in Rebuilds
    /\ up'[i] = "new" => up[i] = "new"

\* Only Forget leads on from a Reset.
LoopAlone(i, s) ==
    /\ At(pc, pc', i, s, pc'[i][s]) /\ MemFrom(i, s) /\ FlagsFrom(i, s)
    /\ pc[i][s] = "reset" => Forget(i, s)

\* Claims, releases, sheds and stalls.
LEMMA AloneClaim ==
    ASSUME TypeOK, ClaimsSound, NEW i \in Instances, NEW s \in Segments,
           \/ ClaimGranted(i, s) \/ ClaimRefused(i, s) \/ StepAside(i, s) \/ Stall(i, s)
           \/ Exit(i, s) \/ ClaimFails(i, s) \/ Shed(i, s)
    PROVE  LoopAlone(i, s)
<1>1. CASE ClaimGranted(i, s)
  BY <1>1, ClaimGrantedDoes DEF LoopAlone, At, MemFrom, FlagsFrom
<1>2. CASE ClaimRefused(i, s) \/ ClaimFails(i, s)
  BY <1>2, ClaimRefusedDoes, ClaimFailsDoes DEF LoopAlone, At, MemFrom, FlagsFrom
<1>3. CASE StepAside(i, s) \/ Stall(i, s) \/ Shed(i, s)
  BY <1>3, StepAsideDoes, StallDoes, ShedDoes DEF LoopAlone, At, MemFrom, FlagsFrom
<1>4. CASE Exit(i, s)
  <2>1. up'[i] = "new" => up[i] = "new"
    BY <1>4 DEF Exit, TypeOK
  <2> QED BY <1>4, <2>1, ExitDoes DEF LoopAlone, At, MemFrom, FlagsFrom
<1> QED BY <1>1, <1>2, <1>3, <1>4

\* Batches and publications.
LEMMA AloneWork ==
    ASSUME TypeOK, ClaimsSound, NEW i \in Instances, NEW s \in Segments,
           \/ CommitBegins(i, s) \/ HandlerRuns(i, s) \/ HandlerFails(i, s) \/ CommitEnds(i, s)
           \/ CommitFails(i, s) \/ Publish(i, s) \/ SetStatus(i, s)
    PROVE  LoopAlone(i, s)
<1>1. CASE CommitBegins(i, s) \/ Publish(i, s)
  BY <1>1, CommitBeginsDoes, PublishDoes DEF LoopAlone, At, MemFrom, FlagsFrom
<1>2. CASE HandlerRuns(i, s) \/ HandlerFails(i, s)
  BY <1>2, HandlerRunsDoes, HandlerFailsDoes DEF LoopAlone, At, MemFrom, FlagsFrom
<1>3. CASE CommitEnds(i, s) \/ CommitFails(i, s)
  BY <1>3, CommitEndsDoes, CommitFailsDoes DEF LoopAlone, At, MemFrom, FlagsFrom
<1>4. CASE SetStatus(i, s)
  <2>1. /\ pc[i][s] = "committed" /\ At(pc, pc', i, s, "work") /\ UNCHANGED <<up, resetting>>
        /\ mem' = IF lease[i][s] = opLease[i][s]
                  THEN [mem EXCEPT ![i][s] = [pos |-> opTo[i][s], owned |-> TRUE]] ELSE mem
    BY <1>4, SetStatusDoes
  <2>2. MemFrom(i, s)
    <3>1. CASE mem' = mem
      BY <3>1 DEF MemFrom
    <3>2. CASE /\ lease[i][s] = opLease[i][s]
               /\ mem' = [mem EXCEPT ![i][s] = [pos |-> opTo[i][s], owned |-> TRUE]]
      <4>1. mem \in [Instances -> [Segments -> MemRecord]]
        BY DEF TypeOK, MemRecord
      <4>2. /\ mem'[i][s] = [pos |-> opTo[i][s], owned |-> TRUE]
            /\ \A t \in Segments : t # s => mem'[i][t] = mem[i][t]
        BY <3>2, <4>1
      <4>3. mem'[i][s].pos = opTo[i][s]
        BY <4>2
      <4> QED BY <2>1, <3>2, <4>2, <4>3 DEF MemFrom
    <3> QED BY <2>1, <3>1, <3>2
  <2> QED BY <2>1, <2>2 DEF LoopAlone, At, FlagsFrom
<1> QED BY <1>1, <1>2, <1>3, <1>4

\* Rebuilds.
LEMMA AloneRebuild ==
    ASSUME TypeOK, ClaimsSound, NEW i \in Instances, NEW s \in Segments,
           \/ RebuildUpgrade(i, s) \/ (s = 0 /\ RebuildDue(i)) \/ ResetBegins(i, s) \/ Wipe(i, s)
           \/ WipeFails(i, s) \/ ResetEnds(i, s) \/ ResetFails(i, s) \/ Forget(i, s) \/ Reclaim(i, s)
    PROVE  LoopAlone(i, s)
<1>0. resetting \in [Instances -> BOOLEAN]
  BY DEF TypeOK
<1>1. CASE RebuildUpgrade(i, s) \/ (s = 0 /\ RebuildDue(i))
  <2>1. resetting' = [resetting EXCEPT ![i] = TRUE]
    BY <1>1, RebuildUpgradeDoes, RebuildDueDoes
  <2>2. resetting'[i]
    BY <1>0, <2>1
  <2> QED BY <1>1, <2>2, RebuildUpgradeDoes, RebuildDueDoes DEF LoopAlone, At, MemFrom, FlagsFrom
<1>2. CASE ResetBegins(i, s) \/ Wipe(i, s) \/ WipeFails(i, s)
  <2>1. pc[i][s] \in Rebuilds /\ pc[i][s] # "reset"
    BY <1>2, ResetBeginsDoes, WipeDoes, WipeFailsDoes DEF Rebuilds
  <2> QED BY <1>2, <2>1, ResetBeginsDoes, WipeDoes, WipeFailsDoes DEF LoopAlone, At, MemFrom, FlagsFrom
<1>3. CASE ResetEnds(i, s) \/ ResetFails(i, s)
  <2>1. pc[i][s] \in Rebuilds /\ pc[i][s] # "reset"
    BY <1>3, ResetEndsDoes, ResetFailsDoes DEF Rebuilds
  <2> QED BY <1>3, <2>1, ResetEndsDoes, ResetFailsDoes DEF LoopAlone, At, MemFrom, FlagsFrom
<1>4. CASE Forget(i, s)
  <2>1. pc[i][s] \in Rebuilds
    BY <1>4, ForgetDoes DEF Rebuilds
  <2> QED BY <1>4, <2>1, ForgetDoes DEF LoopAlone, At, MemFrom, FlagsFrom
<1>5. CASE Reclaim(i, s)
  <2>1. pc[i][s] \in Rebuilds /\ pc[i][s] # "reset" /\ UNCHANGED up
    BY <1>5, ReclaimDoes DEF Rebuilds
  <2>2. CASE Reclaimed(i, s)
    <3>1. /\ mem'[i][s] = [pos |-> rows[s].pos, owned |-> TRUE]
          /\ \A t \in Segments : t # s => mem'[i][t] = mem[i][t]
      BY <2>2 DEF Reclaimed, At
    <3>2. mem'[i][s].pos = rows[s].pos
      BY <3>1
    <3> QED BY <2>1, <2>2, <3>1, <3>2 DEF Reclaimed, LoopAlone, At, MemFrom, FlagsFrom
  <2>3. CASE ReclaimRefused(i, s)
    BY <2>1, <2>3 DEF ReclaimRefused, LoopAlone, At, MemFrom, FlagsFrom
  <2> QED BY <1>5, <2>2, <2>3, ReclaimDoes
<1> QED BY <1>1, <1>2, <1>3, <1>4, <1>5

\* Every action of a loop.
LEMMA Alone ==
    ASSUME TypeOK, ClaimsSound, NEW i \in Instances, NEW s \in Segments, LoopActs(i, s)
    PROVE  LoopAlone(i, s)
BY AloneClaim, AloneWork, AloneRebuild DEF LoopActs, Step, Failure

\* Only segment 0 goes on with a rebuild, and the flag is set meanwhile.
LEMMA FromZeroStays ==
    ASSUME TypeOK, ClaimsSound, OneInstance, PositionInv, NoUpgrade',
           NEW i \in Instances, NEW s \in Segments, LoopActs(i, s)
    PROVE  ResetsFromZero'
<1>1. LoopAlone(i, s) /\ Arrives(i, s, pc'[i][s]) /\ resetting \in [Instances -> BOOLEAN]
  BY Alone, Arrival DEF TypeOK
<1>2. pc[i][s] # "upgrade" /\ pc'[i][s] # "upgrade"
  BY DEF PositionInv, NoUpgrade
<1>3. \A t \in Segments : pc[i][t] \in Rebuilds => t = 0 /\ resetting[i]
  BY DEF PositionInv, ResetsFromZero
<1>4. CASE pc'[i][s] = "lockwait"
  <2>1. s = 0 /\ RebuildDue(i)
    BY <1>1, <1>2, <1>4, RebuildUpgradeDoes DEF Arrives
  <2>2. s = 0 /\ resetting'[i]
    BY <1>1, <2>1, RebuildDueDoes
  <2>3. \A t \in Segments : pc'[i][t] \in Rebuilds => t = 0
    BY <1>1, <1>3, <2>2 DEF LoopAlone, At
  <2> QED BY <2>2, <2>3 DEF OneInstance, ResetsFromZero
<1>5. CASE pc'[i][s] \in Rebuilds \ {"lockwait"}
  <2>1. pc[i][s] \in Rebuilds /\ UNCHANGED resetting
    BY <1>1, <1>2, <1>5, ResetBeginsDoes, WipeDoes, ResetEndsDoes, ForgetDoes DEF Arrives, Rebuilds
  <2>2. \A t \in Segments : pc'[i][t] \in Rebuilds => t = 0 /\ resetting'[i]
    BY <1>1, <1>3, <2>1 DEF LoopAlone, At
  <2> QED BY <2>2 DEF OneInstance, ResetsFromZero
<1>6. CASE pc'[i][s] \notin Rebuilds
  <2>1. ASSUME NEW t \in Segments, pc'[i][t] \in Rebuilds PROVE t = 0 /\ resetting'[i]
    <3>1. t # s /\ pc[i][t] \in Rebuilds
      BY <1>1, <1>6, <2>1 DEF LoopAlone, At
    <3>2. t = 0 /\ resetting[i] /\ pc[i][s] \notin Rebuilds
      BY <1>3, <3>1
    <3> QED BY <1>1, <3>2 DEF LoopAlone, FlagsFrom
  <2> QED BY <2>1 DEF OneInstance, ResetsFromZero
<1> QED BY <1>4, <1>5, <1>6

\* A publication or commit that succeeded was made with a lease.
LEMMA LeaseOfCommitted ==
    ASSUME TypeOK, ClaimsSound, ~Transactional, PositionInv,
           NEW i \in Instances, NEW s \in Segments, LoopActs(i, s), NEW t \in Segments,
           pc'[i][t] = "committed"
    PROVE  opLease'[i][t] > 0
<1>1. LoopAlone(i, s) /\ Arrives(i, s, pc'[i][s]) /\ OthersKept(i, s)
  BY Alone, Arrival, LoopMoves DEF Move
<1>2. ~Owned(i, s, 0) /\ lease[i][s] \in Nat /\ opLease[i][s] \in Nat
  BY Mine, LoopTypes
<1>3. CASE t # s
  <2>1. pc[i][t] = "committed" /\ opLease'[i][t] = opLease[i][t]
    BY <1>1, <1>3 DEF LoopAlone, At, OthersKept
  <2> QED BY <2>1 DEF PositionInv, PositionsReached
<1>4. CASE t = s /\ Publish(i, s)
  <2>1. opLease'[i][s] = lease[i][s] /\ Owned(i, s, lease[i][s])
    BY <1>4, PublishDoes DEF At
  <2> QED BY <1>2, <1>4, <2>1
<1>5. CASE t = s /\ CommitEnds(i, s) /\ Owned(i, s, opLease[i][s])
  <2>1. opLease' = opLease
    BY <1>5, CommitEndsDoes
  <2> QED BY <1>2, <1>5, <2>1
<1> QED BY <1>1, <1>3, <1>4, <1>5 DEF Arrives

\* No position gets ahead of its checkpoint, but for those Forget is about to take back.
LEMMA ReachedStays ==
    ASSUME TypeOK, ClaimsSound, OneInstance, ~Transactional, PositionInv, ResetsFromZero',
           NEW i \in Instances, NEW s \in Segments, LoopActs(i, s), pc'[i][0] # "reset",
           NEW t \in Segments
    PROVE  /\ mem'[i][t].pos <= rows'[t].pos
           /\ pc'[i][t] = "committed" /\ lease'[i][t] = opLease'[i][t] => opTo'[i][t] <= rows'[t].pos
<1>1. /\ LoopAlone(i, s) /\ Arrives(i, s, pc'[i][s]) /\ OthersKept(i, s)
      /\ Stays \/ Commits(i, s) \/ Resets(i, s)
  BY Alone, Arrival, LoopMoves, CheckpointsDo DEF Move
<1>2. 0 \in Segments /\ rows[t].pos \in Nat /\ cp[i][s] \in Nat /\ opTo[i][s] \in Nat /\ rows[s].pos \in Nat
  BY StoreAssumption, LoopTypes
<1>3. pc'[i][t] = "committed" => opLease'[i][t] > 0
  BY LeaseOfCommitted
<1>4. rows'[t].pos \in Nat /\ rows'[t].pos >= rows[t].pos
  <2>1. CASE Stays
    BY <1>2, <2>1 DEF Stays, CheckpointsKept
  <2>2. CASE Commits(i, s)
    <3>1. cp[i][s] = rows[s].pos /\ cp[i][s] < opTo[i][s]
      BY <2>2, CommitApplies DEF Commits
    <3> QED BY <1>2, <2>2, <3>1 DEF Commits, Moved, RowKept
  <2>3. CASE Resets(i, s)
    <3>1. ResetEnds(i, s) /\ Owned(i, s, opLease[i][s])
      BY <2>3 DEF Resets
    <3>2. pc'[i][s] = "reset"
      BY <3>1, ResetEndsDoes DEF At
    <3>3. s = 0
      BY <3>2 DEF ResetsFromZero, Rebuilds
    <3> QED BY <3>2, <3>3
  <2> QED BY <1>1, <2>1, <2>2, <2>3
<1>5. CASE Forget(i, s)
  <2>1. /\ pc'[i][s] = "reclaim" /\ mem'[i][t].pos = 0 /\ (t # s => lease'[i][t] = 0)
    BY <1>5, ForgetDoes DEF At
  <2> QED BY <1>3, <1>4, <2>1
<1>6. CASE ~Forget(i, s)
  <2>1. pc[i][0] # "reset"
    BY <1>1, <1>2, <1>6 DEF LoopAlone, At
  <2>2. \A u \in Segments :
          /\ mem[i][u].pos <= rows[u].pos
          /\ pc[i][u] = "committed" /\ lease[i][u] = opLease[i][u] => opTo[i][u] <= rows[u].pos
    BY <2>1 DEF PositionInv, PositionsReached
  <2>3. mem[i][t].pos \in Nat /\ (t = s => opTo[i][s] \in Nat)
    BY <1>2 DEF TypeOK
  <2>4. mem'[i][t].pos <= rows'[t].pos
    BY <1>1, <1>2, <1>4, <2>2, <2>3 DEF LoopAlone, MemFrom
  <2>5. ASSUME pc'[i][t] = "committed", lease'[i][t] = opLease'[i][t] PROVE opTo'[i][t] <= rows'[t].pos
    <3>1. CASE t # s
      <4>1. /\ pc[i][t] = "committed" /\ opLease'[i][t] = opLease[i][t] /\ opTo'[i][t] = opTo[i][t]
            /\ lease'[i][t] = lease[i][t] \/ lease'[i][t] = 0
        BY <1>1, <2>5, <3>1 DEF LoopAlone, At, OthersKept
      <4>2. lease[i][t] = opLease[i][t]
        BY <1>3, <2>5, <4>1
      <4>3. opTo[i][t] \in Nat
        BY LoopTypes
      <4> QED BY <1>2, <1>4, <2>2, <4>1, <4>2, <4>3
    <3>2. CASE t = s /\ Publish(i, s)
      <4>1. pc[i][s] = "work" /\ opTo'[i][s] = cp[i][s] /\ Owned(i, s, lease[i][s])
        BY <2>5, <3>2, PublishDoes DEF At
      <4>2. cp[i][s] = rows[s].pos
        BY <4>1, Mine DEF FromCheckpoint
      <4> QED BY <1>4, <3>2, <4>1, <4>2
    <3>3. CASE t = s /\ CommitEnds(i, s) /\ Owned(i, s, opLease[i][s])
      <4>1. opTo' = opTo /\ rows'[s].pos = opTo[i][s]
        BY <3>3, CommitEndsDoes DEF Moved
      <4> QED BY <1>2, <3>3, <4>1
    <3> QED BY <1>1, <2>5, <3>1, <3>2, <3>3 DEF Arrives
  <2> QED BY <2>4, <2>5
<1> QED BY <1>5, <1>6

\* Every step keeps PositionInv.
LEMMA PositionStep ==
    ASSUME IInv, PositionInv, ~Transactional, OneInstance, [Next]_vars
    PROVE  PositionInv'
<1>0. TypeOK /\ ClaimsSound /\ 0 \in Segments
  BY StoreAssumption DEF IInv
<1>1. NoUpgrade'
  BY NoUpgradeStep DEF PositionInv, OneInstance, OneVersion
<1>2. ASSUME NEW i \in Instances, NEW s \in Segments, LoopActs(i, s) PROVE PositionInv'
  <2>1. ResetsFromZero'
    BY <1>0, <1>1, <1>2, FromZeroStays
  <2>2. \A j \in Instances : j = i
    BY DEF OneInstance
  <2>3. NewIsOff'
    <3>1. up[i] # "new"
      BY <1>0, <1>2, Arrival DEF PositionInv, NewIsOff
    <3>2. up'[i] # "new"
      BY <1>0, <1>2, <3>1, Alone DEF LoopAlone, FlagsFrom
    <3> QED BY <2>2, <3>2 DEF NewIsOff
  <2>4. ASSUME NEW t \in Segments, pc'[i][t] = "committed" PROVE opLease'[i][t] > 0
    BY <1>0, <1>2, <2>4, LeaseOfCommitted
  <2>5. ASSUME NEW t \in Segments, pc'[i][0] # "reset"
        PROVE  /\ mem'[i][t].pos <= rows'[t].pos
               /\ pc'[i][t] = "committed" /\ lease'[i][t] = opLease'[i][t]
                     => opTo'[i][t] <= rows'[t].pos
    BY <1>0, <1>2, <2>1, <2>5, ReachedStays
  <2>6. PositionsReached'
    BY <2>2, <2>4, <2>5 DEF PositionsReached
  <2> QED BY <1>1, <2>1, <2>3, <2>6 DEF PositionInv
<1>3. ASSUME UNCHANGED <<lease, opLease, opTo, resetting>>, RowsKept,
             \A j \in Instances, t \in Segments : mem'[j][t].pos = mem[j][t].pos,
             \A j \in Instances, t \in Segments :
                pc'[j][t] = pc[j][t] \/ (pc[j][t] = "off" /\ pc'[j][t] = "claim"),
             NewIsOff'
      PROVE  PositionInv'
  <2>1. ResetsFromZero'
    BY <1>3 DEF PositionInv, ResetsFromZero, Rebuilds
  <2>2. PositionsReached'
    BY <1>0, <1>3 DEF PositionInv, PositionsReached, RowsKept, RowKept
  <2> QED BY <1>1, <1>3, <2>1, <2>2 DEF PositionInv
<1>4. ASSUME NEW i \in Instances, Start(i) \/ Stop(i) \/ Crash(i) PROVE PositionInv'
  <2>1. /\ UNCHANGED <<rows, lease, opLease, opTo>> /\ UNCHANGED resetting
        /\ \A j \in Instances, t \in Segments : mem'[j][t].pos = mem[j][t].pos
    BY <1>0, <1>4, ProcessDoes
  <2>2. RowsKept
    BY <1>0, <2>1 DEF RowsKept, RowKept, TypeOK, StoreTypeOK
  <2>3. ~Crash(i)
    BY DEF Crash
  <2>4. \A j \in Instances : j = i
    BY DEF OneInstance
  <2>5. up \in [Instances -> {"new", "up", "stopping", "down"}] /\ pc \in [Instances -> [Segments -> PCs]]
    BY <1>0 DEF TypeOK
  <2>6. CASE Start(i)
    <3>1. /\ \A t \in Segments : pc[i][t] = "off"
          /\ \A t \in Segments : pc'[i][t] = "claim"
          /\ up'[i] = "up"
      BY <2>5, <2>6 DEF Start, PositionInv, NewIsOff
    <3>2. NewIsOff'
      BY <2>4, <3>1 DEF NewIsOff
    <3> QED BY <1>3, <2>1, <2>2, <2>4, <3>1, <3>2
  <2>7. CASE Stop(i)
    <3>1. UNCHANGED pc /\ up'[i] = "stopping"
      BY <2>5, <2>7 DEF Stop
    <3>2. NewIsOff'
      BY <2>4, <3>1 DEF NewIsOff
    <3> QED BY <1>3, <2>1, <2>2, <3>1, <3>2
  <2> QED BY <1>4, <2>3, <2>6, <2>7
<1>5. CASE Aside
  <2>1. /\ RowsKept /\ UNCHANGED <<up, pc, lease, opLease, opTo, mem, resetting>>
    BY <1>0, <1>5, AsideDoes
  <2>2. NewIsOff'
    BY <2>1 DEF PositionInv, NewIsOff
  <2> QED BY <1>3, <2>1, <2>2
<1> QED BY <1>2, <1>4, <1>5, NextSplit

(***************************************************************************)
(* One instance over the memory store: once a rebuild is served and over, no *)
(* position in its memory is from before the wipe, so WaitUntil waits for    *)
(* the replay; whatever commit or publication the Reset overtook             *)
(* (segment.go, rebuild and setStatus).                                      *)
(***************************************************************************)
THEOREM NoOldPosition == ~Transactional /\ OneInstance => (Spec => []NoPositionFromBeforeWipe)
<1> SUFFICES ASSUME ~Transactional, OneInstance PROVE Spec => []NoPositionFromBeforeWipe
  OBVIOUS
<1>1. Init => PositionInv
  <2> SUFFICES ASSUME Init PROVE PositionInv
    OBVIOUS
  <2>1. /\ \A s \in Segments : rows[s].pos = 0 /\ rows[s].version = 0
        /\ \A i \in Instances, s \in Segments : pc[i][s] = "off" /\ mem[i][s].pos = 0
    BY DEF Init, StoreInit, PerLoop
  <2> QED BY <2>1 DEF PositionInv, NoUpgrade, NewIsOff, ResetsFromZero, PositionsReached, Rebuilds
<1>2. IInv /\ PositionInv /\ [Next]_vars => PositionInv'
  BY PositionStep
<1>3. PositionInv => NoPositionFromBeforeWipe
  <2> SUFFICES ASSUME PositionInv, NEW i \in Instances, ~resetting[i], NEW s \in Segments
               PROVE  mem[i][s].pos <= rows[s].pos
    BY DEF NoPositionFromBeforeWipe
  <2>1. pc[i][0] # "reset"
    BY StoreAssumption DEF PositionInv, ResetsFromZero, Rebuilds
  <2> QED BY <2>1 DEF PositionInv, PositionsReached
<1> QED BY Inductive, <1>1, <1>2, <1>3, PTL DEF Spec

=============================================================================
