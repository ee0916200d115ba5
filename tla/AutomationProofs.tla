-------------------------- MODULE AutomationProofs --------------------------
(***************************************************************************)
(* Proofs about Automation, for any instances, segments, items, ordering     *)
(* keys and definitions, and any number of failures, crashes and pauses.     *)
(*                                                                          *)
(* The argument: a batch runs only for a segment whose row in the store      *)
(* names its instance, at the epoch the instance holds, for longer than the  *)
(* batch's deadline.  Renew keeps such a row, a grant needs a row without a  *)
(* live lease, and a release is fenced by owner and epoch, so no other       *)
(* instance's call can take it away.  A deferred segment stays shut, paused  *)
(* or leased to nobody who would use it, until the deadline of its items.    *)
(***************************************************************************)
EXTENDS Automation, FiniteSetTheorems, TLAPS

Places == {"check", "claim", "decide", "wait", "stall", "drain", "returned", "crashed"}

RowRecords ==
    [owner : Owners \cup {None}, epoch : Int, leaseUntil : Nat, pausedTill : Nat,
     served : BOOLEAN]

ItemRecords == [done : BOOLEAN, fresh : BOOLEAN, lease : Nat, deadline : Nat]

HeldRecords ==
    [held : {TRUE}, epoch : Int, since : Nat, served : BOOLEAN, busy : BOOLEAN,
     leaseEnd : Nat, deferred : BOOLEAN, deferUntil : Nat]

Keys == {OrderingKey[x] : x \in Items}

BatchRecords ==
    [key : Segments, items : SUBSET Items, started : SUBSET Items,
     running : SUBSET Items, parked : SUBSET Keys,
     stopped : {"no", "deferred", "stopping"}, deadline : 0 .. Lease]

Shape ==
    /\ setup \in Setups
    /\ rows \in [Segments -> RowRecords]
    /\ todo \in [Items -> ItemRecords]
    /\ pc \in [Owners -> Places]
    /\ held \in [Owners -> [Segments -> HeldRecords \cup {NotHeld}]]
    /\ batches \in [Owners -> SUBSET BatchRecords]
    /\ spent \in [Owners -> 0 .. setup.maxDelay]
    /\ drained \in [Owners -> BOOLEAN]
    /\ leftover \subseteq Items

(***************************************************************************)
(* Only a segmented list is claimed for in two halves, and holds segments.   *)
(***************************************************************************)
SegmentsAreSegmented(i) ==
    ~setup.segmented => pc[i] # "claim" /\ \A k \in Segments : held[i][k] = NotHeld

(***************************************************************************)
(* Between the halves of Next, every segment the scheduler holds is its own  *)
(* in the store, and was renewed or granted when Next began.                 *)
(***************************************************************************)
ClaimsForItsOwn(i) ==
    pc[i] = "claim" => \A k \in HeldBy(i) :
        Fences(rows, LeaseOf(i, k)) /\ rows[k].leaseUntil >= TTL - spent[i]

(***************************************************************************)
(* A running batch has its segment: held and busy in the scheduler, fenced   *)
(* in the store, for longer than until the batch's deadline.                 *)
(***************************************************************************)
BatchesHoldSegments(i) ==
    setup.segmented => \A b \in batches[i] :
        /\ held[i][b.key].held /\ held[i][b.key].busy
        /\ held[i][b.key].leaseEnd = b.deadline
        /\ b.stopped = "deferred" => held[i][b.key].deferred
        /\ Fences(rows, LeaseOf(i, b.key)) /\ rows[b.key].leaseUntil > b.deadline

ItemsAreLeased(i) ==
    setup.segmented => \A b \in batches[i] : \A x \in b.items :
        KeyOf(x) = b.key /\ todo[x].deadline = b.deadline

OneBatchPerSegment(i) ==
    setup.segmented => \A b, c \in batches[i] : b.key = c.key => b = c

(***************************************************************************)
(* The items a batch runs are its own, of different ordering keys, and no    *)
(* more than there are slots.                                                *)
(***************************************************************************)
Fits(s) == IsFiniteSet(s) /\ Cardinality(s) <= Concurrency

RunsApart(i) ==
    \A b \in batches[i] :
        /\ b.running \subseteq b.items /\ Fits(b.running)
        /\ \A x, y \in b.running : OrderingKey[x] = OrderingKey[y] => x = y

(***************************************************************************)
(* RunOnce works every segment it holds, until it is asked to leave: one     *)
(* that is busy has a batch, and one left after Next claimed nothing is busy *)
(* unless a batch has drained since.                                         *)
(***************************************************************************)
OnceServes(i) ==
    i \in setup.once =>
      /\ pc[i] # "stall"
      /\ pc[i] \in {"check", "claim", "decide", "wait"} =>
           \A k \in HeldBy(i) : held[i][k].busy => \E b \in batches[i] : b.key = k
      /\ pc[i] = "decide" /\ ~drained[i] => Free(i) = {}

InstanceOK(i) ==
    /\ SegmentsAreSegmented(i) /\ ClaimsForItsOwn(i) /\ BatchesHoldSegments(i)
    /\ ItemsAreLeased(i) /\ OneBatchPerSegment(i) /\ RunsApart(i) /\ OnceServes(i)

(***************************************************************************)
(* The scheduler of i has the lease on segment k whose row is r.             *)
(***************************************************************************)
Fenced(i, k, r) == held[i][k].held /\ r.owner = i /\ r.epoch = held[i][k].epoch

(***************************************************************************)
(* Until the deadline of the items a deferred batch gave up, no scheduler    *)
(* has the lease on their segment, and none is granted it: it is paused or,  *)
(* when giving it back failed, still leased to the instance that let go.     *)
(***************************************************************************)
IsShut(x) ==
    /\ KeyOf(x) \in Segments
    /\ \A j \in Owners : ~Fenced(j, KeyOf(x), rows[KeyOf(x)])
    /\ \/ rows[KeyOf(x)].pausedTill >= todo[x].deadline
       \/ rows[KeyOf(x)].owner # None /\ rows[KeyOf(x)].leaseUntil >= todo[x].deadline

LeftoverIsShut ==
    setup.segmented =>
      \A x \in leftover : todo[x].lease > 0 /\ (todo[x].deadline > 0 => IsShut(x))

IInv == Shape /\ (\A i \in Owners : InstanceOK(i)) /\ LeftoverIsShut

-----------------------------------------------------------------------------
(* The constants and the rows.                                               *)

\* What a setup fixes: Next takes no longer than leaves a claim its lease.
LEMMA SetupFacts ==
    ASSUME setup \in Setups
    PROVE  /\ setup.segmented \in BOOLEAN /\ setup.maxDelay \in Nat
           /\ setup.maxDelay <= TTL - Lease - 1
           /\ setup.once \subseteq Owners
<1>1. setup \in Definition
  BY AutomationAssumption
<1>2. TTL \in Nat /\ Lease \in Nat
  BY AutomationAssumption, StoreAssumption
<1> QED BY <1>1, <1>2 DEF Definition

LEMMA Constant ==
    /\ TTL \in Nat /\ Lease \in Nat /\ Lease > 0 /\ PollInterval \in Nat /\ TTL > Lease
    /\ Oldest = 0 /\ None \notin Owners /\ 0 \in Segments /\ Pauses \subseteq Nat
    /\ Term \in Nat /\ Epochs \in Nat /\ Epochs > 0
<1>1. TTL \in Nat /\ Pauses \subseteq Nat /\ Epochs \in Nat \ {0} /\ None \notin Owners
  BY StoreAssumption
<1>2. /\ Lease \in Nat \ {0} /\ PollInterval \in Nat \ {0} /\ Term \in Nat
      /\ TTL = 3 * Lease + PollInterval /\ Oldest = 0 /\ 0 \in Segments
  BY AutomationAssumption
<1> QED BY <1>1, <1>2

LEMMA MaxOfTwo ==
    ASSUME NEW a \in Nat, NEW c \in Nat
    PROVE  Max({a, c}) \in Nat /\ Max({a, c}) >= a /\ Max({a, c}) >= c
<1>1. CASE a >= c
  <2>1. a \in {a, c} /\ \A y \in {a, c} : a >= y
    BY <1>1
  <2>2. Max({a, c}) \in {a, c} /\ \A y \in {a, c} : Max({a, c}) >= y
    BY <2>1 DEF Max
  <2> QED BY <2>2
<1>2. CASE c >= a
  <2>1. c \in {a, c} /\ \A y \in {a, c} : c >= y
    BY <1>2
  <2>2. Max({a, c}) \in {a, c} /\ \A y \in {a, c} : Max({a, c}) >= y
    BY <2>1 DEF Max
  <2> QED BY <2>2
<1> QED BY <1>1, <1>2

\* A free slot may be taken, and a taken one freed.
LEMMA SlotFacts ==
    /\ Fits({})
    /\ \A s, x : Fits(s) => Fits(s \ {x})
    /\ \A s, x : Fits(s) /\ ~(Cardinality(s) >= Concurrency) => Fits(s \cup {x})
<1>1. Concurrency \in Nat
  BY AutomationAssumption
<1>2. Fits({})
  BY <1>1, FS_EmptySet DEF Fits
<1>3. ASSUME NEW s, NEW x, Fits(s) PROVE Fits(s \ {x})
  <2>1. IsFiniteSet(s) /\ Cardinality(s) \in Nat /\ Cardinality(s) <= Concurrency
    BY <1>3, FS_CardinalityType DEF Fits
  <2>2. IsFiniteSet(s \ {x}) /\ Cardinality(s \ {x}) <= Cardinality(s)
        /\ Cardinality(s \ {x}) \in Nat
    <3>1. s \ {x} \subseteq s
      OBVIOUS
    <3> QED BY <2>1, <3>1, FS_Subset, FS_CardinalityType
  <2> QED BY <1>1, <2>1, <2>2 DEF Fits
<1>4. ASSUME NEW s, NEW x, Fits(s), ~(Cardinality(s) >= Concurrency) PROVE Fits(s \cup {x})
  <2>1. IsFiniteSet(s) /\ Cardinality(s) \in Nat
    BY <1>4, FS_CardinalityType DEF Fits
  <2>2. /\ IsFiniteSet(s \cup {x})
        /\ Cardinality(s \cup {x}) = IF x \in s THEN Cardinality(s) ELSE Cardinality(s) + 1
    BY <2>1, FS_AddElement
  <2> QED BY <1>1, <1>4, <2>1, <2>2 DEF Fits
<1> QED BY <1>2, <1>3, <1>4

LEMMA ReleaseOneFacts ==
    ASSUME NEW r \in RowRecords, NEW d \in Nat, NEW v \in BOOLEAN
    PROVE  /\ ReleaseOne(r, d, v, 0) \in RowRecords
           /\ ReleaseOne(r, d, v, 0).owner = None
           /\ ReleaseOne(r, d, v, 0).pausedTill >= r.pausedTill
           /\ ReleaseOne(r, d, v, 0).pausedTill >= d
<1>1. r.pausedTill \in Nat /\ r.served \in BOOLEAN
  BY DEF RowRecords
<1> DEFINE t == IF d > 0 THEN Longer(r, d, 0) ELSE r.pausedTill
<1>2. t \in Nat /\ t >= r.pausedTill /\ t >= d
  BY <1>1 DEF Longer
<1>3. ReleaseOne(r, d, v, 0) =
        [r EXCEPT !.owner = None, !.leaseUntil = 0, !.pausedTill = t, !.served = r.served \/ v]
  BY Constant DEF ReleaseOne
<1> DEFINE w == r.served \/ v
<1>4. w \in BOOLEAN
  OBVIOUS
<1>5. ReleaseOne(r, d, v, 0) =
        [r EXCEPT !.owner = None, !.leaseUntil = 0, !.pausedTill = t, !.served = w]
  BY <1>3
<1> HIDE DEF t, w
<1>6. [r EXCEPT !.owner = None, !.leaseUntil = 0, !.pausedTill = t, !.served = w]
        \in RowRecords
  BY <1>2, <1>4 DEF RowRecords
<1>7. /\ ReleaseOne(r, d, v, 0).owner = None
      /\ ReleaseOne(r, d, v, 0).pausedTill = t
  BY <1>5 DEF RowRecords
<1> QED BY <1>2, <1>5, <1>6, <1>7

(***************************************************************************)
(* Release leaves a row alone, or frees it for one of the requests that      *)
(* fence it; and it does free a row that a request fences.                   *)
(***************************************************************************)
LEMMA ReleaseFacts ==
    ASSUME NEW rs \in [Segments -> RowRecords], NEW rel,
           \A q \in rel : q.deferFor \in Nat /\ q.served \in BOOLEAN,
           NEW out, out = ReleaseTo(rs, rel, 0)
    PROVE  /\ out \in [Segments -> RowRecords]
           /\ \A k \in Segments :
                \/ out[k] = rs[k] /\ ~\E q \in rel : q.lease.key = k /\ Fences(rs, q.lease)
                \/ \E q \in rel :
                     /\ q.lease.key = k /\ Fences(rs, q.lease)
                     /\ out[k] = ReleaseOne(rs[k], q.deferFor, q.served, 0)
<1> DEFINE Of(k) == {q \in Released(rs, rel) : q.lease.key = k}
<1>1. \A k \in Segments :
        IF Of(k) = {} THEN out[k] = rs[k]
        ELSE \E q \in Of(k) : out[k] = ReleaseOne(rs[k], q.deferFor, q.served, 0)
  <2> TAKE k \in Segments
  <2>1. out[k] = IF Of(k) = {} THEN rs[k]
                 ELSE LET q == CHOOSE q \in Of(k) : TRUE IN
                      ReleaseOne(rs[k], q.deferFor, q.served, 0)
    BY DEF ReleaseTo
  <2>2. CASE Of(k) # {}
    <3> DEFINE q == CHOOSE q \in Of(k) : TRUE
    <3>1. q \in Of(k)
      BY <2>2
    <3>2. out[k] = ReleaseOne(rs[k], q.deferFor, q.served, 0)
      BY <2>1, <2>2
    <3> QED BY <3>1, <3>2, <2>2
  <2> QED BY <2>1, <2>2
<1>2. \A k \in Segments :
        \/ out[k] = rs[k] /\ ~\E q \in rel : q.lease.key = k /\ Fences(rs, q.lease)
        \/ \E q \in rel :
             /\ q.lease.key = k /\ Fences(rs, q.lease)
             /\ out[k] = ReleaseOne(rs[k], q.deferFor, q.served, 0)
  <2> TAKE k \in Segments
  <2>1. CASE Of(k) = {}
    BY <1>1, <2>1 DEF Released
  <2>2. CASE Of(k) # {}
    BY <1>1, <2>2 DEF Released
  <2> QED BY <2>1, <2>2
<1>3. \A k \in Segments : out[k] \in RowRecords
  <2> TAKE k \in Segments
  <2>1. rs[k] \in RowRecords
    OBVIOUS
  <2> QED BY <1>2, <2>1, ReleaseOneFacts
<1>4. out = [k \in Segments |-> out[k]]
  BY DEF ReleaseTo
<1> HIDE DEF Of
<1> QED BY <1>2, <1>3, <1>4

\* A grant takes the row whole and leaves its pause.
LEMMA GrantFacts ==
    ASSUME NEW rs \in [Segments -> RowRecords], NEW ks, NEW o \in Owners,
           NEW out, out = GrantTo(rs, ks, o, 0)
    PROVE  /\ out \in [Segments -> RowRecords]
           /\ \A k \in Segments : k \notin ks => out[k] = rs[k]
           /\ \A k \in Segments : k \in ks =>
                 /\ out[k].owner = o /\ out[k].leaseUntil = TTL
                 /\ out[k].pausedTill = rs[k].pausedTill
<1> USE Constant
<1>1. \A k \in Segments : out[k] = IF k \in ks THEN GrantOne(rs[k], o, 0) ELSE rs[k]
  BY DEF GrantTo
<1>2. ASSUME NEW r \in RowRecords
      PROVE  /\ GrantOne(r, o, 0) \in RowRecords
             /\ GrantOne(r, o, 0).owner = o /\ GrantOne(r, o, 0).leaseUntil = TTL
             /\ GrantOne(r, o, 0).pausedTill = r.pausedTill
  <2> DEFINE e == (r.epoch + 1) % Epochs
  <2>1. e \in Int
    BY DEF RowRecords
  <2>2. GrantOne(r, o, 0) = [r EXCEPT !.owner = o, !.epoch = e, !.leaseUntil = TTL]
    <3>1. 0 + TTL = TTL
      OBVIOUS
    <3>2. GrantOne(r, o, 0) = [r EXCEPT !.owner = o, !.epoch = e, !.leaseUntil = 0 + TTL]
      BY Zenon DEF GrantOne
    <3> QED BY <3>1, <3>2, Zenon
  <2> HIDE DEF e
  <2> QED BY <2>1, <2>2 DEF RowRecords
<1>3. \A k \in Segments : rs[k] \in RowRecords
  OBVIOUS
<1>4. \A k \in Segments : out[k] \in RowRecords
  BY <1>1, <1>2, <1>3
<1>5. out = [k \in Segments |-> out[k]]
  BY DEF GrantTo
<1>6. out \in [Segments -> RowRecords]
  BY <1>4, <1>5
<1> QED BY <1>1, <1>2, <1>3, <1>6

\* Only rows that nobody holds and that are not paused are granted.
LEMMA GrantedFacts ==
    ASSUME NEW rs, NEW ln, NEW cs, NEW max, NEW k \in Granted(rs, ln, cs, max, 0)
    PROVE  k \in cs /\ ~(rs[k].pausedTill > 0) /\ ~(rs[k].owner # None /\ rs[k].leaseUntil > 0)
<1>1. k \in Eligible(rs, cs, 0)
  BY DEF Granted
<1> QED BY <1>1 DEF Eligible, pausedAt, heldAt

-----------------------------------------------------------------------------
(***************************************************************************)
(* A row that Acquire passes over.                                           *)
(***************************************************************************)
Shut(r) == r.pausedTill > 0 \/ (r.owner # None /\ r.leaseUntil > 0)

(***************************************************************************)
(* What a step of instance i leaves of the others: their scheduler, their    *)
(* batches and their loop; and the rows that are shut, unless i has their    *)
(* lease. It comes to hold only segments that are not shut to it, and claims *)
(* only items of segments it owns, whose leases are over.                    *)
(***************************************************************************)
Spares(i, k, r, s) ==
    /\ s.pausedTill >= r.pausedTill
    /\ Shut(r) /\ ~Fenced(i, k, r) =>
         s.owner = r.owner /\ s.epoch = r.epoch /\ s.leaseUntil = r.leaseUntil

HoldsNoMore(i, k) ==
    held'[i][k].held =>
      \/ held[i][k].held /\ held'[i][k].epoch = held[i][k].epoch
      \/ ~Shut(rows[k]) \/ Fenced(i, k, rows[k])

StepOf(i) ==
    /\ setup' = setup
    /\ \A k \in Segments : Spares(i, k, rows[k], rows'[k]) /\ HoldsNoMore(i, k)
    /\ \A j \in Owners : j # i =>
         /\ held'[j] = held[j] /\ batches'[j] = batches[j]
         /\ pc'[j] = pc[j] /\ spent'[j] = spent[j] /\ drained'[j] = drained[j]
    /\ \A x \in Items :
         \/ todo'[x].lease = todo[x].lease /\ todo'[x].deadline = todo[x].deadline
         \/ /\ todo[x].lease = 0
            /\ setup.segmented => KeyOf(x) \in Segments /\ rows[KeyOf(x)].owner = i

LEMMA OthersStay ==
    ASSUME IInv, NEW i \in Owners, StepOf(i), NEW j \in Owners, j # i
    PROVE  InstanceOK(j)'
<1>1. /\ setup' = setup /\ held'[j] = held[j] /\ batches'[j] = batches[j]
      /\ pc'[j] = pc[j] /\ spent'[j] = spent[j] /\ drained'[j] = drained[j]
  BY DEF StepOf
<1>2. InstanceOK(j) /\ Shape
  BY DEF IInv
<1>3. HeldBy(j)' = HeldBy(j) /\ Free(j)' = Free(j)
  BY <1>1 DEF HeldBy, Free
<1>4. \A k \in Segments : rows[k].owner = j /\ rows[k].leaseUntil > 0 =>
         /\ rows'[k].owner = j /\ rows'[k].epoch = rows[k].epoch
         /\ rows'[k].leaseUntil = rows[k].leaseUntil
  BY Constant DEF StepOf, Spares, Shut, Fenced
<1>5. SegmentsAreSegmented(j)'
  BY <1>1, <1>2 DEF InstanceOK, SegmentsAreSegmented
<1>6. ClaimsForItsOwn(j)'
  <2> SUFFICES ASSUME pc[j] = "claim", NEW k \in HeldBy(j)
               PROVE  /\ rows'[k].owner = j /\ rows'[k].epoch = held[j][k].epoch
                      /\ rows'[k].leaseUntil >= TTL - spent[j]
    BY <1>1, <1>3 DEF ClaimsForItsOwn, Fences, LeaseOf
  <2>1. /\ rows[k].owner = j /\ rows[k].epoch = held[j][k].epoch
        /\ rows[k].leaseUntil >= TTL - spent[j] /\ k \in Segments
    BY <1>2 DEF InstanceOK, ClaimsForItsOwn, Fences, LeaseOf, HeldBy
  <2>2. spent[j] \in Nat /\ spent[j] <= TTL - Lease - 1 /\ rows[k].leaseUntil \in Nat
    <3>1. spent[j] \in 0 .. setup.maxDelay /\ rows[k] \in RowRecords /\ setup \in Setups
      BY <1>2, <2>1 DEF Shape
    <3> QED BY <3>1, SetupFacts, Constant DEF RowRecords
  <2>3. rows[k].leaseUntil > 0
    BY <2>1, <2>2, Constant
  <2> QED BY <1>4, <2>1, <2>3
<1>7. BatchesHoldSegments(j)'
  <2> SUFFICES ASSUME setup.segmented, NEW b \in batches[j]
               PROVE  /\ held[j][b.key].held /\ held[j][b.key].busy
                      /\ held[j][b.key].leaseEnd = b.deadline
                      /\ b.stopped = "deferred" => held[j][b.key].deferred
                      /\ rows'[b.key].owner = j /\ rows'[b.key].epoch = held[j][b.key].epoch
                      /\ rows'[b.key].leaseUntil > b.deadline
    BY <1>1 DEF BatchesHoldSegments, Fences, LeaseOf
  <2>1. /\ held[j][b.key].held /\ held[j][b.key].busy
        /\ held[j][b.key].leaseEnd = b.deadline
        /\ b.stopped = "deferred" => held[j][b.key].deferred
        /\ rows[b.key].owner = j /\ rows[b.key].epoch = held[j][b.key].epoch
        /\ rows[b.key].leaseUntil > b.deadline
    BY <1>2 DEF InstanceOK, BatchesHoldSegments, Fences, LeaseOf
  <2>2. b.key \in Segments /\ b.deadline \in Nat
    BY <1>2 DEF Shape, BatchRecords
  <2>3. rows[b.key].leaseUntil \in Nat
    BY <1>2, <2>2 DEF Shape, RowRecords
  <2> QED BY <1>4, <2>1, <2>2, <2>3
<1>8. ItemsAreLeased(j)'
  <2> SUFFICES ASSUME setup.segmented, NEW b \in batches[j], NEW x \in b.items
               PROVE  KeyOf(x)' = b.key /\ todo'[x].deadline = b.deadline
    BY <1>1 DEF ItemsAreLeased
  <2>1. KeyOf(x) = b.key /\ todo[x].deadline = b.deadline /\ rows[b.key].owner = j
    BY <1>2 DEF InstanceOK, ItemsAreLeased, BatchesHoldSegments, Fences, LeaseOf
  <2>2. KeyOf(x)' = KeyOf(x) /\ x \in Items
    BY <1>1, <1>2 DEF KeyOf, Shape, BatchRecords
  <2> QED BY <2>1, <2>2 DEF StepOf
<1>9. OneBatchPerSegment(j)' /\ RunsApart(j)' /\ OnceServes(j)'
  BY <1>1, <1>2, <1>3 DEF InstanceOK, OneBatchPerSegment, RunsApart, OnceServes
<1> QED BY <1>5, <1>6, <1>7, <1>8, <1>9 DEF InstanceOK

LEMMA ItemStaysShut ==
    ASSUME IInv, NEW i \in Owners, StepOf(i), Shape', setup.segmented, NEW x \in leftover
    PROVE  todo'[x].lease > 0 /\ (todo'[x].deadline > 0 => IsShut(x)')
<1>1. x \in Items /\ todo[x].lease > 0 /\ todo[x].lease \in Nat /\ todo[x].deadline \in Nat
  BY DEF IInv, LeftoverIsShut, Shape, ItemRecords
<1>2. todo'[x].lease = todo[x].lease /\ todo'[x].deadline = todo[x].deadline
  BY <1>1 DEF StepOf
<1> SUFFICES ASSUME todo[x].deadline > 0 PROVE IsShut(x)'
  BY <1>1, <1>2
<1> DEFINE k == KeyOf(x)
<1>3. /\ k \in Segments /\ \A j \in Owners : ~Fenced(j, k, rows[k])
      /\ \/ rows[k].pausedTill >= todo[x].deadline
         \/ rows[k].owner # None /\ rows[k].leaseUntil >= todo[x].deadline
  BY DEF IInv, LeftoverIsShut, IsShut
<1>4. KeyOf(x)' = k
  BY DEF KeyOf, StepOf
<1> HIDE DEF k
<1>5. /\ rows[k].pausedTill \in Nat /\ rows[k].leaseUntil \in Nat
      /\ rows'[k].pausedTill \in Nat
  BY <1>3 DEF IInv, Shape, RowRecords
<1>6. Shut(rows[k])
  BY <1>1, <1>3, <1>5 DEF Shut
<1>7. /\ rows'[k].owner = rows[k].owner /\ rows'[k].epoch = rows[k].epoch
      /\ rows'[k].leaseUntil = rows[k].leaseUntil
      /\ rows'[k].pausedTill >= rows[k].pausedTill
  BY <1>3, <1>6 DEF StepOf, Spares
<1>8. ASSUME NEW j \in Owners
      PROVE  ~(held'[j][k].held /\ rows'[k].owner = j /\ rows'[k].epoch = held'[j][k].epoch)
  <2>1. ~Fenced(j, k, rows[k])
    BY <1>3
  <2>2. CASE j # i
    BY <1>7, <2>1, <2>2 DEF StepOf, Fenced
  <2>3. CASE j = i
    BY <1>3, <1>6, <1>7, <2>1, <2>3 DEF StepOf, HoldsNoMore, Fenced
  <2> QED BY <2>2, <2>3
<1>9. \/ rows'[k].pausedTill >= todo[x].deadline
      \/ rows'[k].owner # None /\ rows'[k].leaseUntil >= todo[x].deadline
  BY <1>1, <1>3, <1>5, <1>7
<1> QED BY <1>2, <1>3, <1>4, <1>8, <1>9 DEF IsShut, Fenced

LEMMA StepKeeps ==
    ASSUME IInv, NEW i \in Owners, StepOf(i), leftover' \subseteq leftover,
           Shape', InstanceOK(i)'
    PROVE  IInv'
<1>1. \A j \in Owners : InstanceOK(j)'
  BY OthersStay
<1>2. LeftoverIsShut'
  BY ItemStaysShut DEF LeftoverIsShut, StepOf
<1> QED BY <1>1, <1>2 DEF IInv

-----------------------------------------------------------------------------
(* Initially, and steps of the loop that touch neither segments nor items.    *)

LEMMA InitIInv == Init => IInv
<1> SUFFICES ASSUME Init PROVE IInv
  OBVIOUS
<1>1. setup \in Setups
  BY DEF Init
<1>2. Shape
  <2>1. rows \in [Segments -> RowRecords]
    BY Constant DEF Init, StoreInit, NewRow, RowRecords
  <2>2. todo \in [Items -> ItemRecords]
    BY DEF Init, ItemRecords
  <2>3. pc \in [Owners -> Places]
    BY DEF Init, Places
  <2>4. held \in [Owners -> [Segments -> HeldRecords \cup {NotHeld}]]
    BY DEF Init
  <2>5. batches \in [Owners -> SUBSET BatchRecords]
    BY DEF Init
  <2>6. 0 \in 0 .. setup.maxDelay
    BY <1>1, SetupFacts
  <2>7. spent \in [Owners -> 0 .. setup.maxDelay]
    BY <2>6 DEF Init
  <2>8. drained \in [Owners -> BOOLEAN] /\ leftover \subseteq Items
    BY DEF Init
  <2> QED BY <1>1, <2>1, <2>2, <2>3, <2>4, <2>5, <2>7, <2>8 DEF Shape
<1>3. ASSUME NEW i \in Owners PROVE InstanceOK(i)
  <2>1. batches[i] = {} /\ pc[i] \in {"check", "returned"}
    BY DEF Init
  <2>2. \A k \in Segments : held[i][k] = NotHeld
    BY DEF Init
  <2>3. HeldBy(i) = {}
    BY <2>2 DEF HeldBy, NotHeld
  <2>4. SegmentsAreSegmented(i) /\ ClaimsForItsOwn(i) /\ OnceServes(i)
    BY <2>1, <2>2, <2>3 DEF SegmentsAreSegmented, ClaimsForItsOwn, OnceServes
  <2>5. BatchesHoldSegments(i) /\ ItemsAreLeased(i) /\ OneBatchPerSegment(i) /\ RunsApart(i)
    BY <2>1 DEF BatchesHoldSegments, ItemsAreLeased, OneBatchPerSegment, RunsApart
  <2> QED BY <2>4, <2>5 DEF InstanceOK
<1>4. LeftoverIsShut
  BY DEF Init, LeftoverIsShut
<1> QED BY <1>2, <1>3, <1>4 DEF IInv

\* The state the invariant is about is left alone.
LEMMA StutterKeeps ==
    ASSUME IInv,
           UNCHANGED <<setup, rows, todo, pc, held, batches, spent, drained, leftover>>
    PROVE  IInv'
<1>1. Shape'
  BY DEF IInv, Shape
<1>2. ASSUME NEW i \in Owners PROVE InstanceOK(i)'
  <2>1. InstanceOK(i)
    BY DEF IInv
  <2>2. HeldBy(i)' = HeldBy(i) /\ Free(i)' = Free(i)
    BY DEF HeldBy, Free
  <2>3. SegmentsAreSegmented(i)' /\ ClaimsForItsOwn(i)' /\ OnceServes(i)'
    BY <2>1, <2>2
       DEF InstanceOK, SegmentsAreSegmented, ClaimsForItsOwn, OnceServes, Fences, LeaseOf
  <2>4. /\ BatchesHoldSegments(i)' /\ ItemsAreLeased(i)' /\ OneBatchPerSegment(i)'
        /\ RunsApart(i)'
    BY <2>1 DEF InstanceOK, BatchesHoldSegments, ItemsAreLeased, OneBatchPerSegment,
                RunsApart, Fences, LeaseOf, KeyOf
  <2> QED BY <2>3, <2>4 DEF InstanceOK
<1>3. LeftoverIsShut'
  BY DEF IInv, LeftoverIsShut, IsShut, Fenced, KeyOf
<1> QED BY <1>1, <1>2, <1>3 DEF IInv

(***************************************************************************)
(* The loop moves on without a batch. Renew may have extended leases it has, *)
(* and a claim of an unsegmented list, whose answer was lost, leased items.  *)
(***************************************************************************)
LEMMA MovesOn ==
    ASSUME IInv, NEW i \in Owners, NEW w \in {"check", "wait", "stall", "drain"},
           UNCHANGED <<setup, held, batches, spent, leftover>>,
           Goto(i, w), drained' \in {drained, [drained EXCEPT ![i] = FALSE]},
           i \in setup.once =>
             /\ w # "stall"
             /\ w \in {"check", "wait"} => pc[i] \in {"check", "claim", "decide", "wait"},
           rows' \in [Segments -> RowRecords],
           \A k \in Segments :
             /\ rows'[k].owner = rows[k].owner /\ rows'[k].epoch = rows[k].epoch
             /\ rows'[k].pausedTill = rows[k].pausedTill
             /\ \/ rows'[k].leaseUntil = rows[k].leaseUntil
                \/ Fenced(i, k, rows[k]) /\ rows'[k].leaseUntil = TTL,
           todo' \in [Items -> ItemRecords],
           \A x \in Items :
             \/ todo'[x].lease = todo[x].lease /\ todo'[x].deadline = todo[x].deadline
             \/ ~setup.segmented /\ todo[x].lease = 0
    PROVE  IInv'
<1>1. Shape
  BY DEF IInv
<1>2. /\ pc' \in [Owners -> Places] /\ pc'[i] = w
      /\ \A j \in Owners : j # i => pc'[j] = pc[j]
  BY <1>1 DEF Shape, Goto, Places
<1>3. /\ drained' \in [Owners -> BOOLEAN]
      /\ \A j \in Owners : j # i => drained'[j] = drained[j]
  BY <1>1 DEF Shape
<1>4. Shape'
  BY <1>1, <1>2, <1>3 DEF Shape
<1>5. StepOf(i)
  <2>1. \A k \in Segments : rows[k] \in RowRecords
    BY <1>1 DEF Shape
  <2>2. \A k \in Segments : Spares(i, k, rows[k], rows'[k]) /\ HoldsNoMore(i, k)
    BY <2>1 DEF Spares, HoldsNoMore, RowRecords
  <2> QED BY <1>2, <1>3, <2>2 DEF StepOf
<1>6. InstanceOK(i)'
  <2>1. InstanceOK(i)
    BY DEF IInv
  <2>2. HeldBy(i)' = HeldBy(i) /\ Free(i)' = Free(i)
    BY DEF HeldBy, Free
  <2>3. SegmentsAreSegmented(i)' /\ ClaimsForItsOwn(i)'
    BY <1>2, <2>1, <2>2 DEF InstanceOK, SegmentsAreSegmented, ClaimsForItsOwn
  <2>4. BatchesHoldSegments(i)'
    <3> SUFFICES ASSUME setup.segmented, NEW b \in batches[i]
                 PROVE  /\ held[i][b.key].held /\ held[i][b.key].busy
                        /\ held[i][b.key].leaseEnd = b.deadline
                        /\ b.stopped = "deferred" => held[i][b.key].deferred
                        /\ rows'[b.key].owner = i
                        /\ rows'[b.key].epoch = held[i][b.key].epoch
                        /\ rows'[b.key].leaseUntil > b.deadline
      BY DEF BatchesHoldSegments, Fences, LeaseOf
    <3>1. /\ held[i][b.key].held /\ held[i][b.key].busy
          /\ held[i][b.key].leaseEnd = b.deadline
          /\ b.stopped = "deferred" => held[i][b.key].deferred
          /\ rows[b.key].owner = i /\ rows[b.key].epoch = held[i][b.key].epoch
          /\ rows[b.key].leaseUntil > b.deadline
      BY <2>1 DEF InstanceOK, BatchesHoldSegments, Fences, LeaseOf
    <3>2. b.key \in Segments /\ b.deadline \in 0 .. Lease
      BY <1>1 DEF Shape, BatchRecords
    <3>3. TTL > b.deadline
      BY <3>2, Constant
    <3> QED BY <3>1, <3>2, <3>3
  <2>5. ItemsAreLeased(i)'
    <3> SUFFICES ASSUME setup.segmented, NEW b \in batches[i], NEW x \in b.items
                 PROVE  KeyOf(x)' = b.key /\ todo'[x].deadline = b.deadline
      BY DEF ItemsAreLeased
    <3>1. KeyOf(x) = b.key /\ todo[x].deadline = b.deadline /\ x \in Items
      BY <1>1, <2>1 DEF InstanceOK, ItemsAreLeased, Shape, BatchRecords
    <3> QED BY <3>1 DEF KeyOf
  <2>6. OneBatchPerSegment(i)' /\ RunsApart(i)'
    BY <2>1 DEF InstanceOK, OneBatchPerSegment, RunsApart
  <2>7. OnceServes(i)'
    BY <1>2, <2>1, <2>2 DEF InstanceOK, OnceServes
  <2> QED BY <2>3, <2>4, <2>5, <2>6, <2>7 DEF InstanceOK
<1> QED BY <1>4, <1>5, <1>6, StepKeeps

\* The loop moves on without calling the scheduler.
LEMMA MoveKeeps ==
    ASSUME IInv, NEW i \in Owners, NEW w \in {"check", "wait", "stall", "drain"},
           UNCHANGED <<setup, rows, todo, held, batches, spent, leftover>>,
           Goto(i, w), drained' \in {drained, [drained EXCEPT ![i] = FALSE]},
           i \in setup.once =>
             /\ w # "stall"
             /\ w \in {"check", "wait"} => pc[i] \in {"check", "claim", "decide", "wait"}
    PROVE  IInv'
<1>1. rows' \in [Segments -> RowRecords] /\ todo' \in [Items -> ItemRecords]
  BY DEF IInv, Shape
<1> QED BY <1>1, MovesOn

LEMMA CheckFailsStep == ASSUME IInv, NEW i \in Owners, CheckFails(i) PROVE IInv'
<1>1. AfterError(i) \in {"drain", "stall"} /\ (i \in setup.once => AfterError(i) = "drain")
  BY DEF AfterError
<1>2. /\ UNCHANGED <<setup, rows, todo, held, batches, spent, leftover>>
      /\ Goto(i, AfterError(i)) /\ drained' = drained
  BY DEF CheckFails, storeVars, schedVars
<1> DEFINE w == AfterError(i)
<1>3. Goto(i, w) /\ w \in {"drain", "stall"} /\ (i \in setup.once => w = "drain")
  BY <1>1, <1>2
<1> HIDE DEF w
<1> QED BY <1>2, <1>3, MoveKeeps

LEMMA NotLiveStep == ASSUME IInv, NEW i \in Owners, NotLive(i) PROVE IInv'
<1>1. /\ UNCHANGED <<setup, rows, todo, held, batches, spent, leftover>>
      /\ Goto(i, "wait") /\ drained' = drained /\ pc[i] = "check"
  BY DEF NotLive, Wait, storeVars, schedVars
<1> QED BY <1>1, MoveKeeps

LEMMA DecideStep == ASSUME IInv, NEW i \in Owners, Decide(i) PROVE IInv'
<1>1. /\ UNCHANGED <<setup, rows, todo, held, batches, spent, leftover>>
      /\ drained' = drained /\ pc[i] = "decide" /\ (Goto(i, "wait") \/ Goto(i, "drain"))
  BY DEF Decide, Wait, storeVars, schedVars
<1>2. CASE Goto(i, "wait")
  BY <1>1, <1>2, MoveKeeps
<1>3. CASE Goto(i, "drain")
  BY <1>1, <1>3, MoveKeeps
<1> QED BY <1>1, <1>2, <1>3

LEMMA WakeStep == ASSUME IInv, NEW i \in Owners, Wake(i) PROVE IInv'
<1>1. /\ UNCHANGED <<setup, rows, todo, held, batches, spent, leftover>>
      /\ drained' = drained /\ pc[i] \in {"wait", "stall"} /\ Goto(i, "check")
  BY DEF Wake, storeVars, schedVars
<1>2. i \in setup.once => pc[i] # "stall"
  BY DEF IInv, InstanceOK, OnceServes
<1> QED BY <1>1, <1>2, MoveKeeps

LEMMA LeaveLoopStep == ASSUME IInv, NEW i \in Owners, LeaveLoop(i) PROVE IInv'
<1>1. /\ UNCHANGED <<setup, rows, todo, held, batches, spent, leftover>>
      /\ drained' = drained /\ Goto(i, "drain")
  BY DEF LeaveLoop, storeVars, schedVars
<1> QED BY <1>1, MoveKeeps

LEMMA StopStep == ASSUME IInv, NEW i \in Owners, Stop(i) PROVE IInv'
<1>1. UNCHANGED <<setup, rows, todo, pc, held, batches, spent, drained, leftover>>
  BY DEF Stop, storeVars, schedVars
<1> QED BY <1>1, StutterKeeps

LEMMA SetPausedStep == ASSUME IInv, NEW b \in BOOLEAN, SetPaused(b) PROVE IInv'
<1>1. UNCHANGED <<setup, rows, todo, pc, held, batches, spent, drained, leftover>>
  BY DEF SetPaused, storeVars, schedVars, loopVars
<1> QED BY <1>1, StutterKeeps


-----------------------------------------------------------------------------
(* A batch.                                                                  *)

(***************************************************************************)
(* A batch moves on: it keeps its segment, its items and its deadline, what  *)
(* it runs stays apart, and if it deferred the scheduler has noted so.       *)
(***************************************************************************)
LEMMA BecomesKeeps ==
    ASSUME IInv, NEW i \in Owners, NEW b \in batches[i], NEW c \in BatchRecords,
           Becomes(i, b, c),
           c.key = b.key, c.items = b.items, c.deadline = b.deadline,
           c.running \subseteq c.items, Fits(c.running),
           \A x, y \in c.running : OrderingKey[x] = OrderingKey[y] => x = y,
           UNCHANGED <<setup, pc, spent, drained>>,
           leftover' \subseteq leftover,
           todo' \in [Items -> ItemRecords],
           \A x \in Items : todo'[x].lease = todo[x].lease /\ todo'[x].deadline = todo[x].deadline,
           rows' \in [Segments -> RowRecords],
           \A k \in Segments :
             /\ rows'[k].owner = rows[k].owner /\ rows'[k].epoch = rows[k].epoch
             /\ rows'[k].leaseUntil = rows[k].leaseUntil
             /\ rows'[k].pausedTill >= rows[k].pausedTill,
           held' \in [Owners -> [Segments -> HeldRecords \cup {NotHeld}]],
           \A j \in Owners : j # i => held'[j] = held[j],
           ~setup.segmented => held' = held,
           \A k \in Segments : held'[i][k].held = held[i][k].held,
           \A k \in HeldBy(i) :
             /\ held'[i][k].epoch = held[i][k].epoch /\ held'[i][k].busy = held[i][k].busy
             /\ held'[i][k].leaseEnd = held[i][k].leaseEnd
             /\ held[i][k].deferred => held'[i][k].deferred,
           setup.segmented /\ c.stopped = "deferred" =>
             b.stopped = "deferred" \/ held'[i][b.key].deferred
    PROVE  IInv'
<1>1. Shape /\ InstanceOK(i)
  BY DEF IInv
<1>2. /\ batches' \in [Owners -> SUBSET BatchRecords]
      /\ batches'[i] = (batches[i] \ {b}) \cup {c}
      /\ \A j \in Owners : j # i => batches'[j] = batches[j]
  <2> DEFINE n == (batches[i] \ {b}) \cup {c}
  <2>1. n \in SUBSET BatchRecords /\ batches \in [Owners -> SUBSET BatchRecords]
    BY <1>1 DEF Shape
  <2>2. batches' = [batches EXCEPT ![i] = n]
    BY DEF Becomes
  <2>3. /\ batches' \in [Owners -> SUBSET BatchRecords] /\ batches'[i] = n
        /\ \A j \in Owners : j # i => batches'[j] = batches[j]
    <3> HIDE DEF n
    <3> QED BY <2>1, <2>2
  <2> QED BY <2>3
<1>3. Shape'
  BY <1>1, <1>2 DEF Shape
<1>4. StepOf(i)
  <2>1. \A k \in Segments : Spares(i, k, rows[k], rows'[k]) /\ HoldsNoMore(i, k)
    BY DEF Spares, HoldsNoMore, HeldBy
  <2> QED BY <1>2, <2>1 DEF StepOf
<1>5. \A d \in batches[i] : d.key \in Segments /\ d \in BatchRecords
  BY <1>1 DEF Shape, BatchRecords
<1>6. HeldBy(i)' = HeldBy(i) /\ Free(i)' = Free(i)
  <2>1. HeldBy(i)' = HeldBy(i)
    BY DEF HeldBy
  <2> QED BY <2>1 DEF Free
<1>7. SegmentsAreSegmented(i)'
  BY <1>1 DEF InstanceOK, SegmentsAreSegmented
<1>8. ClaimsForItsOwn(i)'
  <2> SUFFICES ASSUME pc[i] = "claim", NEW k \in HeldBy(i)
               PROVE  /\ rows'[k].owner = i /\ rows'[k].epoch = held'[i][k].epoch
                      /\ rows'[k].leaseUntil >= TTL - spent[i]
    BY <1>6 DEF ClaimsForItsOwn, Fences, LeaseOf
  <2>1. /\ rows[k].owner = i /\ rows[k].epoch = held[i][k].epoch /\ k \in Segments
        /\ rows[k].leaseUntil >= TTL - spent[i]
    BY <1>1 DEF InstanceOK, ClaimsForItsOwn, Fences, LeaseOf, HeldBy
  <2> QED BY <2>1
<1>9. BatchesHoldSegments(i)'
  <2> SUFFICES ASSUME setup.segmented, NEW d \in batches'[i]
               PROVE  /\ held'[i][d.key].held /\ held'[i][d.key].busy
                      /\ held'[i][d.key].leaseEnd = d.deadline
                      /\ d.stopped = "deferred" => held'[i][d.key].deferred
                      /\ rows'[d.key].owner = i /\ rows'[d.key].epoch = held'[i][d.key].epoch
                      /\ rows'[d.key].leaseUntil > d.deadline
    BY DEF BatchesHoldSegments, Fences, LeaseOf
  <2>1. PICK o \in batches[i] :
          /\ o.key = d.key /\ o.deadline = d.deadline
          /\ d.stopped = "deferred" => o.stopped = "deferred" \/ held'[i][d.key].deferred
    <3>1. CASE d = c
      BY <3>1
    <3>2. CASE d # c
      BY <1>2, <3>2
    <3> QED BY <3>1, <3>2
  <2>2. /\ held[i][o.key].held /\ held[i][o.key].busy
        /\ held[i][o.key].leaseEnd = o.deadline
        /\ o.stopped = "deferred" => held[i][o.key].deferred
        /\ rows[o.key].owner = i /\ rows[o.key].epoch = held[i][o.key].epoch
        /\ rows[o.key].leaseUntil > o.deadline
    BY <1>1 DEF InstanceOK, BatchesHoldSegments, Fences, LeaseOf
  <2>3. o.key \in Segments /\ o.key \in HeldBy(i)
    BY <1>5, <2>2 DEF HeldBy
  <2> QED BY <2>1, <2>2, <2>3
<1>10. ItemsAreLeased(i)'
  <2> SUFFICES ASSUME setup.segmented, NEW d \in batches'[i], NEW x \in d.items
               PROVE  KeyOf(x)' = d.key /\ todo'[x].deadline = d.deadline
    BY DEF ItemsAreLeased
  <2>1. PICK o \in batches[i] : o.key = d.key /\ o.deadline = d.deadline /\ o.items = d.items
    <3>1. CASE d = c
      BY <3>1
    <3>2. CASE d # c
      BY <1>2, <3>2
    <3> QED BY <3>1, <3>2
  <2>2. KeyOf(x) = o.key /\ todo[x].deadline = o.deadline
    BY <1>1, <2>1 DEF InstanceOK, ItemsAreLeased
  <2>3. x \in Items
    BY <1>5, <2>1 DEF BatchRecords
  <2>4. KeyOf(x)' = KeyOf(x)
    BY DEF KeyOf
  <2> QED BY <2>1, <2>2, <2>3, <2>4
<1>11. OneBatchPerSegment(i)'
  <2>1. setup.segmented => \A d, o \in batches[i] : d.key = o.key => d = o
    BY <1>1 DEF InstanceOK, OneBatchPerSegment
  <2> QED BY <1>2, <2>1 DEF OneBatchPerSegment
<1>12. RunsApart(i)'
  BY <1>1, <1>2 DEF InstanceOK, RunsApart
<1>13. OnceServes(i)'
  <2> SUFFICES ASSUME i \in setup.once
               PROVE  /\ pc[i] # "stall"
                      /\ pc[i] \in {"check", "claim", "decide", "wait"} =>
                           \A k \in HeldBy(i) : held'[i][k].busy =>
                              \E d \in batches'[i] : d.key = k
                      /\ pc[i] = "decide" /\ ~drained[i] => Free(i) = {}
    BY <1>6 DEF OnceServes
  <2>1. /\ pc[i] # "stall"
        /\ pc[i] = "decide" /\ ~drained[i] => Free(i) = {}
        /\ pc[i] \in {"check", "claim", "decide", "wait"} =>
             \A k \in HeldBy(i) : held[i][k].busy => \E d \in batches[i] : d.key = k
    BY <1>1 DEF InstanceOK, OnceServes
  <2>2. ASSUME NEW k \in HeldBy(i), \E d \in batches[i] : d.key = k
        PROVE  \E d \in batches'[i] : d.key = k
    BY <1>2, <2>2
  <2> QED BY <2>1, <2>2
<1>14. InstanceOK(i)'
  BY <1>7, <1>8, <1>9, <1>10, <1>11, <1>12, <1>13 DEF InstanceOK
<1> QED BY <1>3, <1>4, <1>14, StepKeeps

\* A batch moves on by itself: nothing but its own record changes.
LEMMA BatchMoves ==
    ASSUME IInv, NEW i \in Owners, NEW b \in batches[i], NEW c \in BatchRecords,
           Becomes(i, b, c),
           c.key = b.key, c.items = b.items, c.deadline = b.deadline,
           c.running \subseteq c.items, Fits(c.running),
           \A x, y \in c.running : OrderingKey[x] = OrderingKey[y] => x = y,
           UNCHANGED <<setup, pc, spent, drained, rows, held>>,
           leftover' \subseteq leftover,
           todo' \in [Items -> ItemRecords],
           \A x \in Items : todo'[x].lease = todo[x].lease /\ todo'[x].deadline = todo[x].deadline,
           c.stopped = "deferred" => b.stopped = "deferred"
    PROVE  IInv'
<1>1. Shape
  BY DEF IInv
<1>2. rows \in [Segments -> RowRecords] /\ \A k \in Segments : rows[k].pausedTill \in Nat
  BY <1>1 DEF Shape, RowRecords
<1>3. held \in [Owners -> [Segments -> HeldRecords \cup {NotHeld}]]
  BY <1>1 DEF Shape
<1>4. /\ rows' \in [Segments -> RowRecords]
      /\ \A k \in Segments :
             /\ rows'[k].owner = rows[k].owner /\ rows'[k].epoch = rows[k].epoch
             /\ rows'[k].leaseUntil = rows[k].leaseUntil
             /\ rows'[k].pausedTill >= rows[k].pausedTill
  BY <1>2
<1>5. /\ held' \in [Owners -> [Segments -> HeldRecords \cup {NotHeld}]]
      /\ \A j \in Owners : j # i => held'[j] = held[j]
      /\ ~setup.segmented => held' = held
      /\ \A k \in Segments : held'[i][k].held = held[i][k].held
      /\ \A k \in HeldBy(i) :
             /\ held'[i][k].epoch = held[i][k].epoch /\ held'[i][k].busy = held[i][k].busy
             /\ held'[i][k].leaseEnd = held[i][k].leaseEnd
             /\ held[i][k].deferred => held'[i][k].deferred
  BY <1>3
<1>6. UNCHANGED <<setup, pc, spent, drained>>
  OBVIOUS
<1> QED BY <1>4, <1>5, <1>6, BecomesKeeps

LEMMA BatchFacts ==
    ASSUME IInv, NEW i \in Owners, NEW b \in batches[i]
    PROVE  /\ b \in BatchRecords
           /\ b.running \subseteq b.items /\ Fits(b.running)
           /\ \A x, y \in b.running : OrderingKey[x] = OrderingKey[y] => x = y
<1>1. Shape /\ InstanceOK(i)
  BY DEF IInv
<1> QED BY <1>1 DEF Shape, InstanceOK, RunsApart

LEMMA StartItemStep ==
    ASSUME IInv, NEW i \in Owners, NEW b \in batches[i], StartItem(i, b)
    PROVE  IInv'
<1>1. PICK x \in next(b) :
        Becomes(i, b, IF b.deadline > 0
           THEN [b EXCEPT !.started = @ \cup {x}, !.running = @ \cup {x}]
           ELSE [b EXCEPT !.started = @ \cup {x}, !.parked = @ \cup {OrderingKey[x]}])
  BY DEF StartItem
<1>2. UNCHANGED <<setup, pc, spent, drained, rows, held, todo, leftover>>
  BY DEF StartItem, storeVars, schedVars, loopVars
<1>3. /\ b \in BatchRecords /\ b.running \subseteq b.items /\ Fits(b.running)
      /\ \A y, z \in b.running : OrderingKey[y] = OrderingKey[z] => y = z
  BY BatchFacts
<1>4. x \in b.items /\ ~InUse(b, x) /\ ~(Cardinality(b.running) >= Concurrency)
  BY <1>1 DEF next, Ready
<1>5. x \in Items /\ OrderingKey[x] \in Keys
  BY <1>3, <1>4 DEF BatchRecords, Keys
<1>6. todo \in [Items -> ItemRecords]
  BY DEF IInv, Shape
<1> DEFINE st == b.started \cup {x}
           ru == b.running \cup {x}
           pa == b.parked \cup {OrderingKey[x]}
<1>7. /\ st \in SUBSET Items /\ ru \in SUBSET Items /\ pa \in SUBSET Keys
      /\ ru \subseteq b.items /\ Fits(ru)
      /\ \A y, z \in ru : OrderingKey[y] = OrderingKey[z] => y = z
  <2>1. Fits(ru)
    BY <1>3, <1>4, SlotFacts
  <2> QED BY <1>3, <1>4, <1>5, <2>1 DEF BatchRecords, InUse
<1>8. CASE b.deadline > 0
  <2> DEFINE c == [b EXCEPT !.started = st, !.running = ru]
  <2>1. Becomes(i, b, c)
    BY <1>1, <1>8
  <2> HIDE DEF st, ru
  <2>2. /\ c \in BatchRecords /\ c.key = b.key /\ c.items = b.items /\ c.deadline = b.deadline
        /\ c.running = ru /\ c.stopped = b.stopped
    BY <1>3, <1>7 DEF BatchRecords
  <2> HIDE DEF c
  <2> QED BY <1>2, <1>6, <1>7, <2>1, <2>2, BatchMoves
<1>9. CASE ~(b.deadline > 0)
  <2> DEFINE c == [b EXCEPT !.started = st, !.parked = pa]
  <2>1. Becomes(i, b, c)
    BY <1>1, <1>9
  <2> HIDE DEF st, pa
  <2>2. /\ c \in BatchRecords /\ c.key = b.key /\ c.items = b.items /\ c.deadline = b.deadline
        /\ c.running = b.running /\ c.stopped = b.stopped
    BY <1>3, <1>7 DEF BatchRecords
  <2> HIDE DEF c
  <2> QED BY <1>2, <1>3, <1>6, <2>1, <2>2, BatchMoves
<1> QED BY <1>8, <1>9

LEMMA WorkDoneStep ==
    ASSUME IInv, NEW i \in Owners, NEW b \in batches[i], NEW x \in b.running,
           WorkDone(i, b, x)
    PROVE  IInv'
<1> DEFINE ru == b.running \ {x}
           c  == [b EXCEPT !.running = ru]
<1>1. /\ Becomes(i, b, c) /\ leftover' \subseteq leftover
      /\ UNCHANGED <<setup, pc, spent, drained, rows, held>>
      /\ todo' = [todo EXCEPT ![x].done = TRUE]
  BY DEF WorkDone, storeVars, schedVars, loopVars
<1>2. /\ b \in BatchRecords /\ b.running \subseteq b.items /\ Fits(b.running)
      /\ \A y, z \in b.running : OrderingKey[y] = OrderingKey[z] => y = z
  BY BatchFacts
<1>3. ru \in SUBSET Items /\ x \in Items /\ ru \subseteq b.running /\ Fits(ru)
  BY <1>2, SlotFacts DEF BatchRecords
<1>4. todo \in [Items -> ItemRecords]
  BY DEF IInv, Shape
<1>5. /\ todo' \in [Items -> ItemRecords]
      /\ \A y \in Items : todo'[y].lease = todo[y].lease /\ todo'[y].deadline = todo[y].deadline
  BY <1>1, <1>3, <1>4 DEF ItemRecords
<1> HIDE DEF ru
<1>6. /\ c \in BatchRecords /\ c.key = b.key /\ c.items = b.items /\ c.deadline = b.deadline
      /\ c.running = ru /\ c.stopped = b.stopped
  BY <1>2, <1>3 DEF BatchRecords
<1> HIDE DEF c
<1> QED BY <1>1, <1>2, <1>3, <1>5, <1>6, BatchMoves

LEMMA WorkFailsStep ==
    ASSUME IInv, NEW i \in Owners, NEW b \in batches[i], NEW x \in b.running,
           WorkFails(i, b, x)
    PROVE  IInv'
<1> DEFINE ru == b.running \ {x}
           pa == b.parked \cup {OrderingKey[x]}
           sp == IF b.stopped = "no" THEN "stopping" ELSE b.stopped
           c  == [b EXCEPT !.running = ru, !.parked = pa]
           d  == [b EXCEPT !.running = ru, !.stopped = sp]
<1>1. /\ Becomes(i, b, c) \/ Becomes(i, b, d)
      /\ UNCHANGED <<setup, pc, spent, drained, rows, held, todo, leftover>>
  BY DEF WorkFails, storeVars, schedVars, loopVars
<1>2. /\ b \in BatchRecords /\ b.running \subseteq b.items /\ Fits(b.running)
      /\ \A y, z \in b.running : OrderingKey[y] = OrderingKey[z] => y = z
  BY BatchFacts
<1>3. /\ ru \in SUBSET Items /\ ru \subseteq b.running /\ Fits(ru) /\ pa \in SUBSET Keys
      /\ sp \in {"no", "deferred", "stopping"} /\ (sp = "deferred" => b.stopped = "deferred")
  BY <1>2, SlotFacts DEF BatchRecords, Keys
<1>4. todo \in [Items -> ItemRecords]
  BY DEF IInv, Shape
<1> HIDE DEF ru, pa, sp
<1>5. /\ c \in BatchRecords /\ c.key = b.key /\ c.items = b.items /\ c.deadline = b.deadline
      /\ c.running = ru /\ c.stopped = b.stopped
  BY <1>2, <1>3 DEF BatchRecords
<1>6. /\ d \in BatchRecords /\ d.key = b.key /\ d.items = b.items /\ d.deadline = b.deadline
      /\ d.running = ru /\ d.stopped = sp
  BY <1>2, <1>3 DEF BatchRecords
<1> HIDE DEF c, d
<1>7. CASE Becomes(i, b, c)
  BY <1>1, <1>2, <1>3, <1>4, <1>5, <1>7, BatchMoves
<1>8. CASE Becomes(i, b, d)
  BY <1>1, <1>2, <1>3, <1>4, <1>6, <1>8, BatchMoves
<1> QED BY <1>1, <1>7, <1>8


LEMMA WorkDefersStep ==
    ASSUME IInv, NEW i \in Owners, NEW b \in batches[i], NEW x \in b.running,
           NEW d \in Pauses, WorkDefers(i, b, x, d)
    PROVE  IInv'
<1> DEFINE ru == b.running \ {x}
           c  == [b EXCEPT !.running = ru, !.stopped = "deferred"]
           k  == b.key
<1>1. Becomes(i, b, c) /\ UNCHANGED <<setup, pc, spent, drained, todo, leftover>>
  BY DEF WorkDefers, loopVars
<1>2. /\ b \in BatchRecords /\ b.running \subseteq b.items /\ Fits(b.running)
      /\ \A y, z \in b.running : OrderingKey[y] = OrderingKey[z] => y = z
  BY BatchFacts
<1>3. ru \in SUBSET Items /\ ru \subseteq b.running /\ k \in Segments /\ Fits(ru)
  BY <1>2, SlotFacts DEF BatchRecords
<1>4. /\ todo \in [Items -> ItemRecords] /\ rows \in [Segments -> RowRecords]
      /\ held \in [Owners -> [Segments -> HeldRecords \cup {NotHeld}]]
      /\ setup.segmented \in BOOLEAN
  BY SetupFacts DEF IInv, Shape
<1> HIDE DEF ru
<1>5. /\ c \in BatchRecords /\ c.key = k /\ c.items = b.items /\ c.deadline = b.deadline
      /\ c.running = ru /\ c.stopped = "deferred"
  BY <1>2, <1>3 DEF BatchRecords
<1> HIDE DEF c
<1>6. CASE setup.segmented
  <2>1. held[i][k].held
    BY <1>6 DEF IInv, InstanceOK, BatchesHoldSegments
  <2> DEFINE h == held[i][k]
             t == Max({h.deferUntil, d})
             n == [h EXCEPT !.deferred = TRUE, !.deferUntil = t]
  <2>2. h \in HeldRecords
    BY <1>3, <1>4, <2>1 DEF NotHeld
  <2>3. t \in Nat
    BY <2>2, MaxOfTwo, Constant DEF HeldRecords
  <2>4. held' = [held EXCEPT ![i][k].deferred = TRUE, ![i][k].deferUntil = Max({@, d})]
        /\ rows' = rows
    BY <1>6, <2>1 DEF WorkDefers, storeVars
  <2>5. held' = [held EXCEPT ![i] = [held[i] EXCEPT ![k] = n]]
    BY <1>3, <1>4, <2>2, <2>4 DEF HeldRecords
  <2> HIDE DEF t
  <2>6. /\ n \in HeldRecords /\ n.held = h.held /\ n.epoch = h.epoch /\ n.busy = h.busy
        /\ n.leaseEnd = h.leaseEnd /\ n.deferred
    BY <2>2, <2>3 DEF HeldRecords
  <2> HIDE DEF n
  <2>7. /\ held' \in [Owners -> [Segments -> HeldRecords \cup {NotHeld}]]
        /\ \A j \in Owners : j # i => held'[j] = held[j]
        /\ held'[i][k] = n
        /\ \A j \in Segments : j # k => held'[i][j] = held[i][j]
    BY <1>3, <1>4, <2>5, <2>6
  <2>8. \A j \in Segments : held'[i][j].held = held[i][j].held
    BY <2>6, <2>7
  <2>9. \A j \in HeldBy(i) :
             /\ held'[i][j].epoch = held[i][j].epoch /\ held'[i][j].busy = held[i][j].busy
             /\ held'[i][j].leaseEnd = held[i][j].leaseEnd
             /\ held[i][j].deferred => held'[i][j].deferred
    BY <2>6, <2>7 DEF HeldBy
  <2>10. held'[i][b.key].deferred
    BY <2>6, <2>7
  <2>11. \A j \in Segments : rows[j].pausedTill \in Nat
    BY <1>4 DEF RowRecords
  <2> HIDE DEF k, h
  <2>12. /\ c.key = b.key /\ c.running \subseteq c.items /\ Fits(c.running)
         /\ \A y, z \in c.running : OrderingKey[y] = OrderingKey[z] => y = z
    BY <1>2, <1>3, <1>5 DEF k
  <2>13. /\ rows' \in [Segments -> RowRecords]
         /\ \A j \in Segments :
             /\ rows'[j].owner = rows[j].owner /\ rows'[j].epoch = rows[j].epoch
             /\ rows'[j].leaseUntil = rows[j].leaseUntil
             /\ rows'[j].pausedTill >= rows[j].pausedTill
    BY <1>4, <2>4, <2>11
  <2>14. todo' \in [Items -> ItemRecords] /\ todo' = todo
    BY <1>1, <1>4
  <2> QED BY <1>1, <1>5, <1>6, <2>7, <2>8, <2>9, <2>10, <2>12, <2>13, <2>14, BecomesKeeps
<1>7. CASE ~setup.segmented
  <2>1. (rows' = DeferTo(rows, k, d, 0) \/ rows' = rows) /\ held' = held
    BY <1>7 DEF WorkDefers, Defer, storeVars
  <2> DEFINE t == Longer(rows[k], d, 0)
  <2>2. rows[k].pausedTill \in Nat /\ d \in Nat
    BY <1>3, <1>4, Constant DEF RowRecords
  <2>3. t \in Nat /\ t >= rows[k].pausedTill
    BY <2>2 DEF Longer
  <2>4. PICK u \in {t, rows[k].pausedTill} :
          rows' = [rows EXCEPT ![k] = [rows[k] EXCEPT !.pausedTill = u]]
    <3>1. rows' = DeferTo(rows, k, d, 0) =>
            rows' = [rows EXCEPT ![k] = [rows[k] EXCEPT !.pausedTill = t]]
      BY <1>3, <1>4 DEF DeferTo
    <3>2. rows = [rows EXCEPT ![k] = [rows[k] EXCEPT !.pausedTill = rows[k].pausedTill]]
      BY <1>3, <1>4 DEF RowRecords
    <3> QED BY <2>1, <3>1, <3>2
  <2> HIDE DEF t
  <2>5. /\ rows' \in [Segments -> RowRecords] /\ u \in Nat /\ u >= rows[k].pausedTill
        /\ rows'[k] = [rows[k] EXCEPT !.pausedTill = u]
        /\ \A j \in Segments : j # k => rows'[j] = rows[j]
    <3>1. u \in Nat /\ u >= rows[k].pausedTill
      BY <2>2, <2>3
    <3> QED BY <1>3, <1>4, <2>4, <3>1 DEF RowRecords
  <2>6. \A j \in Segments :
             /\ rows'[j].owner = rows[j].owner /\ rows'[j].epoch = rows[j].epoch
             /\ rows'[j].leaseUntil = rows[j].leaseUntil
             /\ rows'[j].pausedTill >= rows[j].pausedTill
    <3> TAKE j \in Segments
    <3>1. rows[j] \in RowRecords
      BY <1>4
    <3>2. CASE j = k
      BY <2>3, <2>5, <3>1, <3>2 DEF RowRecords
    <3>3. CASE j # k
      BY <2>5, <3>1, <3>3 DEF RowRecords
    <3> QED BY <3>2, <3>3
  <2> HIDE DEF k
  <2>7. c.key = b.key
    BY <1>5 DEF k
  <2> QED BY <1>1, <1>2, <1>3, <1>4, <1>5, <1>7, <2>1, <2>5, <2>6, <2>7, BecomesKeeps
<1> QED BY <1>4, <1>6, <1>7

-----------------------------------------------------------------------------
(* A batch ends, a scheduler is closed, an instance dies.                    *)

(***************************************************************************)
(* Giving segments back by leases that i has changes only those rows, and    *)
(* frees them.                                                               *)
(***************************************************************************)
LEMMA GivingBack ==
    ASSUME NEW i \in Owners, NEW rs \in [Segments -> RowRecords], NEW rel,
           \A q \in rel : /\ q.deferFor \in Nat /\ q.served \in BOOLEAN
                          /\ q.lease.key \in HeldBy(i) /\ q.lease = LeaseOf(i, q.lease.key),
           NEW out, out = ReleaseTo(rs, rel, 0)
    PROVE  /\ out \in [Segments -> RowRecords]
           /\ \A k \in Segments :
                \/ out[k] = rs[k]
                \/ /\ rs[k].owner = i /\ out[k].owner = None
                   /\ out[k].pausedTill >= rs[k].pausedTill
                   /\ \E q \in rel : q.lease.key = k
           /\ \A k \in Segments : Spares(i, k, rs[k], out[k])
<1>1. out \in [Segments -> RowRecords]
  BY ReleaseFacts
<1>2. ASSUME NEW k \in Segments
      PROVE  /\ \/ out[k] = rs[k]
                \/ /\ rs[k].owner = i /\ out[k].owner = None
                   /\ out[k].pausedTill >= rs[k].pausedTill
                   /\ \E q \in rel : q.lease.key = k
             /\ Spares(i, k, rs[k], out[k])
  <2>1. rs[k] \in RowRecords /\ rs[k].pausedTill \in Nat
    BY DEF RowRecords
  <2>2. \/ out[k] = rs[k]
        \/ \E q \in rel : /\ q.lease.key = k /\ Fences(rs, q.lease)
                          /\ out[k] = ReleaseOne(rs[k], q.deferFor, q.served, 0)
    BY ReleaseFacts
  <2>3. CASE out[k] = rs[k]
    BY <2>1, <2>3 DEF Spares
  <2>4. CASE out[k] # rs[k]
    <3>1. PICK q \in rel : /\ q.lease.key = k /\ Fences(rs, q.lease)
                           /\ out[k] = ReleaseOne(rs[k], q.deferFor, q.served, 0)
      BY <2>2, <2>4
    <3>2. q.lease = LeaseOf(i, k) /\ k \in HeldBy(i)
      BY <3>1
    <3>3. Fenced(i, k, rs[k])
      BY <3>1, <3>2 DEF Fences, LeaseOf, HeldBy, Fenced
    <3>4. out[k].owner = None /\ out[k].pausedTill >= rs[k].pausedTill
      BY <2>1, <3>1, ReleaseOneFacts
    <3> QED BY <3>1, <3>3, <3>4 DEF Spares, Fenced
  <2> QED BY <2>3, <2>4
<1> QED BY <1>1, <1>2

\* What i asks when it gives a segment back that it holds.
LEMMA GivingFacts ==
    ASSUME Shape, NEW i \in Owners, NEW k \in HeldBy(i), NEW d \in Nat
    PROVE  /\ held[i][k] \in HeldRecords /\ k \in Segments
           /\ Giving(i, k, d).deferFor = d /\ Giving(i, k, d).served \in BOOLEAN
           /\ Giving(i, k, d).lease = LeaseOf(i, k)
           /\ LeaseOf(i, k).owner = i /\ LeaseOf(i, k).key = k
           /\ LeaseOf(i, k).epoch = held[i][k].epoch
<1>1. held[i][k] \in HeldRecords /\ k \in Segments
  BY DEF Shape, HeldBy, NotHeld
<1>2. held[i][k].served \in BOOLEAN
  BY <1>1 DEF HeldRecords
<1> QED BY <1>1, <1>2 DEF Giving, LeaseOf

LEMMA CloseFacts ==
    ASSUME Shape, NEW i \in Owners, Close(i)
    PROVE  /\ rows' \in [Segments -> RowRecords]
           /\ \A k \in Segments : Spares(i, k, rows[k], rows'[k])
           /\ held' \in [Owners -> [Segments -> HeldRecords \cup {NotHeld}]]
           /\ \A j \in Owners : j # i => held'[j] = held[j]
           /\ \A k \in Segments : held'[i][k] = NotHeld
<1> DEFINE D(k) == IF held[i][k].deferred THEN held[i][k].deferUntil ELSE 0
           rel == {Giving(i, k, D(k)) : k \in HeldBy(i)}
<1>1. rows' = ReleaseTo(rows, rel, 0) \/ rows' = rows
  BY DEF Close, GiveBack, storeVars
<1>2. \A q \in rel : /\ q.deferFor \in Nat /\ q.served \in BOOLEAN
                     /\ q.lease.key \in HeldBy(i) /\ q.lease = LeaseOf(i, q.lease.key)
  <2> SUFFICES ASSUME NEW k \in HeldBy(i)
               PROVE  LET q == Giving(i, k, D(k)) IN
                      /\ q.deferFor \in Nat /\ q.served \in BOOLEAN
                      /\ q.lease.key \in HeldBy(i) /\ q.lease = LeaseOf(i, q.lease.key)
    OBVIOUS
  <2>1. held[i][k] \in HeldRecords
    BY GivingFacts
  <2>2. D(k) \in Nat
    BY <2>1 DEF HeldRecords
  <2> HIDE DEF D
  <2> QED BY <2>2, GivingFacts
<1>3. rows \in [Segments -> RowRecords]
  BY DEF Shape
<1> HIDE DEF rel
<1>4. /\ rows' \in [Segments -> RowRecords]
      /\ \A k \in Segments : Spares(i, k, rows[k], rows'[k])
  <2>1. CASE rows' = ReleaseTo(rows, rel, 0)
    BY <1>2, <1>3, <2>1, GivingBack
  <2>2. CASE rows' = rows
    BY <1>3, <2>2 DEF Spares, RowRecords
  <2> QED BY <1>1, <2>1, <2>2
<1>5. /\ held \in [Owners -> [Segments -> HeldRecords \cup {NotHeld}]]
      /\ held' = [held EXCEPT ![i] = [k \in Segments |-> NotHeld]]
  BY DEF Shape, Close
<1> QED BY <1>4, <1>5

(***************************************************************************)
(* An instance without batches lets go of every segment, in the store too or *)
(* not, and goes where it claims nothing.                                    *)
(***************************************************************************)
LEMMA LetGoKeeps ==
    ASSUME IInv, NEW i \in Owners, NEW w \in {"wait", "returned", "crashed"}, Goto(i, w),
           UNCHANGED <<setup, todo, spent, drained, leftover>>,
           rows' \in [Segments -> RowRecords],
           \A k \in Segments : Spares(i, k, rows[k], rows'[k]),
           held' \in [Owners -> [Segments -> HeldRecords \cup {NotHeld}]],
           \A j \in Owners : j # i => held'[j] = held[j],
           \A k \in Segments : held'[i][k] = NotHeld,
           batches' = [batches EXCEPT ![i] = {}]
    PROVE  IInv'
<1>1. Shape
  BY DEF IInv
<1>2. /\ pc' \in [Owners -> Places] /\ pc'[i] = w
      /\ \A j \in Owners : j # i => pc'[j] = pc[j]
  BY <1>1 DEF Shape, Goto, Places
<1>3. /\ batches' \in [Owners -> SUBSET BatchRecords] /\ batches'[i] = {}
      /\ \A j \in Owners : j # i => batches'[j] = batches[j]
  BY <1>1 DEF Shape
<1>4. Shape'
  BY <1>1, <1>2, <1>3 DEF Shape
<1>5. StepOf(i)
  BY <1>2, <1>3 DEF StepOf, HoldsNoMore, NotHeld
<1>6. HeldBy(i)' = {}
  BY DEF HeldBy, NotHeld
<1>7. InstanceOK(i)'
  <2>1. SegmentsAreSegmented(i)' /\ ClaimsForItsOwn(i)' /\ OnceServes(i)'
    BY <1>2, <1>6 DEF SegmentsAreSegmented, ClaimsForItsOwn, OnceServes
  <2>2. /\ BatchesHoldSegments(i)' /\ ItemsAreLeased(i)' /\ OneBatchPerSegment(i)'
        /\ RunsApart(i)'
    BY <1>3 DEF BatchesHoldSegments, ItemsAreLeased, OneBatchPerSegment, RunsApart
  <2> QED BY <2>1, <2>2 DEF InstanceOK
<1> QED BY <1>4, <1>5, <1>7, StepKeeps

\* Where nothing runs, batches without i's are the batches.
LEMMA NoneToDrop ==
    ASSUME Shape, NEW i \in Owners, batches[i] = {}
    PROVE  batches = [batches EXCEPT ![i] = {}]
  BY DEF Shape

LEMMA StandPausedStep == ASSUME IInv, NEW i \in Owners, StandPaused(i) PROVE IInv'
<1>1. /\ UNCHANGED <<setup, todo, batches, spent, drained, leftover>> /\ pc[i] = "check"
  BY DEF StandPaused
<1>2. CASE i \in setup.once
  <2>1. Goto(i, "drain") /\ UNCHANGED <<rows, held>>
    BY <1>2 DEF StandPaused
  <2> QED BY <1>1, <2>1, MoveKeeps
<1>3. CASE i \notin setup.once /\ MayGiveBack(i)
  <2>1. Goto(i, "wait") /\ Close(i) /\ batches[i] = {}
    BY <1>3 DEF StandPaused, Wait, MayGiveBack
  <2>2. Shape
    BY DEF IInv
  <2>3. batches' = [batches EXCEPT ![i] = {}]
    BY <1>1, <2>1, <2>2, NoneToDrop
  <2> QED BY <1>1, <2>1, <2>2, <2>3, CloseFacts, LetGoKeeps
<1>4. CASE i \notin setup.once /\ ~MayGiveBack(i)
  <2>1. Goto(i, "wait") /\ UNCHANGED <<rows, held>>
    BY <1>4 DEF StandPaused, Wait
  <2> QED BY <1>1, <1>4, <2>1, MoveKeeps
<1> QED BY <1>2, <1>3, <1>4

LEMMA ReturnStep == ASSUME IInv, NEW i \in Owners, Return(i) PROVE IInv'
<1>1. /\ UNCHANGED <<setup, todo, batches, spent, drained, leftover>>
      /\ Goto(i, "returned") /\ Close(i) /\ batches[i] = {}
  BY DEF Return
<1>2. Shape
  BY DEF IInv
<1>3. batches' = [batches EXCEPT ![i] = {}]
  BY <1>1, <1>2, NoneToDrop
<1> QED BY <1>1, <1>2, <1>3, CloseFacts, LetGoKeeps

LEMMA CrashStep == ASSUME IInv, NEW i \in Owners, Crash(i) PROVE IInv'
<1>1. /\ UNCHANGED <<setup, rows, todo, spent, drained, leftover>>
      /\ Goto(i, "crashed") /\ batches' = [batches EXCEPT ![i] = {}]
      /\ held' = [held EXCEPT ![i] = [k \in Segments |-> NotHeld]]
  BY DEF Crash, storeVars
<1>2. Shape
  BY DEF IInv
<1>3. /\ rows' \in [Segments -> RowRecords]
      /\ \A k \in Segments : Spares(i, k, rows[k], rows'[k])
  BY <1>1, <1>2 DEF Shape, Spares, RowRecords
<1>4. /\ held' \in [Owners -> [Segments -> HeldRecords \cup {NotHeld}]]
      /\ \A j \in Owners : j # i => held'[j] = held[j]
      /\ \A k \in Segments : held'[i][k] = NotHeld
  BY <1>1, <1>2 DEF Shape
<1> QED BY <1>1, <1>3, <1>4, LetGoKeeps


LEMMA DrainedStep ==
    ASSUME IInv, NEW i \in Owners, NEW b \in batches[i], Drained(i, b)
    PROVE  IInv'
<1> DEFINE k == b.key
           h == held[i][k]
<1>1. Shape /\ InstanceOK(i) /\ b \in BatchRecords /\ k \in Segments
  BY BatchFacts DEF IInv, BatchRecords
<1>2. /\ pc[i] # "claim" /\ UNCHANGED <<setup, todo, pc, spent>>
      /\ batches' = [batches EXCEPT ![i] = batches[i] \ {b}]
      /\ drained' = [drained EXCEPT ![i] = i \in setup.once]
  BY DEF Drained, Unlocked
<1>3. /\ batches' \in [Owners -> SUBSET BatchRecords] /\ batches'[i] = batches[i] \ {b}
      /\ \A j \in Owners : j # i => batches'[j] = batches[j]
  <2> DEFINE n == batches[i] \ {b}
  <2>1. n \in SUBSET BatchRecords /\ batches \in [Owners -> SUBSET BatchRecords]
    BY <1>1 DEF Shape
  <2>2. batches' = [batches EXCEPT ![i] = n]
    BY <1>2
  <2>3. /\ batches' \in [Owners -> SUBSET BatchRecords] /\ batches'[i] = n
        /\ \A j \in Owners : j # i => batches'[j] = batches[j]
    <3> HIDE DEF n
    <3> QED BY <2>1, <2>2
  <2> QED BY <2>3
<1>4. /\ drained' \in [Owners -> BOOLEAN] /\ (i \in setup.once => drained'[i])
      /\ \A j \in Owners : j # i => drained'[j] = drained[j]
  <2> DEFINE v == i \in setup.once
  <2>1. v \in BOOLEAN /\ drained \in [Owners -> BOOLEAN]
    BY <1>1 DEF Shape
  <2>2. drained' = [drained EXCEPT ![i] = v]
    BY <1>2
  <2>3. /\ drained' \in [Owners -> BOOLEAN] /\ drained'[i] = v
        /\ \A j \in Owners : j # i => drained'[j] = drained[j]
    <3> HIDE DEF v
    <3> QED BY <2>1, <2>2
  <2> QED BY <2>3
<1>5. setup.segmented =>
        /\ h.held /\ h.busy /\ h.leaseEnd = b.deadline /\ h \in HeldRecords
        /\ b.stopped = "deferred" => h.deferred
        /\ rows[k].owner = i /\ rows[k].epoch = h.epoch /\ rows[k].leaseUntil > b.deadline
        /\ \A x \in b.items : KeyOf(x) = k /\ todo[x].deadline = b.deadline
        /\ \A c \in batches[i] : c # b => c.key # k
  <2>1. setup.segmented => h.held
    BY <1>1 DEF InstanceOK, BatchesHoldSegments
  <2>2. h \in HeldRecords \cup {NotHeld}
    BY <1>1 DEF Shape
  <2>3. setup.segmented => h \in HeldRecords
    BY <2>1, <2>2 DEF NotHeld
  <2> QED BY <1>1, <2>3 DEF InstanceOK, BatchesHoldSegments, ItemsAreLeased,
                           OneBatchPerSegment, Fences, LeaseOf
<1>6. ~setup.segmented => held[i][k] = NotHeld
  BY <1>1 DEF InstanceOK, SegmentsAreSegmented
<1>7. /\ rows \in [Segments -> RowRecords]
      /\ held \in [Owners -> [Segments -> HeldRecords \cup {NotHeld}]]
      /\ setup.segmented \in BOOLEAN
  BY <1>1, SetupFacts DEF Shape
<1>8. /\ rows' \in [Segments -> RowRecords]
      /\ \A j \in Segments : Spares(i, j, rows[j], rows'[j]) /\ HoldsNoMore(i, j)
      /\ \A j \in Segments : j # k => rows'[j] = rows[j]
      /\ held' \in [Owners -> [Segments -> HeldRecords \cup {NotHeld}]]
      /\ \A j \in Owners : j # i => held'[j] = held[j]
      /\ \A j \in Segments : j # k => held'[i][j] = held[i][j]
      /\ ~setup.segmented => held' = held
      /\ setup.segmented => held'[i][k] = NotHeld \/ ~held'[i][k].busy
      /\ setup.segmented /\ h.deferred =>
           /\ held'[i][k] = NotHeld /\ rows'[k].owner \in {None, i}
           /\ \/ rows'[k].pausedTill >= b.deadline
              \/ rows'[k].owner # None /\ rows'[k].leaseUntil >= b.deadline
  <2>1. CASE setup.segmented /\ h.deferred
    <3> DEFINE d == PauseOf(h)
               rel == {Giving(i, k, d)}
    <3>1. d \in Nat /\ d >= b.deadline
      <4>1. h.deferUntil \in Nat /\ h.leaseEnd \in Nat /\ h.leaseEnd = b.deadline
        BY <1>5, <2>1 DEF HeldRecords
      <4> QED BY <4>1, MaxOfTwo DEF PauseOf
    <3>2. /\ rows' = ReleaseTo(rows, rel, 0) \/ rows' = rows
          /\ held' = [held EXCEPT ![i][k] = NotHeld]
      BY <1>5, <2>1 DEF Drained, GiveBack, storeVars
    <3> HIDE DEF d
    <3>3. k \in HeldBy(i)
      BY <1>1, <1>5, <2>1 DEF HeldBy
    <3>4. /\ Giving(i, k, d).deferFor = d /\ Giving(i, k, d).served \in BOOLEAN
          /\ Giving(i, k, d).lease = LeaseOf(i, k) /\ LeaseOf(i, k).owner = i
          /\ LeaseOf(i, k).key = k /\ LeaseOf(i, k).epoch = h.epoch
      BY <1>1, <3>1, <3>3, GivingFacts
    <3>5. \A q \in rel : /\ q.deferFor = d /\ q.served \in BOOLEAN
                         /\ q.lease.key \in HeldBy(i) /\ q.lease = LeaseOf(i, q.lease.key)
                         /\ q.lease.key = k
      BY <3>3, <3>4
    <3>6. \E q \in rel : q.lease.key = k /\ Fences(rows, q.lease)
      BY <1>5, <2>1, <3>4 DEF Fences
    <3>7. /\ rows' \in [Segments -> RowRecords]
          /\ \A j \in Segments : Spares(i, j, rows[j], rows'[j])
          /\ \A j \in Segments : j # k => rows'[j] = rows[j]
      <4> HIDE DEF rel
      <4>1. CASE rows' = ReleaseTo(rows, rel, 0)
        BY <1>7, <3>1, <3>5, <4>1, GivingBack
      <4>2. CASE rows' = rows
        BY <1>7, <4>2 DEF Spares, RowRecords
      <4> QED BY <3>2, <4>1, <4>2
    <3>8. /\ rows'[k].owner \in {None, i}
          /\ \/ rows'[k].pausedTill >= b.deadline
             \/ rows'[k].owner # None /\ rows'[k].leaseUntil >= b.deadline
      <4> HIDE DEF rel
      <4>1. rows[k] \in RowRecords /\ rows'[k] \in RowRecords /\ b.deadline \in Nat
        BY <1>1, <1>7, <3>7 DEF BatchRecords
      <4>2. CASE rows' = ReleaseTo(rows, rel, 0)
        <5>1. PICK q \in rel : rows'[k] = ReleaseOne(rows[k], q.deferFor, q.served, 0)
          BY <1>1, <1>7, <3>1, <3>5, <3>6, <4>2, ReleaseFacts
        <5>2. rows'[k].owner = None /\ rows'[k].pausedTill >= d
          BY <3>1, <3>5, <4>1, <5>1, ReleaseOneFacts
        <5> QED BY <3>1, <4>1, <5>2 DEF RowRecords
      <4>3. CASE rows' = rows
        BY <1>5, <2>1, <4>1, <4>3, Constant DEF RowRecords
      <4> QED BY <3>2, <4>2, <4>3
    <3>9. /\ held' \in [Owners -> [Segments -> HeldRecords \cup {NotHeld}]]
          /\ \A j \in Owners : j # i => held'[j] = held[j]
          /\ \A j \in Segments : j # k => held'[i][j] = held[i][j]
          /\ held'[i][k] = NotHeld
      BY <1>1, <1>7, <3>2
    <3>10. \A j \in Segments : HoldsNoMore(i, j)
      BY <3>9 DEF HoldsNoMore, NotHeld
    <3> HIDE DEF rel
    <3> QED BY <2>1, <3>7, <3>8, <3>9, <3>10
  <2>2. CASE setup.segmented /\ ~h.deferred
    <3>1. rows' = rows /\ held' = [held EXCEPT ![i][k].busy = FALSE]
      BY <1>5, <2>2 DEF Drained, storeVars
    <3> DEFINE n == [h EXCEPT !.busy = FALSE]
    <3>2. n \in HeldRecords /\ ~n.busy /\ n.epoch = h.epoch
      BY <1>5, <2>2 DEF HeldRecords
    <3>3. held' = [held EXCEPT ![i] = [held[i] EXCEPT ![k] = n]]
      BY <1>1, <1>7, <3>1
    <3> HIDE DEF n
    <3>4. /\ held' \in [Owners -> [Segments -> HeldRecords \cup {NotHeld}]]
          /\ \A j \in Owners : j # i => held'[j] = held[j]
          /\ \A j \in Segments : j # k => held'[i][j] = held[i][j]
          /\ held'[i][k] = n
      BY <1>1, <1>7, <3>2, <3>3
    <3>5. \A j \in Segments : Spares(i, j, rows[j], rows'[j])
      BY <1>7, <3>1 DEF Spares, RowRecords
    <3>6. \A j \in Segments : HoldsNoMore(i, j)
      BY <1>5, <2>2, <3>2, <3>4 DEF HoldsNoMore
    <3> QED BY <1>7, <2>2, <3>1, <3>2, <3>4, <3>5, <3>6
  <2>3. CASE ~setup.segmented
    <3>1. rows' = rows /\ held' = held
      BY <2>3 DEF Drained, storeVars
    <3>2. \A j \in Segments : Spares(i, j, rows[j], rows'[j]) /\ HoldsNoMore(i, j)
      BY <1>7, <3>1 DEF Spares, HoldsNoMore, RowRecords
    <3> QED BY <1>7, <2>3, <3>1, <3>2
  <2> QED BY <1>7, <2>1, <2>2, <2>3
<1>9. leftover' = IF b.stopped = "deferred"
                  THEN leftover \cup {x \in b.items \ b.started : todo[x].lease > 0}
                  ELSE leftover
  BY DEF Drained
<1>10. Shape'
  <2>1. leftover' \subseteq Items
    BY <1>1, <1>9 DEF Shape, BatchRecords
  <2> QED BY <1>1, <1>2, <1>3, <1>4, <1>8, <2>1 DEF Shape
<1>11. StepOf(i)
  BY <1>2, <1>3, <1>4, <1>8 DEF StepOf
<1> HIDE DEF h
<1>12. InstanceOK(i)'
  <2>1. SegmentsAreSegmented(i)' /\ ClaimsForItsOwn(i)'
    BY <1>1, <1>2, <1>8 DEF InstanceOK, SegmentsAreSegmented, ClaimsForItsOwn
  <2>2. BatchesHoldSegments(i)'
    <3> SUFFICES ASSUME setup.segmented, NEW c \in batches'[i]
                 PROVE  /\ held'[i][c.key].held /\ held'[i][c.key].busy
                        /\ held'[i][c.key].leaseEnd = c.deadline
                        /\ c.stopped = "deferred" => held'[i][c.key].deferred
                        /\ rows'[c.key].owner = i
                        /\ rows'[c.key].epoch = held'[i][c.key].epoch
                        /\ rows'[c.key].leaseUntil > c.deadline
      BY <1>2 DEF BatchesHoldSegments, Fences, LeaseOf
    <3>1. c \in batches[i] /\ c.key # k /\ c.key \in Segments
      BY <1>1, <1>3, <1>5 DEF Shape, BatchRecords
    <3>2. held'[i][c.key] = held[i][c.key] /\ rows'[c.key] = rows[c.key]
      BY <1>8, <3>1
    <3> QED BY <1>1, <3>1, <3>2 DEF InstanceOK, BatchesHoldSegments, Fences, LeaseOf
  <2>3. ItemsAreLeased(i)' /\ OneBatchPerSegment(i)' /\ RunsApart(i)'
    BY <1>1, <1>2, <1>3
       DEF InstanceOK, ItemsAreLeased, OneBatchPerSegment, RunsApart, KeyOf
  <2>4. OnceServes(i)'
    <3> SUFFICES ASSUME i \in setup.once
                 PROVE  /\ pc[i] # "stall"
                        /\ pc[i] \in {"check", "claim", "decide", "wait"} =>
                             \A j \in HeldBy(i)' : held'[i][j].busy =>
                                \E c \in batches'[i] : c.key = j
      BY <1>2, <1>4 DEF OnceServes
    <3>1. /\ pc[i] # "stall"
          /\ pc[i] \in {"check", "claim", "decide", "wait"} =>
             \A j \in HeldBy(i) : held[i][j].busy => \E c \in batches[i] : c.key = j
      BY <1>1 DEF InstanceOK, OnceServes
    <3>2. ASSUME NEW j \in HeldBy(i)', held'[i][j].busy
          PROVE  j \in HeldBy(i) /\ j # k /\ held[i][j].busy
      <4>1. j \in Segments /\ held'[i][j].held
        BY DEF HeldBy
      <4>2. setup.segmented
        BY <1>1, <1>7, <1>8, <4>1 DEF InstanceOK, SegmentsAreSegmented, NotHeld
      <4>3. j # k
        BY <1>8, <3>2, <4>1, <4>2 DEF NotHeld
      <4> QED BY <1>8, <3>2, <4>1, <4>3 DEF HeldBy
    <3> QED BY <1>3, <3>1, <3>2
  <2> QED BY <2>1, <2>2, <2>3, <2>4 DEF InstanceOK
<1>13. \A j \in Owners : InstanceOK(j)'
  BY <1>11, <1>12, OthersStay
<1>14. LeftoverIsShut'
  <2> SUFFICES ASSUME setup.segmented, NEW x \in leftover'
               PROVE  todo'[x].lease > 0 /\ (todo'[x].deadline > 0 => IsShut(x)')
    BY <1>2 DEF LeftoverIsShut
  <2>1. CASE x \in leftover
    BY <1>10, <1>11, <2>1, ItemStaysShut
  <2>2. CASE x \notin leftover
    <3>1. b.stopped = "deferred" /\ x \in b.items /\ todo[x].lease > 0
      BY <1>9, <2>2
    <3>2. h.deferred /\ KeyOf(x) = k /\ todo[x].deadline = b.deadline
      BY <1>5, <3>1
    <3>3. /\ held'[i][k] = NotHeld /\ rows'[k].owner \in {None, i}
          /\ \/ rows'[k].pausedTill >= b.deadline
             \/ rows'[k].owner # None /\ rows'[k].leaseUntil >= b.deadline
      BY <1>8, <3>2
    <3>4. KeyOf(x)' = k /\ todo'[x].lease > 0 /\ todo'[x].deadline = b.deadline
      BY <1>2, <3>1, <3>2 DEF KeyOf
    <3>5. k \in Segments
      BY <1>1
    <3> HIDE DEF k
    <3>6. \A j \in Owners : ~Fenced(j, k, rows[k])'
      BY <3>3, Constant DEF Fenced, NotHeld
    <3> QED BY <3>3, <3>4, <3>5, <3>6 DEF IsShut
  <2> QED BY <2>1, <2>2
<1> QED BY <1>10, <1>13, <1>14 DEF IInv


-----------------------------------------------------------------------------
(* Time passes.                                                              *)

LEMMA NearerFacts ==
    ASSUME NEW t \in Nat
    PROVE  Nearer(t) \in Nat /\ (t > 0 => Nearer(t) = t - 1) /\ (t = 0 => Nearer(t) = 0)
  BY Constant DEF Nearer

(***************************************************************************)
(* A tick brings the end of a segment's lease, of its items' leases and of   *)
(* the batch's deadline nearer at once; a loop comes round to Renew in time. *)
(***************************************************************************)
LEMMA TickStep == ASSUME IInv, Tick PROVE IInv'
<1> DEFINE Later(h) == [h EXCEPT !.since = IF @ < Term THEN @ + 1 ELSE @,
                                 !.leaseEnd = Nearer(@), !.deferUntil = Nearer(@)]
           Old(b) == [b EXCEPT !.deadline = Nearer(@)]
<1>1. Shape /\ UNCHANGED <<setup, pc, drained>>
  BY DEF IInv, Tick
<1>2. \A k \in Segments :
        /\ rows[k] \in RowRecords /\ rows'[k] \in RowRecords
        /\ rows'[k].owner = rows[k].owner /\ rows'[k].epoch = rows[k].epoch
        /\ rows'[k].leaseUntil = Nearer(rows[k].leaseUntil)
        /\ rows'[k].pausedTill = Nearer(rows[k].pausedTill)
  <2> TAKE k \in Segments
  <2>1. rows[k] \in RowRecords
    BY <1>1 DEF Shape
  <2> DEFINE l == Nearer(rows[k].leaseUntil)
             p == Nearer(rows[k].pausedTill)
  <2>2. l \in Nat /\ p \in Nat
    BY <2>1, NearerFacts DEF RowRecords
  <2>3. rows'[k] = [rows[k] EXCEPT !.leaseUntil = l, !.pausedTill = p]
    BY DEF Tick, Pass, Aged
  <2>4. /\ rows'[k] \in RowRecords
        /\ rows'[k].owner = rows[k].owner /\ rows'[k].epoch = rows[k].epoch
        /\ rows'[k].leaseUntil = l /\ rows'[k].pausedTill = p
    <3> HIDE DEF l, p
    <3> QED BY <2>1, <2>2, <2>3 DEF RowRecords
  <2> QED BY <2>1, <2>4
<1>3. \A x \in Items : /\ todo[x] \in ItemRecords /\ todo'[x] \in ItemRecords
                       /\ todo'[x].lease = Nearer(todo[x].lease)
                       /\ todo'[x].deadline = Nearer(todo[x].deadline)
  <2> TAKE x \in Items
  <2>1. todo[x] \in ItemRecords
    BY <1>1 DEF Shape
  <2> DEFINE l == Nearer(todo[x].lease)
             e == Nearer(todo[x].deadline)
  <2>2. l \in Nat /\ e \in Nat
    BY <2>1, NearerFacts DEF ItemRecords
  <2>3. todo'[x] = [todo[x] EXCEPT !.lease = l, !.deadline = e]
    BY DEF Tick
  <2>4. todo'[x] \in ItemRecords /\ todo'[x].lease = l /\ todo'[x].deadline = e
    <3> HIDE DEF l, e
    <3> QED BY <2>1, <2>2, <2>3 DEF ItemRecords
  <2> QED BY <2>1, <2>4
<1>4. \A i \in Owners : \A k \in Segments :
        /\ held[i][k] \in HeldRecords \cup {NotHeld}
        /\ held'[i][k] \in HeldRecords \cup {NotHeld}
        /\ held'[i][k].held = held[i][k].held
        /\ held[i][k] = NotHeld => held'[i][k] = NotHeld
        /\ held[i][k].held =>
             /\ held'[i][k].epoch = held[i][k].epoch /\ held'[i][k].busy = held[i][k].busy
             /\ held'[i][k].deferred = held[i][k].deferred
             /\ held'[i][k].leaseEnd = Nearer(held[i][k].leaseEnd)
  <2> TAKE i \in Owners
  <2> TAKE k \in Segments
  <2> DEFINE h == held[i][k]
  <2>1. h \in HeldRecords \cup {NotHeld}
    BY <1>1 DEF Shape
  <2>2. held'[i][k] = IF ~h.held THEN NotHeld ELSE Later(h)
    BY DEF Tick
  <2>3. CASE ~h.held
    BY <2>1, <2>2, <2>3 DEF HeldRecords, NotHeld
  <2>4. CASE h.held
    <3>1. h \in HeldRecords
      BY <2>1, <2>4 DEF NotHeld
    <3> DEFINE s == IF h.since < Term THEN h.since + 1 ELSE h.since
               l == Nearer(h.leaseEnd)
               u == Nearer(h.deferUntil)
    <3>2. s \in Nat /\ l \in Nat /\ u \in Nat
      <4>1. h.since \in Nat /\ h.leaseEnd \in Nat /\ h.deferUntil \in Nat
        BY <3>1 DEF HeldRecords
      <4>2. l \in Nat /\ u \in Nat
        BY <4>1, NearerFacts
      <4> QED BY <4>1, <4>2, Constant
    <3>3. held'[i][k] = [h EXCEPT !.since = s, !.leaseEnd = l, !.deferUntil = u]
      BY <2>2, <2>4
    <3>4. /\ held'[i][k] \in HeldRecords /\ held'[i][k].held = h.held
          /\ held'[i][k].epoch = h.epoch /\ held'[i][k].busy = h.busy
          /\ held'[i][k].deferred = h.deferred /\ held'[i][k].leaseEnd = l
      <4> HIDE DEF s, l, u, h
      <4> QED BY <3>1, <3>2, <3>3 DEF HeldRecords
    <3> QED BY <2>1, <2>4, <3>4 DEF NotHeld
  <2> QED BY <2>3, <2>4
<1>5. \A i \in Owners : \A c \in batches'[i] : \E b \in batches[i] :
        /\ c \in BatchRecords /\ b \in BatchRecords /\ c = Old(b)
        /\ c.key = b.key /\ c.items = b.items /\ c.running = b.running
        /\ c.stopped = b.stopped /\ c.deadline = Nearer(b.deadline)
  <2> TAKE i \in Owners
  <2> TAKE c \in batches'[i]
  <2>1. PICK b \in batches[i] : c = Old(b)
    BY DEF Tick
  <2>2. b \in BatchRecords
    BY <1>1 DEF Shape
  <2> DEFINE l == Nearer(b.deadline)
  <2>3. l \in 0 .. Lease
    <3>1. b.deadline \in Nat /\ b.deadline <= Lease
      BY <2>2, Constant DEF BatchRecords
    <3>2. l \in Nat /\ l <= b.deadline
      BY <3>1, NearerFacts
    <3> QED BY <3>1, <3>2, Constant
  <2>4. c = [b EXCEPT !.deadline = l]
    BY <2>1
  <2>5. /\ c \in BatchRecords
        /\ c.key = b.key /\ c.items = b.items /\ c.running = b.running
        /\ c.stopped = b.stopped /\ c.deadline = l
    <3> HIDE DEF l
    <3> QED BY <2>2, <2>3, <2>4 DEF BatchRecords
  <2> QED BY <2>1, <2>2, <2>5
<1>6. \A i \in Owners : \A b \in batches[i] : \E c \in batches'[i] : c.key = b.key
  <2> TAKE i \in Owners
  <2> TAKE b \in batches[i]
  <2>1. Old(b) \in batches'[i] /\ b \in BatchRecords
    BY <1>1 DEF Tick, Shape
  <2>2. Old(b).key = b.key
    BY <2>1 DEF BatchRecords
  <2> QED BY <2>1, <2>2
<1>7. \A i \in Owners :
        /\ spent'[i] \in 0 .. setup.maxDelay
        /\ pc[i] = "claim" => spent'[i] = spent[i] + 1
  <2> TAKE i \in Owners
  <2>1. spent[i] \in 0 .. setup.maxDelay /\ setup.maxDelay \in Nat
    BY <1>1, SetupFacts DEF Shape
  <2>2. spent'[i] = IF pc[i] # "claim" THEN spent[i] ELSE spent[i] + 1
    BY DEF Tick, Unlocked
  <2>3. pc[i] = "claim" => spent[i] < setup.maxDelay
    BY DEF Tick, Unlocked
  <2> QED BY <2>1, <2>2, <2>3
<1>8. Shape'
  <2>1. rows' \in [Segments -> RowRecords]
    <3>1. rows' = [k \in Segments |-> rows'[k]]
      BY DEF Tick, Pass, Aged
    <3> QED BY <1>2, <3>1
  <2>2. todo' \in [Items -> ItemRecords]
    <3>1. todo' = [x \in Items |-> todo'[x]]
      BY DEF Tick
    <3> QED BY <1>3, <3>1
  <2>3. held' \in [Owners -> [Segments -> HeldRecords \cup {NotHeld}]]
    <3>1. held' = [i \in Owners |-> [k \in Segments |-> held'[i][k]]]
      BY DEF Tick
    <3> QED BY <1>4, <3>1
  <2>4. batches' \in [Owners -> SUBSET BatchRecords]
    <3>1. batches' = [i \in Owners |-> batches'[i]]
      BY DEF Tick
    <3> QED BY <1>5, <3>1
  <2>5. spent' \in [Owners -> 0 .. setup.maxDelay]
    <3>1. spent' = [i \in Owners |-> spent'[i]]
      BY DEF Tick
    <3> QED BY <1>7, <3>1
  <2>6. leftover' \subseteq Items
    BY <1>1 DEF Shape, Tick
  <2> QED BY <1>1, <2>1, <2>2, <2>3, <2>4, <2>5, <2>6 DEF Shape
<1> HIDE DEF Later, Old
<1>9. ASSUME NEW i \in Owners PROVE InstanceOK(i)'
  <2>1. InstanceOK(i)
    BY DEF IInv
  <2>2. HeldBy(i)' = HeldBy(i) /\ Free(i)' = Free(i)
    <3>1. HeldBy(i)' = HeldBy(i)
      BY <1>4 DEF HeldBy
    <3>2. \A k \in HeldBy(i) : held'[i][k].busy = held[i][k].busy
      BY <1>4 DEF HeldBy
    <3> QED BY <3>1, <3>2 DEF Free
  <2>3. SegmentsAreSegmented(i)'
    BY <1>1, <1>4, <2>1 DEF InstanceOK, SegmentsAreSegmented
  <2>4. ClaimsForItsOwn(i)'
    <3> SUFFICES ASSUME pc[i] = "claim", NEW k \in HeldBy(i)
                 PROVE  /\ rows'[k].owner = i /\ rows'[k].epoch = held'[i][k].epoch
                        /\ rows'[k].leaseUntil >= TTL - spent'[i]
      BY <1>1, <2>2 DEF ClaimsForItsOwn, Fences, LeaseOf
    <3>1. /\ rows[k].owner = i /\ rows[k].epoch = held[i][k].epoch
          /\ rows[k].leaseUntil >= TTL - spent[i] /\ k \in Segments /\ held[i][k].held
      BY <2>1 DEF InstanceOK, ClaimsForItsOwn, Fences, LeaseOf, HeldBy
    <3>2. spent'[i] = spent[i] + 1 /\ spent[i] \in Nat
      BY <1>1, <1>7, SetupFacts DEF Shape
    <3>3. rows[k].leaseUntil \in Nat /\ rows'[k].leaseUntil = Nearer(rows[k].leaseUntil)
      BY <1>2, <3>1 DEF RowRecords
    <3>4. rows'[k].leaseUntil \in Nat /\ rows'[k].leaseUntil >= rows[k].leaseUntil - 1
      BY <3>3, NearerFacts
    <3>5. rows'[k].leaseUntil >= TTL - spent'[i]
      BY <3>1, <3>2, <3>3, <3>4, Constant
    <3> QED BY <1>2, <1>4, <3>1, <3>5
  <2>5. BatchesHoldSegments(i)'
    <3> SUFFICES ASSUME setup.segmented, NEW c \in batches'[i]
                 PROVE  /\ held'[i][c.key].held /\ held'[i][c.key].busy
                        /\ held'[i][c.key].leaseEnd = c.deadline
                        /\ c.stopped = "deferred" => held'[i][c.key].deferred
                        /\ rows'[c.key].owner = i
                        /\ rows'[c.key].epoch = held'[i][c.key].epoch
                        /\ rows'[c.key].leaseUntil > c.deadline
      BY <1>1 DEF BatchesHoldSegments, Fences, LeaseOf
    <3>1. PICK b \in batches[i] :
            /\ b \in BatchRecords /\ c.key = b.key
            /\ c.stopped = b.stopped /\ c.deadline = Nearer(b.deadline)
      BY <1>5
    <3>2. /\ held[i][b.key].held /\ held[i][b.key].busy
          /\ held[i][b.key].leaseEnd = b.deadline
          /\ b.stopped = "deferred" => held[i][b.key].deferred
          /\ rows[b.key].owner = i /\ rows[b.key].epoch = held[i][b.key].epoch
          /\ rows[b.key].leaseUntil > b.deadline
      BY <2>1 DEF InstanceOK, BatchesHoldSegments, Fences, LeaseOf
    <3>3. b.key \in Segments /\ b.deadline \in Nat
      BY <3>1 DEF BatchRecords
    <3>4. rows[b.key].leaseUntil > 1
      BY <3>2 DEF Tick, InTime
    <3>5. rows[b.key].leaseUntil \in Nat
      BY <1>2, <3>3 DEF RowRecords
    <3>6. Nearer(rows[b.key].leaseUntil) > Nearer(b.deadline)
      BY <3>2, <3>3, <3>4, <3>5, NearerFacts
    <3> QED BY <1>2, <1>4, <3>1, <3>2, <3>3, <3>6
  <2>6. ItemsAreLeased(i)'
    <3> SUFFICES ASSUME setup.segmented, NEW c \in batches'[i], NEW x \in c.items
                 PROVE  KeyOf(x)' = c.key /\ todo'[x].deadline = c.deadline
      BY <1>1 DEF ItemsAreLeased
    <3>1. PICK b \in batches[i] :
            /\ b \in BatchRecords /\ c.key = b.key
            /\ c.items = b.items /\ c.deadline = Nearer(b.deadline)
      BY <1>5
    <3>2. KeyOf(x) = b.key /\ todo[x].deadline = b.deadline /\ x \in Items
      BY <2>1, <3>1 DEF InstanceOK, ItemsAreLeased, BatchRecords
    <3>3. KeyOf(x)' = KeyOf(x)
      BY <1>1 DEF KeyOf
    <3> QED BY <1>3, <3>1, <3>2, <3>3
  <2>7. OneBatchPerSegment(i)' /\ RunsApart(i)'
    BY <1>1, <1>5, <2>1 DEF InstanceOK, OneBatchPerSegment, RunsApart
  <2>8. OnceServes(i)'
    <3>1. \A k \in HeldBy(i) : held'[i][k].busy = held[i][k].busy
      BY <1>4 DEF HeldBy
    <3> QED BY <1>1, <1>6, <2>1, <2>2, <3>1 DEF InstanceOK, OnceServes
  <2> QED BY <2>3, <2>4, <2>5, <2>6, <2>7, <2>8 DEF InstanceOK
<1>10. LeftoverIsShut'
  <2> SUFFICES ASSUME setup.segmented, NEW x \in leftover'
               PROVE  todo'[x].lease > 0 /\ (todo'[x].deadline > 0 => IsShut(x)')
    BY <1>1 DEF LeftoverIsShut
  <2>1. x \in leftover /\ todo[x].lease > 1 /\ x \in Items
    BY <1>1 DEF Tick, Shape
  <2>2. todo[x].lease \in Nat /\ todo[x].deadline \in Nat
    BY <1>3, <2>1 DEF ItemRecords
  <2>3. todo'[x].lease > 0 /\ (todo'[x].deadline > 0 => todo[x].deadline > 0)
    BY <1>3, <2>1, <2>2, NearerFacts
  <2> SUFFICES ASSUME todo[x].deadline > 0 PROVE IsShut(x)'
    BY <2>3
  <2> DEFINE k == KeyOf(x)
  <2>4. /\ k \in Segments /\ KeyOf(x)' = k
        /\ \A j \in Owners : ~Fenced(j, k, rows[k])
        /\ \/ rows[k].pausedTill >= todo[x].deadline
           \/ rows[k].owner # None /\ rows[k].leaseUntil >= todo[x].deadline
    BY <1>1, <2>1 DEF IInv, LeftoverIsShut, IsShut, KeyOf
  <2> HIDE DEF k
  <2>5. rows[k].pausedTill \in Nat /\ rows[k].leaseUntil \in Nat
    BY <1>2, <2>4 DEF RowRecords
  <2>6. \/ rows'[k].pausedTill >= todo'[x].deadline
        \/ rows'[k].owner # None /\ rows'[k].leaseUntil >= todo'[x].deadline
    <3>1. /\ todo'[x].deadline = Nearer(todo[x].deadline) /\ rows'[k].owner = rows[k].owner
          /\ rows'[k].pausedTill = Nearer(rows[k].pausedTill)
          /\ rows'[k].leaseUntil = Nearer(rows[k].leaseUntil)
      BY <1>2, <1>3, <2>1, <2>4
    <3> QED BY <2>2, <2>4, <2>5, <3>1, NearerFacts
  <2>7. ASSUME NEW j \in Owners
        PROVE  ~(held'[j][k].held /\ rows'[k].owner = j /\ rows'[k].epoch = held'[j][k].epoch)
    BY <1>2, <1>4, <2>4 DEF Fenced
  <2> QED BY <2>4, <2>6, <2>7 DEF IsShut, Fenced
<1> QED BY <1>8, <1>9, <1>10 DEF IInv


-----------------------------------------------------------------------------
(* Next claims.                                                              *)

\* What one call of Claim returns for the segments ks.
Claims(ks) == UNION {ClaimOf(k) : k \in ks}

\* What it does to the list.
LEMMA ClaimedFacts ==
    ASSUME Shape, NEW ks, NEW end \in Nat, NEW out, out = Claimed(Claims(ks), end)
    PROVE  /\ out \in [Items -> ItemRecords]
           /\ \A x \in Items :
                \/ out[x] = todo[x]
                \/ todo[x].lease = 0 /\ KeyOf(x) \in ks
           /\ \A k \in ks : \A x \in ClaimOf(k) :
                x \in Items /\ KeyOf(x) = k /\ out[x].deadline = end
<1> DEFINE xs == Claims(ks)
<1>1. \A k \in ks : \A x \in ClaimOf(k) :
         x \in Items /\ KeyOf(x) = k /\ todo[x].lease = 0 /\ x \in xs
  BY DEF Claims, ClaimOf, Claimable
<1>2. \A x \in xs : \E k \in ks : x \in ClaimOf(k)
  BY DEF Claims
<1>3. out = [x \in Items |-> IF x \in xs
                             THEN [done |-> FALSE, fresh |-> FALSE, lease |-> Lease,
                                   deadline |-> end]
                             ELSE todo[x]]
  BY DEF Claimed
<1> HIDE DEF xs
<1>4. out \in [Items -> ItemRecords]
  <2> DEFINE r == [done |-> FALSE, fresh |-> FALSE, lease |-> Lease, deadline |-> end]
  <2>1. r \in ItemRecords /\ \A x \in Items : todo[x] \in ItemRecords
    BY Constant DEF Shape, ItemRecords
  <2>2. out = [x \in Items |-> IF x \in xs THEN r ELSE todo[x]]
    BY <1>3
  <2> HIDE DEF r
  <2> QED BY <2>1, <2>2
<1>5. \A x \in Items : /\ x \in xs => out[x].deadline = end
                       /\ x \notin xs => out[x] = todo[x]
  BY <1>3
<1> QED BY <1>1, <1>2, <1>4, <1>5

LEMMA DeadlineFacts == ASSUME NEW d \in Nat PROVE DeadlineAt(d) \in 0 .. Lease
  BY Constant DEF DeadlineAt

LEMMA ServingFacts ==
    ASSUME Shape, NEW i \in Owners, NEW ks, ks \subseteq HeldBy(i), NEW end \in Nat,
           NEW k \in Segments
    PROVE  /\ k \notin ks => Serving(i, ks, end)[k] = held[i][k]
           /\ k \in ks =>
                /\ Serving(i, ks, end)[k] \in HeldRecords
                /\ Serving(i, ks, end)[k].epoch = held[i][k].epoch
                /\ Serving(i, ks, end)[k].busy /\ Serving(i, ks, end)[k].leaseEnd = end
<1>1. Serving(i, ks, end)[k] =
        IF k \in ks THEN [held[i][k] EXCEPT !.served = TRUE, !.busy = TRUE, !.leaseEnd = end]
        ELSE held[i][k]
  BY DEF Serving
<1>2. CASE k \in ks
  <2> DEFINE h == held[i][k]
  <2>1. h \in HeldRecords
    BY <1>2 DEF Shape, HeldBy, NotHeld
  <2>2. Serving(i, ks, end)[k] = [h EXCEPT !.served = TRUE, !.busy = TRUE, !.leaseEnd = end]
    BY <1>1, <1>2
  <2> HIDE DEF h
  <2>3. /\ Serving(i, ks, end)[k] \in HeldRecords /\ Serving(i, ks, end)[k].epoch = h.epoch
        /\ Serving(i, ks, end)[k].busy /\ Serving(i, ks, end)[k].leaseEnd = end
    BY <2>1, <2>2 DEF HeldRecords
  <2> QED BY <1>2, <2>3 DEF h
<1> QED BY <1>1, <1>2

LEMMA NewBatchFacts ==
    ASSUME NEW k \in Segments, NEW end \in 0 .. Lease
    PROVE  /\ NewBatch(k, end) \in BatchRecords /\ NewBatch(k, end).key = k
           /\ NewBatch(k, end).items = ClaimOf(k) /\ NewBatch(k, end).running = {}
           /\ NewBatch(k, end).stopped = "no" /\ NewBatch(k, end).deadline = end
<1>1. ClaimOf(k) \subseteq Items
  BY DEF ClaimOf
<1> QED BY <1>1 DEF NewBatch, BatchRecords

(***************************************************************************)
(* The second half of Next, however it ends: the list was claimed from for   *)
(* fs, with the deadline end, the segments ks are marked as served and new   *)
(* are their batches, the requests rel were released and the segments out    *)
(* forgotten. When batches are lost with an error, RunOnce leaves.           *)
(***************************************************************************)
ClaimStep(i, fs, ks, end, new, rel, out, w) ==
    /\ pc[i] = "claim" /\ w \in Places \ {"claim"} /\ end \in 0 .. Lease
    /\ ks \subseteq Free(i) /\ fs \subseteq Free(i) /\ ks \subseteq fs
    /\ out \subseteq Free(i) \ ks
    /\ todo' = Claimed(Claims(fs), end) /\ leftover' \subseteq leftover
    /\ UNCHANGED <<setup, spent, drained>>
    /\ \A q \in rel : /\ q.deferFor \in Nat /\ q.served \in BOOLEAN
                      /\ q.lease.key \in out /\ q.lease = LeaseOf(i, q.lease.key)
    /\ rows' = ReleaseTo(rows, rel, 0)
    /\ held' \in [Owners -> [Segments -> HeldRecords \cup {NotHeld}]]
    /\ \A j \in Owners : j # i => held'[j] = held[j]
    /\ \A k \in Segments :
         held'[i][k] = IF k \in out THEN NotHeld ELSE Serving(i, ks, end)[k]
    /\ \A b \in new : \E k \in ks : b = NewBatch(k, end)
    /\ batches' = [batches EXCEPT ![i] = batches[i] \cup new]
    /\ Goto(i, w)
    /\ i \in setup.once =>
         /\ w # "stall"
         /\ w \in {"check", "decide", "wait"} => \A k \in ks : NewBatch(k, end) \in new
         /\ w = "decide" => Free(i) \subseteq out

LEMMA ClaimKeeps ==
    ASSUME IInv, NEW i \in Owners, NEW fs, NEW ks, NEW end, NEW new, NEW rel, NEW out,
           NEW w, ClaimStep(i, fs, ks, end, new, rel, out, w)
    PROVE  IInv'
<1> USE DEF ClaimStep
<1>1. Shape /\ InstanceOK(i)
  BY DEF IInv
<1>2. setup.segmented
  BY <1>1, SetupFacts DEF Shape, InstanceOK, SegmentsAreSegmented
<1>3. \A k \in HeldBy(i) :
        /\ k \in Segments /\ rows[k].owner = i /\ rows[k].epoch = held[i][k].epoch
        /\ rows[k].leaseUntil > end
  <2> TAKE k \in HeldBy(i)
  <2>1. /\ rows[k].owner = i /\ rows[k].epoch = held[i][k].epoch
        /\ rows[k].leaseUntil >= TTL - spent[i] /\ k \in Segments
    BY <1>1 DEF InstanceOK, ClaimsForItsOwn, Fences, LeaseOf, HeldBy
  <2>2. spent[i] \in Nat /\ spent[i] <= TTL - Lease - 1 /\ rows[k].leaseUntil \in Nat
    <3>1. spent[i] \in 0 .. setup.maxDelay /\ rows[k] \in RowRecords /\ setup \in Setups
      BY <1>1, <2>1 DEF Shape
    <3> QED BY <3>1, SetupFacts, Constant DEF RowRecords
  <2> QED BY <2>1, <2>2, Constant
<1>4. Free(i) \subseteq HeldBy(i) /\ HeldBy(i) \subseteq Segments
  BY DEF Free, HeldBy
<1>5. /\ rows' \in [Segments -> RowRecords]
      /\ \A k \in Segments : Spares(i, k, rows[k], rows'[k])
      /\ \A k \in Segments : k \notin out => rows'[k] = rows[k]
  <2>1. rows \in [Segments -> RowRecords]
    BY <1>1 DEF Shape
  <2>2. \A q \in rel : q.lease.key \in HeldBy(i)
    BY <1>4
  <2> QED BY <2>1, <2>2, GivingBack
<1>6. /\ todo' \in [Items -> ItemRecords]
      /\ \A x \in Items :
           \/ todo'[x] = todo[x]
           \/ todo[x].lease = 0 /\ KeyOf(x) \in fs
      /\ \A k \in fs : \A x \in ClaimOf(k) :
           x \in Items /\ KeyOf(x) = k /\ todo'[x].deadline = end
  BY <1>1, ClaimedFacts
<1>7. \A b \in new : \E k \in ks : b = NewBatch(k, end)
  OBVIOUS
<1>8. new \subseteq BatchRecords
  BY <1>4, <1>7, NewBatchFacts
<1>9. /\ batches' \in [Owners -> SUBSET BatchRecords] /\ batches'[i] = batches[i] \cup new
      /\ \A j \in Owners : j # i => batches'[j] = batches[j]
  <2> DEFINE n == batches[i] \cup new
  <2>1. n \in SUBSET BatchRecords /\ batches \in [Owners -> SUBSET BatchRecords]
    BY <1>1, <1>8 DEF Shape
  <2>2. batches' = [batches EXCEPT ![i] = n]
    OBVIOUS
  <2>3. /\ batches' \in [Owners -> SUBSET BatchRecords] /\ batches'[i] = n
        /\ \A j \in Owners : j # i => batches'[j] = batches[j]
    <3> HIDE DEF n
    <3> QED BY <2>1, <2>2
  <2> QED BY <2>3
<1>10. /\ pc' \in [Owners -> Places] /\ pc'[i] = w /\ w # "claim"
       /\ \A j \in Owners : j # i => pc'[j] = pc[j]
  BY <1>1 DEF Shape, Goto
<1>11. Shape'
  BY <1>1, <1>5, <1>6, <1>9, <1>10 DEF Shape
<1>12. StepOf(i)
  <2>1. \A x \in Items :
           \/ todo'[x].lease = todo[x].lease /\ todo'[x].deadline = todo[x].deadline
           \/ /\ todo[x].lease = 0
              /\ setup.segmented => KeyOf(x) \in Segments /\ rows[KeyOf(x)].owner = i
    BY <1>3, <1>4, <1>6
  <2>2. ASSUME NEW k \in Segments PROVE HoldsNoMore(i, k)
    <3>1. CASE k \in out
      BY <3>1 DEF HoldsNoMore, NotHeld
    <3>2. CASE k \notin out /\ k \in ks
      <4>1. held[i][k].held
        BY <1>4, <3>2 DEF HeldBy
      <4>2. held'[i][k].epoch = held[i][k].epoch
        BY <1>1, <1>4, <3>2, ServingFacts
      <4> QED BY <4>1, <4>2 DEF HoldsNoMore
    <3>3. CASE k \notin out /\ k \notin ks
      <4>1. held'[i][k] = held[i][k]
        BY <1>1, <1>4, <3>3, ServingFacts
      <4> QED BY <4>1 DEF HoldsNoMore
    <3> QED BY <3>1, <3>2, <3>3
  <2> QED BY <1>5, <1>9, <1>10, <2>1, <2>2 DEF StepOf
\* The segments batches already run for are untouched.
<1>13. ASSUME NEW b \in batches[i]
       PROVE  /\ b \in BatchRecords /\ b.key \in Segments /\ b.key \notin Free(i)
              /\ held'[i][b.key] = held[i][b.key] /\ rows'[b.key] = rows[b.key]
  <2>1. b \in BatchRecords /\ b.key \in Segments
    BY <1>1 DEF Shape, BatchRecords
  <2>2. held[i][b.key].busy
    BY <1>1, <1>2 DEF InstanceOK, BatchesHoldSegments
  <2>3. b.key \notin Free(i)
    BY <2>2 DEF Free
  <2>4. b.key \notin out /\ b.key \notin ks
    BY <2>3
  <2>5. held'[i][b.key] = Serving(i, ks, end)[b.key]
    BY <2>1, <2>4
  <2>6. Serving(i, ks, end)[b.key] = held[i][b.key]
    BY <1>1, <1>4, <2>1, <2>4, ServingFacts
  <2> QED BY <1>5, <2>1, <2>3, <2>4, <2>5, <2>6
<1>14. ASSUME NEW b \in new
       PROVE  /\ b \in BatchRecords /\ b.key \in ks /\ b.key \in Segments
              /\ b.deadline = end /\ b.stopped = "no" /\ b.running = {}
              /\ b.items = ClaimOf(b.key) /\ b = NewBatch(b.key, end)
              /\ held'[i][b.key] \in HeldRecords /\ held'[i][b.key].busy
              /\ held'[i][b.key].leaseEnd = end
              /\ rows'[b.key].owner = i /\ rows'[b.key].epoch = held'[i][b.key].epoch
              /\ rows'[b.key].leaseUntil > end
  <2>1. PICK k \in ks : b = NewBatch(k, end)
    BY <1>7
  <2>2. k \in Segments /\ k \in HeldBy(i) /\ k \notin out
    BY <1>4
  <2>3. /\ b \in BatchRecords /\ b.key = k /\ b.items = ClaimOf(k) /\ b.running = {}
        /\ b.stopped = "no" /\ b.deadline = end
    BY <2>1, <2>2, NewBatchFacts
  <2>4. held'[i][k] = Serving(i, ks, end)[k]
    BY <2>2
  <2>5. /\ Serving(i, ks, end)[k] \in HeldRecords /\ Serving(i, ks, end)[k].epoch = held[i][k].epoch
        /\ Serving(i, ks, end)[k].busy /\ Serving(i, ks, end)[k].leaseEnd = end
    BY <1>1, <1>4, <2>2, ServingFacts
  <2>6. rows'[k] = rows[k]
    BY <1>5, <2>2
  <2> QED BY <1>3, <2>1, <2>2, <2>3, <2>4, <2>5, <2>6
<1>15. InstanceOK(i)'
  <2>1. SegmentsAreSegmented(i)' /\ ClaimsForItsOwn(i)'
    BY <1>2, <1>10 DEF SegmentsAreSegmented, ClaimsForItsOwn
  <2>2. BatchesHoldSegments(i)'
    <3> SUFFICES ASSUME NEW c \in batches'[i]
                 PROVE  /\ held'[i][c.key].held /\ held'[i][c.key].busy
                        /\ held'[i][c.key].leaseEnd = c.deadline
                        /\ c.stopped = "deferred" => held'[i][c.key].deferred
                        /\ rows'[c.key].owner = i
                        /\ rows'[c.key].epoch = held'[i][c.key].epoch
                        /\ rows'[c.key].leaseUntil > c.deadline
      BY DEF BatchesHoldSegments, Fences, LeaseOf
    <3>1. CASE c \in new
      <4>1. held'[i][c.key].held
        BY <1>14, <3>1 DEF HeldRecords
      <4> QED BY <1>14, <3>1, <4>1
    <3>2. CASE c \in batches[i]
      <4>1. held'[i][c.key] = held[i][c.key] /\ rows'[c.key] = rows[c.key]
        BY <1>13, <3>2
      <4> QED BY <1>1, <1>2, <3>2, <4>1 DEF InstanceOK, BatchesHoldSegments, Fences, LeaseOf
    <3> QED BY <1>9, <3>1, <3>2
  <2>3. ItemsAreLeased(i)'
    <3> SUFFICES ASSUME NEW c \in batches'[i], NEW x \in c.items
                 PROVE  KeyOf(x)' = c.key /\ todo'[x].deadline = c.deadline
      BY DEF ItemsAreLeased
    <3>1. KeyOf(x)' = KeyOf(x)
      BY DEF KeyOf
    <3>2. CASE c \in new
      BY <1>6, <1>14, <3>1, <3>2
    <3>3. CASE c \in batches[i]
      <4>1. KeyOf(x) = c.key /\ todo[x].deadline = c.deadline /\ x \in Items
        BY <1>1, <1>2, <1>13, <3>3 DEF InstanceOK, ItemsAreLeased, BatchRecords
      <4>2. KeyOf(x) \notin fs
        BY <1>13, <3>3, <4>1
      <4> QED BY <1>6, <3>1, <4>1, <4>2
    <3> QED BY <1>9, <3>2, <3>3
  <2>4. OneBatchPerSegment(i)'
    <3>1. \A b, c \in batches[i] : b.key = c.key => b = c
      BY <1>1, <1>2 DEF InstanceOK, OneBatchPerSegment
    <3>2. \A b, c \in new : b.key = c.key => b = c
      BY <1>14
    <3>3. \A b \in batches[i], c \in new : b.key # c.key
      BY <1>13, <1>14
    <3> QED BY <1>9, <3>1, <3>2, <3>3 DEF OneBatchPerSegment
  <2>5. RunsApart(i)'
    <3>1. \A c \in new : c.running = {}
      BY <1>14
    <3> QED BY <1>1, <1>9, <3>1, SlotFacts DEF InstanceOK, RunsApart
  <2>6. OnceServes(i)'
    <3> SUFFICES ASSUME i \in setup.once
                 PROVE  /\ w # "stall"
                        /\ w \in {"check", "claim", "decide", "wait"} =>
                             \A k \in HeldBy(i)' : held'[i][k].busy =>
                                \E c \in batches'[i] : c.key = k
                        /\ w = "decide" => Free(i)' = {}
      BY <1>10 DEF OnceServes
    <3>1. \A k \in HeldBy(i) : held[i][k].busy => \E c \in batches[i] : c.key = k
      BY <1>1 DEF InstanceOK, OnceServes
    <3>2. ASSUME NEW k \in HeldBy(i)'
          PROVE  /\ k \in Segments /\ k \notin out /\ held'[i][k] = Serving(i, ks, end)[k]
                 /\ k \notin ks => held'[i][k] = held[i][k] /\ k \in HeldBy(i)
      <4>1. k \in Segments /\ held'[i][k].held
        BY DEF HeldBy
      <4>2. k \notin out /\ held'[i][k] = Serving(i, ks, end)[k]
        BY <4>1 DEF NotHeld
      <4>3. k \notin ks => held'[i][k] = held[i][k]
        BY <1>1, <1>4, <4>1, <4>2, ServingFacts
      <4> QED BY <4>1, <4>2, <4>3 DEF HeldBy
    <3>3. ASSUME w \in {"check", "claim", "decide", "wait"},
                 NEW k \in HeldBy(i)', held'[i][k].busy
          PROVE  \E c \in batches'[i] : c.key = k
      <4>1. CASE k \in ks
        <5>1. NewBatch(k, end) \in new
          BY <1>10, <3>3, <4>1
        <5> QED BY <1>9, <3>2, <5>1, NewBatchFacts
      <4>2. CASE k \notin ks
        BY <1>9, <3>1, <3>2, <3>3, <4>2
      <4> QED BY <4>1, <4>2
    <3>4. ASSUME w = "decide" PROVE Free(i)' = {}
      <4> SUFFICES ASSUME NEW k \in Free(i)' PROVE FALSE
        OBVIOUS
      <4>1. k \in HeldBy(i)' /\ ~held'[i][k].busy
        BY DEF Free
      <4>2. k \notin ks
        <5>1. k \in ks => Serving(i, ks, end)[k].busy
          BY <1>1, <1>4, <3>2, <4>1, ServingFacts
        <5> QED BY <3>2, <4>1, <5>1
      <4>3. k \in Free(i)
        BY <3>2, <4>1, <4>2 DEF Free
      <4> QED BY <3>2, <3>4, <4>1, <4>3
    <3> QED BY <3>3, <3>4
  <2> QED BY <2>1, <2>2, <2>3, <2>4, <2>5, <2>6 DEF InstanceOK
<1> QED BY <1>11, <1>12, <1>15, StepKeeps


\* Idle segments are given back with their leases.
LEMMA IdleFacts ==
    ASSUME Shape, NEW i \in Owners, NEW out, NEW js, out \subseteq Free(i), js \subseteq out,
           NEW q \in {Giving(i, j, PollInterval) : j \in js}
    PROVE  /\ q.deferFor \in Nat /\ q.served \in BOOLEAN
           /\ q.lease.key \in out /\ q.lease = LeaseOf(i, q.lease.key)
<1>1. PICK j \in js : q = Giving(i, j, PollInterval)
  OBVIOUS
<1>2. j \in HeldBy(i) /\ j \in out /\ PollInterval \in Nat
  BY Constant DEF Free
<1> QED BY <1>1, <1>2, GivingFacts

LEMMA WithWorkFacts == ASSUME NEW S PROVE WithWork(S) \subseteq S
  BY DEF WithWork

\* The scheduler of i with some segments given back and others being served.
LEMMA ServingShape ==
    ASSUME Shape, NEW i \in Owners, NEW ks, ks \subseteq HeldBy(i), NEW end \in Nat,
           NEW out,
           held' = [held EXCEPT ![i] = [k \in Segments |->
                      IF k \in out THEN NotHeld ELSE Serving(i, ks, end)[k]]]
    PROVE  /\ held' \in [Owners -> [Segments -> HeldRecords \cup {NotHeld}]]
           /\ \A j \in Owners : j # i => held'[j] = held[j]
           /\ \A k \in Segments :
                held'[i][k] = IF k \in out THEN NotHeld ELSE Serving(i, ks, end)[k]
<1> DEFINE n == [k \in Segments |-> IF k \in out THEN NotHeld ELSE Serving(i, ks, end)[k]]
<1>1. \A k \in Segments : Serving(i, ks, end)[k] \in HeldRecords \cup {NotHeld}
  <2> TAKE k \in Segments
  <2>1. held[i][k] \in HeldRecords \cup {NotHeld}
    BY DEF Shape
  <2>2. CASE k \in ks
    BY <2>2, ServingFacts
  <2>3. CASE k \notin ks
    <3>1. Serving(i, ks, end)[k] = held[i][k]
      BY <2>3, ServingFacts
    <3> QED BY <2>1, <3>1
  <2> QED BY <2>2, <2>3
<1>2. n \in [Segments -> HeldRecords \cup {NotHeld}]
  BY <1>1
<1>3. \A k \in Segments : n[k] = IF k \in out THEN NotHeld ELSE Serving(i, ks, end)[k]
  OBVIOUS
<1>4. held' = [held EXCEPT ![i] = n]
  OBVIOUS
<1>5. held \in [Owners -> [Segments -> HeldRecords \cup {NotHeld}]]
  BY DEF Shape
<1>6. /\ held' \in [Owners -> [Segments -> HeldRecords \cup {NotHeld}]]
      /\ \A j \in Owners : j # i => held'[j] = held[j]
      /\ held'[i] = n
  <2> HIDE DEF n
  <2> QED BY <1>2, <1>4, <1>5
<1> QED BY <1>3, <1>6

LEMMA ClaimingStep == ASSUME IInv, NEW i \in Owners, Claiming(i) PROVE IInv'
<1> DEFINE ks   == WithWork(Free(i))
           idle == Free(i) \ ks
           rel  == {Giving(i, k, PollInterval) : k \in idle}
           w    == IF ks # {} THEN "check" ELSE "decide"
<1>1. Shape
  BY DEF IInv
<1>2. PICK d \in 0 .. spent[i] :
         LET end == DeadlineAt(d) IN
         /\ todo' = Claimed(UNION {ClaimOf(k) : k \in ks}, end)
         /\ held' = [held EXCEPT ![i] = [k \in Segments |->
                        IF k \in idle THEN NotHeld ELSE Serving(i, ks, end)[k]]]
         /\ batches' = [batches EXCEPT ![i] = @ \cup {NewBatch(k, end) : k \in ks}]
  BY DEF Claiming
<1> DEFINE end == DeadlineAt(d)
           new == {NewBatch(k, end) : k \in ks}
<1>3. end \in 0 .. Lease /\ end \in Nat
  <2>1. d \in Nat
    BY <1>1, SetupFacts DEF Shape
  <2> QED BY <2>1, DeadlineFacts, Constant
<1>4. /\ todo' = Claimed(UNION {ClaimOf(k) : k \in ks}, end)
      /\ held' = [held EXCEPT ![i] = [k \in Segments |->
                     IF k \in idle THEN NotHeld ELSE Serving(i, ks, end)[k]]]
      /\ batches' = [batches EXCEPT ![i] = @ \cup new]
  BY <1>2
<1>5. /\ pc[i] = "claim" /\ leftover' \subseteq leftover
      /\ rows' = ReleaseTo(rows, rel, 0)
      /\ Goto(i, w) /\ UNCHANGED <<setup, spent, drained>>
  BY DEF Claiming
<1> HIDE DEF end
<1>6. ks \subseteq Free(i) /\ idle \subseteq Free(i) \ ks /\ ks \subseteq HeldBy(i)
  BY WithWorkFacts DEF Free
<1>7. todo' = Claimed(Claims(ks), end)
  BY <1>4, Zenon DEF Claims
<1>8. w \in Places \ {"claim"} /\ w # "stall" /\ (w = "decide" => Free(i) \subseteq idle)
  BY DEF Places
<1>9. \A q \in rel : /\ q.deferFor \in Nat /\ q.served \in BOOLEAN
                     /\ q.lease.key \in idle /\ q.lease = LeaseOf(i, q.lease.key)
  <2> HIDE DEF idle, ks
  <2> QED BY <1>1, <1>6, IdleFacts
<1>10. /\ held' \in [Owners -> [Segments -> HeldRecords \cup {NotHeld}]]
       /\ \A j \in Owners : j # i => held'[j] = held[j]
       /\ \A k \in Segments :
            held'[i][k] = IF k \in idle THEN NotHeld ELSE Serving(i, ks, end)[k]
  <2> HIDE DEF idle, ks
  <2> QED BY <1>1, <1>3, <1>4, <1>6, ServingShape
<1>11. /\ \A b \in new : \E k \in ks : b = NewBatch(k, end)
       /\ \A k \in ks : NewBatch(k, end) \in new
  OBVIOUS
<1>12. batches' = [batches EXCEPT ![i] = batches[i] \cup new]
  BY <1>4
<1> HIDE DEF ks, idle, rel, new, w
<1>13. ClaimStep(i, ks, ks, end, new, rel, idle, w)
  BY <1>3, <1>5, <1>6, <1>7, <1>8, <1>9, <1>10, <1>11, <1>12 DEF ClaimStep
<1> QED BY <1>13, ClaimKeeps

LEMMA AfterErrorFacts ==
    ASSUME NEW i
    PROVE  /\ AfterError(i) \in Places \ {"claim"} /\ AfterError(i) \in {"drain", "stall"}
           /\ i \in setup.once => AfterError(i) = "drain"
  BY DEF AfterError, Places

LEMMA IdleReleaseFailsStep ==
    ASSUME IInv, NEW i \in Owners, IdleReleaseFails(i) PROVE IInv'
<1> DEFINE ks == WithWork(Free(i))
           w  == AfterError(i)
           new == {}
<1>1. Shape
  BY DEF IInv
<1>2. /\ pc[i] = "claim" /\ Goto(i, w)
      /\ UNCHANGED <<setup, spent, drained, batches, leftover>>
  BY DEF IdleReleaseFails
<1>3. PICK d \in 0 .. spent[i], k \in Free(i) \ ks, done \in SUBSET (Free(i) \ ks) :
         LET rel == {Giving(i, j, PollInterval) : j \in done \ {k}}
             end == DeadlineAt(d)
         IN
         /\ todo' = Claimed(UNION {ClaimOf(j) : j \in ks}, end)
         /\ rows' = ReleaseTo(rows, rel, 0)
         /\ held' = [held EXCEPT ![i] = [j \in Segments |->
                        IF j \in done \cup {k} THEN NotHeld ELSE Serving(i, ks, end)[j]]]
  BY DEF IdleReleaseFails
<1> DEFINE out == done \cup {k}
           js  == done \ {k}
           rel == {Giving(i, j, PollInterval) : j \in js}
           end == DeadlineAt(d)
<1>4. end \in 0 .. Lease /\ end \in Nat
  <2>1. d \in Nat
    BY <1>1, SetupFacts DEF Shape
  <2> QED BY <2>1, DeadlineFacts, Constant
<1>5. /\ todo' = Claimed(UNION {ClaimOf(j) : j \in ks}, end)
      /\ rows' = ReleaseTo(rows, rel, 0)
      /\ held' = [held EXCEPT ![i] = [j \in Segments |->
                        IF j \in out THEN NotHeld ELSE Serving(i, ks, end)[j]]]
  BY <1>3
<1> HIDE DEF end
<1>6. /\ ks \subseteq Free(i) /\ out \subseteq Free(i) \ ks /\ js \subseteq out
      /\ ks \subseteq HeldBy(i)
  BY WithWorkFacts DEF Free
<1>7. todo' = Claimed(Claims(ks), end)
  BY <1>5, Zenon DEF Claims
<1>8. w \in Places \ {"claim"} /\ (i \in setup.once => w = "drain")
  BY AfterErrorFacts
<1>9. \A q \in rel : /\ q.deferFor \in Nat /\ q.served \in BOOLEAN
                     /\ q.lease.key \in out /\ q.lease = LeaseOf(i, q.lease.key)
  <2> HIDE DEF out, js, ks
  <2> QED BY <1>1, <1>6, IdleFacts
<1>10. /\ held' \in [Owners -> [Segments -> HeldRecords \cup {NotHeld}]]
       /\ \A j \in Owners : j # i => held'[j] = held[j]
       /\ \A j \in Segments :
            held'[i][j] = IF j \in out THEN NotHeld ELSE Serving(i, ks, end)[j]
  <2> HIDE DEF out, ks
  <2> QED BY <1>1, <1>4, <1>5, <1>6, ServingShape
<1>11. new = {} /\ batches' = [batches EXCEPT ![i] = batches[i] \cup new]
  BY <1>1, <1>2 DEF Shape
<1>12. /\ pc[i] = "claim" /\ Goto(i, w) /\ UNCHANGED <<setup, spent, drained>>
       /\ rows' = ReleaseTo(rows, rel, 0) /\ leftover' \subseteq leftover
  BY <1>2, <1>5
<1> HIDE DEF ks, out, js, rel, new, w
<1>13. ClaimStep(i, ks, ks, end, new, rel, out, w)
  BY <1>4, <1>6, <1>7, <1>8, <1>9, <1>10, <1>11, <1>12 DEF ClaimStep
<1> QED BY <1>13, ClaimKeeps

\* The claim itself fails: the items are claimed, or not, and no batch knows.
LEMMA ClaimFailsStep ==
    ASSUME IInv, NEW i \in Owners, pc[i] = "claim",
           todo' \in {todo, Claimed(UNION {ClaimOf(k) : k \in Free(i)}, 0)},
           Goto(i, AfterError(i)),
           UNCHANGED <<setup, rows, held, batches, spent, drained, leftover>>
    PROVE  IInv'
<1> DEFINE w == AfterError(i)
           none == {}
<1>1. Shape
  BY DEF IInv
<1>2. w \in Places \ {"claim"} /\ (i \in setup.once => w = "drain") /\ Goto(i, w)
  BY AfterErrorFacts
<1>3. PICK fs : fs \subseteq Free(i) /\ todo' = Claimed(Claims(fs), 0)
  <2>1. CASE todo' = todo
    <3>1. Claims({}) = {}
      BY DEF Claims
    <3>2. todo = Claimed({}, 0)
      BY <1>1 DEF Shape, Claimed
    <3> QED BY <2>1, <3>1, <3>2
  <2>2. CASE todo' = Claimed(UNION {ClaimOf(k) : k \in Free(i)}, 0)
    BY <2>2, Zenon DEF Claims
  <2> QED BY <2>1, <2>2
<1>4. rows \in [Segments -> RowRecords]
  BY <1>1 DEF Shape
<1>5. rows' = ReleaseTo(rows, none, 0)
  <2> DEFINE r == ReleaseTo(rows, none, 0)
  <2>1. r \in [Segments -> RowRecords] /\ \A k \in Segments : r[k] = rows[k]
    <3>1. \A q \in none : q.deferFor \in Nat /\ q.served \in BOOLEAN
      OBVIOUS
    <3>2. ~\E q \in none : TRUE
      OBVIOUS
    <3> HIDE DEF none
    <3>3. r = ReleaseTo(rows, none, 0)
      OBVIOUS
    <3> HIDE DEF r
    <3> QED BY <1>4, <3>1, <3>2, <3>3, ReleaseFacts
  <2>2. r = rows
    <3> HIDE DEF r
    <3> QED BY <1>4, <2>1
  <2> QED BY <2>2
<1>6. /\ held' \in [Owners -> [Segments -> HeldRecords \cup {NotHeld}]]
      /\ \A j \in Owners : j # i => held'[j] = held[j]
      /\ \A j \in Segments :
           held'[i][j] = IF j \in none THEN NotHeld ELSE Serving(i, none, 0)[j]
  <2>1. \A j \in Segments : Serving(i, none, 0)[j] = held[i][j]
    BY DEF Serving
  <2> QED BY <1>1, <2>1 DEF Shape
<1>7. batches' = [batches EXCEPT ![i] = batches[i] \cup none]
  BY <1>1 DEF Shape
<1>8. /\ none = {} /\ none \subseteq Free(i) /\ none \subseteq Free(i) \ none
      /\ \A q \in none : /\ q.deferFor \in Nat /\ q.served \in BOOLEAN
                         /\ q.lease.key \in none /\ q.lease = LeaseOf(i, q.lease.key)
  OBVIOUS
<1> DEFINE end == 0
<1>9. end = 0 /\ end \in 0 .. Lease
  BY Constant
<1> HIDE DEF none, w, end
<1>10. ClaimStep(i, fs, none, end, none, none, none, w)
  BY <1>2, <1>3, <1>5, <1>6, <1>7, <1>8, <1>9 DEF ClaimStep
<1> QED BY <1>10, ClaimKeeps


-----------------------------------------------------------------------------
(* Next renews, rotates and acquires.                                        *)

LEMMA KeptFacts ==
    ASSUME NEW i, NEW k
    PROVE  k \in Kept(i) <=> /\ k \in HeldBy(i) /\ rows[k].owner = i
                             /\ rows[k].epoch = held[i][k].epoch /\ rows[k].leaseUntil > 0
<1>1. LeaseOf(i, k).key = k /\ LeaseOf(i, k).owner = i /\ LeaseOf(i, k).epoch = held[i][k].epoch
  BY DEF LeaseOf
<1>2. Renewable(rows, {LeaseOf(i, k)}, 0) # {} <=>
        Fences(rows, LeaseOf(i, k)) /\ rows[LeaseOf(i, k).key].leaseUntil > 0
  BY DEF Renewable
<1> QED BY <1>1, <1>2 DEF Kept, Fences

\* Renew extends what is kept and touches no other lease.
LEMMA RenewFacts ==
    ASSUME Shape, NEW i \in Owners,
           NEW after, after = RenewTo(rows, {LeaseOf(i, k) : k \in HeldBy(i)}, 0)
    PROVE  /\ after \in [Segments -> RowRecords]
           /\ \A k \in Segments :
                /\ after[k].owner = rows[k].owner /\ after[k].epoch = rows[k].epoch
                /\ after[k].pausedTill = rows[k].pausedTill
                /\ after[k].leaseUntil = IF k \in Kept(i) THEN TTL ELSE rows[k].leaseUntil
<1> DEFINE ls == {LeaseOf(i, k) : k \in HeldBy(i)}
<1>1. \A k \in Segments : (\E l \in Renewable(rows, ls, 0) : l.key = k) <=> k \in Kept(i)
  <2> TAKE k \in Segments
  <2>1. \A j : LeaseOf(i, j).key = j /\ LeaseOf(i, j).owner = i
               /\ LeaseOf(i, j).epoch = held[i][j].epoch
    BY DEF LeaseOf
  <2>2. (\E l \in Renewable(rows, ls, 0) : l.key = k) <=>
          \E j \in HeldBy(i) : /\ Fences(rows, LeaseOf(i, j))
                               /\ rows[LeaseOf(i, j).key].leaseUntil > 0
                               /\ LeaseOf(i, j).key = k
    BY DEF Renewable
  <2>3. \A j : Fences(rows, LeaseOf(i, j)) <=>
                 rows[j].owner = i /\ rows[j].epoch = held[i][j].epoch
    BY <2>1 DEF Fences
  <2>4. (\E l \in Renewable(rows, ls, 0) : l.key = k) <=>
           /\ k \in HeldBy(i) /\ rows[k].owner = i
           /\ rows[k].epoch = held[i][k].epoch /\ rows[k].leaseUntil > 0
    BY <2>1, <2>2, <2>3
  <2> QED BY <2>4, KeptFacts
<1>2. ASSUME NEW k \in Segments
      PROVE  /\ after[k] \in RowRecords
             /\ after[k].owner = rows[k].owner /\ after[k].epoch = rows[k].epoch
             /\ after[k].pausedTill = rows[k].pausedTill
             /\ after[k].leaseUntil = IF k \in Kept(i) THEN TTL ELSE rows[k].leaseUntil
  <2>1. rows[k] \in RowRecords
    BY DEF Shape
  <2>2. after[k] = IF \E l \in Renewable(rows, ls, 0) : l.key = k
                   THEN [rows[k] EXCEPT !.leaseUntil = 0 + TTL] ELSE rows[k]
    BY DEF RenewTo
  <2>3. 0 + TTL = TTL /\ TTL \in Nat
    BY Constant
  <2>4. after[k] = IF k \in Kept(i) THEN [rows[k] EXCEPT !.leaseUntil = TTL] ELSE rows[k]
    BY <1>1, <2>2, <2>3
  <2> QED BY <2>1, <2>3, <2>4 DEF RowRecords
<1>3. after = [k \in Segments |-> after[k]]
  BY DEF RenewTo
<1> QED BY <1>2, <1>3

(***************************************************************************)
(* Next renews so, and passes a lost batch's pause on.                       *)
(***************************************************************************)
LEMMA RenewedFacts ==
    ASSUME Shape, NEW i \in Owners
    PROVE  /\ RenewedRows(i) \in [Segments -> RowRecords]
           /\ \A k \in Segments :
                /\ RenewedRows(i)[k].owner = rows[k].owner
                /\ RenewedRows(i)[k].epoch = rows[k].epoch
                /\ RenewedRows(i)[k].pausedTill >= rows[k].pausedTill
                /\ RenewedRows(i)[k].leaseUntil = IF k \in Kept(i) THEN TTL
                                                  ELSE rows[k].leaseUntil
<1> DEFINE after == RenewTo(rows, {LeaseOf(i, k) : k \in HeldBy(i)}, 0)
<1>1. after = RenewTo(rows, {LeaseOf(i, k) : k \in HeldBy(i)}, 0)
  OBVIOUS
<1>2. RenewedRows(i) = [k \in Segments |->
          IF held[i][k].held /\ k \notin Kept(i) /\ held[i][k].deferred
          THEN DeferTo(after, k, held[i][k].deferUntil, 0)[k] ELSE after[k]]
  BY DEF RenewedRows
<1> HIDE DEF after
<1>3. /\ after \in [Segments -> RowRecords]
      /\ \A k \in Segments :
           /\ after[k].owner = rows[k].owner /\ after[k].epoch = rows[k].epoch
           /\ after[k].pausedTill = rows[k].pausedTill
           /\ after[k].leaseUntil = IF k \in Kept(i) THEN TTL ELSE rows[k].leaseUntil
  BY <1>1, RenewFacts
<1>4. ASSUME NEW k \in Segments
      PROVE  /\ RenewedRows(i)[k] \in RowRecords
             /\ RenewedRows(i)[k].owner = rows[k].owner
             /\ RenewedRows(i)[k].epoch = rows[k].epoch
             /\ RenewedRows(i)[k].pausedTill >= rows[k].pausedTill
             /\ RenewedRows(i)[k].leaseUntil = IF k \in Kept(i) THEN TTL
                                               ELSE rows[k].leaseUntil
  <2>1. CASE held[i][k].held /\ k \notin Kept(i) /\ held[i][k].deferred
    <3> DEFINE d == held[i][k].deferUntil
               t == Longer(after[k], d, 0)
    <3>1. RenewedRows(i)[k] = [after[k] EXCEPT !.pausedTill = t]
      BY <1>2, <1>3, <2>1 DEF DeferTo
    <3>2. d \in Nat /\ after[k].pausedTill \in Nat
      <4>1. held[i][k] \in HeldRecords
        BY <2>1 DEF Shape, NotHeld
      <4> QED BY <1>3, <4>1 DEF HeldRecords, RowRecords
    <3>3. t \in Nat /\ t >= after[k].pausedTill
      BY <3>2 DEF Longer
    <3> HIDE DEF t
    <3> QED BY <1>3, <3>1, <3>3 DEF RowRecords
  <2>2. CASE ~(held[i][k].held /\ k \notin Kept(i) /\ held[i][k].deferred)
    <3>1. RenewedRows(i)[k] = after[k]
      BY <1>2, <2>2
    <3>2. rows[k].pausedTill \in Nat
      BY DEF Shape, RowRecords
    <3> QED BY <1>3, <3>1, <3>2
  <2> QED BY <2>1, <2>2
<1>5. RenewedRows(i) = [k \in Segments |-> RenewedRows(i)[k]]
  BY <1>2
<1> QED BY <1>4, <1>5

LEMMA SparesAfter ==
    ASSUME NEW i, NEW k, NEW q \in RowRecords, NEW r \in RowRecords, NEW s \in RowRecords,
           Spares(i, k, q, r), Spares(i, k, r, s)
    PROVE  Spares(i, k, q, s)
<1>1. q.pausedTill \in Nat /\ r.pausedTill \in Nat /\ s.pausedTill \in Nat
  BY DEF RowRecords
<1> QED BY <1>1 DEF Spares, Shut, Fenced

(***************************************************************************)
(* The first half of Next, however it ends: the leases were renewed, the     *)
(* segments out given back, the segments grant granted, of which the         *)
(* scheduler learned of got.                                                 *)
(***************************************************************************)
AcquireStep(i, rs, out, grant, got, w) ==
    /\ setup.segmented /\ pc[i] = "check" /\ UNCHANGED <<setup, todo, batches, leftover>>
    /\ out \subseteq Free(i) /\ got \subseteq grant
    /\ rs \in [Segments -> RowRecords]
    /\ \A k \in Segments : Spares(i, k, RenewedRows(i)[k], rs[k])
    /\ \A k \in Segments : k \notin out => rs[k] = RenewedRows(i)[k]
    /\ \A k \in grant : ~(rs[k].pausedTill > 0) /\ ~(rs[k].owner # None /\ rs[k].leaseUntil > 0)
    /\ rows' = GrantTo(rs, grant, i, 0)
    /\ held' \in [Owners -> [Segments -> HeldRecords \cup {NotHeld}]]
    /\ \A j \in Owners : j # i => held'[j] = held[j]
    /\ \A k \in Segments :
         /\ k \in got => held'[i][k] = Held(rows'[k].epoch)
         /\ k \notin got /\ k \in Kept(i) \ out => held'[i][k] = held[i][k]
         /\ k \notin got /\ k \notin Kept(i) \ out => held'[i][k] = NotHeld
    /\ spent' \in [Owners -> 0 .. setup.maxDelay]
    /\ \A j \in Owners : j # i => spent'[j] = spent[j]
    /\ drained' = [drained EXCEPT ![i] = FALSE]
    /\ Goto(i, w)
    /\ \/ w = "claim" /\ spent'[i] = 0
       \/ w \in {"drain", "stall"} /\ (i \in setup.once => w = "drain")

LEMMA AcquireKeeps ==
    ASSUME IInv, NEW i \in Owners, NEW rs, NEW out, NEW grant, NEW got, NEW w,
           AcquireStep(i, rs, out, grant, got, w)
    PROVE  IInv'
<1> USE DEF AcquireStep
<1>1. Shape /\ InstanceOK(i)
  BY DEF IInv
<1> DEFINE rn == RenewedRows(i)
<1>2. /\ rn \in [Segments -> RowRecords]
      /\ \A k \in Segments :
           /\ rn[k].owner = rows[k].owner /\ rn[k].epoch = rows[k].epoch
           /\ rn[k].pausedTill >= rows[k].pausedTill
           /\ rn[k].leaseUntil = IF k \in Kept(i) THEN TTL ELSE rows[k].leaseUntil
  BY <1>1, RenewedFacts
<1>3. /\ \A k \in Segments : Spares(i, k, rn[k], rs[k])
      /\ \A k \in Segments : k \notin out => rs[k] = rn[k]
  OBVIOUS
<1> HIDE DEF rn
<1>4. /\ rows' \in [Segments -> RowRecords]
      /\ \A k \in Segments : k \notin grant => rows'[k] = rs[k]
      /\ \A k \in Segments : k \in grant =>
            /\ rows'[k].owner = i /\ rows'[k].leaseUntil = TTL
            /\ rows'[k].pausedTill = rs[k].pausedTill
  BY GrantFacts
<1>5. \A k \in Segments : Spares(i, k, rows[k], rows'[k]) /\ HoldsNoMore(i, k)
  <2> TAKE k \in Segments
  <2>1. /\ rows[k] \in RowRecords /\ rn[k] \in RowRecords /\ rs[k] \in RowRecords
        /\ rows'[k] \in RowRecords
    BY <1>1, <1>2, <1>4 DEF Shape
  <2>2. Spares(i, k, rows[k], rn[k])
    <3>1. k \in Kept(i) => Fenced(i, k, rows[k])
      BY KeptFacts DEF Fenced, HeldBy
    <3> QED BY <1>2, <3>1 DEF Spares
  <2>3. rs[k].pausedTill \in Nat /\ rs[k].leaseUntil \in Nat
    BY <2>1 DEF RowRecords
  <2>4. Spares(i, k, rs[k], rows'[k])
    <3>1. CASE k \in grant
      BY <1>4, <2>3, <3>1 DEF Spares, Shut
    <3>2. CASE k \notin grant
      BY <1>4, <2>3, <3>2 DEF Spares
    <3> QED BY <3>1, <3>2
  <2>5. Spares(i, k, rn[k], rs[k])
    BY <1>3
  <2>6. Spares(i, k, rows[k], rs[k])
    BY <2>1, <2>2, <2>5, SparesAfter
  <2>7. HoldsNoMore(i, k)
    <3>1. CASE k \in got
      <4>1. ~Shut(rs[k])
        BY <3>1 DEF Shut
      <4>2. rows[k].pausedTill \in Nat
        BY <2>1 DEF RowRecords
      <4>3. ~Shut(rows[k]) \/ Fenced(i, k, rows[k])
        BY <2>3, <2>6, <4>1, <4>2 DEF Spares, Shut
      <4> QED BY <4>3 DEF HoldsNoMore
    <3>2. CASE k \notin got /\ k \in Kept(i) \ out
      BY <3>2 DEF HoldsNoMore
    <3>3. CASE k \notin got /\ k \notin Kept(i) \ out
      BY <3>3 DEF HoldsNoMore, NotHeld
    <3> QED BY <3>1, <3>2, <3>3
  <2> QED BY <2>1, <2>4, <2>6, <2>7, SparesAfter
<1>6. /\ pc' \in [Owners -> Places] /\ pc'[i] = w
      /\ \A j \in Owners : j # i => pc'[j] = pc[j]
  BY <1>1 DEF Shape, Goto, Places
<1>7. /\ drained' \in [Owners -> BOOLEAN]
      /\ \A j \in Owners : j # i => drained'[j] = drained[j]
  BY <1>1 DEF Shape
<1>8. Shape'
  BY <1>1, <1>4, <1>6, <1>7 DEF Shape
<1>9. StepOf(i)
  BY <1>5, <1>6, <1>7 DEF StepOf
\* What the scheduler keeps is renewed; what it learned of is granted.
<1>10. ASSUME NEW k \in Segments, k \in Kept(i), k \notin out
       PROVE  /\ k \notin grant /\ held'[i][k] = held[i][k]
              /\ rows'[k].owner = i /\ rows'[k].epoch = held[i][k].epoch
              /\ rows'[k].leaseUntil = TTL
  <2>1. rs[k] = rn[k] /\ rn[k].leaseUntil = TTL
    BY <1>2, <1>3, <1>10
  <2>2. rn[k].owner = i /\ rn[k].epoch = held[i][k].epoch
    BY <1>2, <1>10, KeptFacts
  <2>3. k \notin grant
    BY <2>1, <2>2, Constant
  <2>4. rows'[k] = rs[k]
    BY <1>4, <2>3
  <2>5. held'[i][k] = held[i][k]
    BY <1>10, <2>3
  <2> QED BY <2>1, <2>2, <2>3, <2>4, <2>5
<1>11. ASSUME NEW k \in HeldBy(i)'
       PROVE  /\ k \in Segments
              /\ rows'[k].owner = i /\ rows'[k].epoch = held'[i][k].epoch
              /\ rows'[k].leaseUntil = TTL
              /\ held'[i][k].busy => k \in HeldBy(i) /\ held[i][k].busy
  <2>1. k \in Segments /\ held'[i][k].held
    BY DEF HeldBy
  <2>2. CASE k \in got
    <3>1. held'[i][k] = Held(rows'[k].epoch) /\ k \in grant
      BY <2>1, <2>2
    <3>2. held'[i][k].epoch = rows'[k].epoch /\ ~held'[i][k].busy
      BY <3>1 DEF Held
    <3> QED BY <1>4, <2>1, <3>1, <3>2
  <2>3. CASE k \notin got
    <3>1. k \in Kept(i) /\ k \notin out
      BY <2>1, <2>3 DEF NotHeld
    <3>2. k \in HeldBy(i)
      BY <3>1, KeptFacts
    <3> QED BY <1>10, <2>1, <3>1, <3>2
  <2> QED BY <2>2, <2>3
<1>12. ASSUME NEW b \in batches[i]
       PROVE  /\ b.key \in Segments /\ b.key \in Kept(i) /\ b.key \notin out
              /\ b.deadline < TTL
  <2>1. /\ b.key \in Segments /\ b.deadline \in 0 .. Lease
    BY <1>1 DEF Shape, BatchRecords
  <2>2. /\ held[i][b.key].held /\ held[i][b.key].busy /\ rows[b.key].owner = i
        /\ rows[b.key].epoch = held[i][b.key].epoch /\ rows[b.key].leaseUntil > b.deadline
    BY <1>1 DEF InstanceOK, BatchesHoldSegments, Fences, LeaseOf
  <2>3. rows[b.key].leaseUntil \in Nat
    BY <1>1, <2>1 DEF Shape, RowRecords
  <2>4. rows[b.key].leaseUntil > 0 /\ b.deadline < TTL
    BY <2>1, <2>2, <2>3, Constant
  <2>5. b.key \in Kept(i)
    BY <2>1, <2>2, <2>4, KeptFacts DEF HeldBy
  <2>6. b.key \notin out
    BY <2>2 DEF Free
  <2> QED BY <2>1, <2>4, <2>5, <2>6
<1>13. InstanceOK(i)'
  <2>1. SegmentsAreSegmented(i)'
    BY DEF SegmentsAreSegmented
  <2>2. ClaimsForItsOwn(i)'
    <3> SUFFICES ASSUME w = "claim", NEW k \in HeldBy(i)'
                 PROVE  /\ rows'[k].owner = i /\ rows'[k].epoch = held'[i][k].epoch
                        /\ rows'[k].leaseUntil >= TTL - spent'[i]
      BY <1>6 DEF ClaimsForItsOwn, Fences, LeaseOf
    <3>1. spent'[i] = 0
      OBVIOUS
    <3>2. TTL >= TTL - 0
      BY Constant
    <3> QED BY <1>11, <3>1, <3>2
  <2>3. BatchesHoldSegments(i)'
    <3> SUFFICES ASSUME NEW b \in batches[i]
                 PROVE  /\ held'[i][b.key].held /\ held'[i][b.key].busy
                        /\ held'[i][b.key].leaseEnd = b.deadline
                        /\ b.stopped = "deferred" => held'[i][b.key].deferred
                        /\ rows'[b.key].owner = i
                        /\ rows'[b.key].epoch = held'[i][b.key].epoch
                        /\ rows'[b.key].leaseUntil > b.deadline
      BY DEF BatchesHoldSegments, Fences, LeaseOf
    <3>1. /\ held'[i][b.key] = held[i][b.key] /\ rows'[b.key].owner = i
          /\ rows'[b.key].epoch = held[i][b.key].epoch /\ rows'[b.key].leaseUntil = TTL
          /\ b.deadline < TTL
      BY <1>10, <1>12
    <3>2. b.deadline \in Int /\ TTL \in Int
      BY <1>1, Constant DEF Shape, BatchRecords
    <3>3. rows'[b.key].leaseUntil > b.deadline
      BY <3>1, <3>2
    <3> QED BY <1>1, <3>1, <3>3 DEF InstanceOK, BatchesHoldSegments
  <2>4. ItemsAreLeased(i)' /\ OneBatchPerSegment(i)' /\ RunsApart(i)'
    BY <1>1 DEF InstanceOK, ItemsAreLeased, OneBatchPerSegment, RunsApart, KeyOf
  <2>5. OnceServes(i)'
    <3>1. i \in setup.once =>
            \A k \in HeldBy(i) : held[i][k].busy => \E b \in batches[i] : b.key = k
      BY <1>1 DEF InstanceOK, OnceServes
    <3> QED BY <1>6, <1>11, <3>1 DEF OnceServes
  <2> QED BY <2>1, <2>2, <2>3, <2>4, <2>5 DEF InstanceOK
<1>14. leftover' \subseteq leftover
  OBVIOUS
<1> QED BY <1>8, <1>9, <1>13, <1>14, StepKeeps


LEMMA RotationFacts ==
    ASSUME NEW i, NEW out \in Rotations(i)
    PROVE  out \subseteq Kept(i) /\ out \subseteq Free(i)
<1> DEFINE turn == {k \in Kept(i) \cap Free(i) : held[i][k].since >= Term}
<1>1. out \in {{k} : k \in turn} \/ out = {}
  BY DEF Rotations
<1> QED BY <1>1

\* What the rotation does to the renewed rows.
LEMMA RotatedFacts ==
    ASSUME Shape, NEW i \in Owners, NEW out \in Rotations(i), NEW rs, rs = Rotated(i, out)
    PROVE  /\ rs \in [Segments -> RowRecords]
           /\ \A k \in Segments : Spares(i, k, RenewedRows(i)[k], rs[k])
           /\ \A k \in Segments : k \notin out => rs[k] = RenewedRows(i)[k]
<1> DEFINE rel  == {Giving(i, k, 0) : k \in out}
           kept == RenewedRows(i)
<1>1. \A q \in rel : /\ q.deferFor \in Nat /\ q.served \in BOOLEAN /\ q.lease.key \in out
                     /\ q.lease.key \in HeldBy(i) /\ q.lease = LeaseOf(i, q.lease.key)
  <2> SUFFICES ASSUME NEW k \in out
               PROVE  LET q == Giving(i, k, 0) IN
                      /\ q.deferFor \in Nat /\ q.served \in BOOLEAN /\ q.lease.key \in out
                      /\ q.lease.key \in HeldBy(i) /\ q.lease = LeaseOf(i, q.lease.key)
    OBVIOUS
  <2>1. k \in HeldBy(i) /\ 0 \in Nat
    BY RotationFacts DEF Free
  <2> QED BY <2>1, GivingFacts
<1>2. kept \in [Segments -> RowRecords]
  BY RenewedFacts
<1>3. rs = ReleaseTo(kept, rel, 0)
  BY DEF Rotated
<1>4. /\ rs \in [Segments -> RowRecords]
      /\ \A k \in Segments : Spares(i, k, kept[k], rs[k])
      /\ \A k \in Segments : k \notin out => rs[k] = kept[k]
  <2> HIDE DEF rel, kept
  <2> QED BY <1>1, <1>2, <1>3, GivingBack
<1> QED BY <1>4

LEMMA AcquiringStep == ASSUME IInv, NEW i \in Owners, Acquiring(i) PROVE IInv'
<1>1. Shape
  BY DEF IInv
<1>2. PICK out \in Rotations(i) :
         LET cands == segments
             rs    == Rotated(i, out)
             ln    == Seen(RotatedLine(i, out), cands)
             grant == Granted(rs, ln, cands, Room(i, out), 0)
         IN /\ rows' = GrantTo(rs, grant, i, 0)
            /\ held' = [held EXCEPT ![i] = [k \in Segments |->
                           CASE k \in grant -> Held(rows'[k].epoch)
                             [] k \in (Kept(i) \ out) \ grant -> @[k]
                             [] OTHER -> NotHeld]]
  BY DEF Acquiring
<1> DEFINE mine  == Kept(i) \ out
           rs    == Rotated(i, out)
           ln    == Seen(RotatedLine(i, out), segments)
           grant == Granted(rs, ln, segments, Room(i, out), 0)
           n     == [k \in Segments |-> CASE k \in grant -> Held(rows'[k].epoch)
                                          [] k \in mine \ grant -> held[i][k]
                                          [] OTHER -> NotHeld]
<1>3. rows' = GrantTo(rs, grant, i, 0) /\ held' = [held EXCEPT ![i] = n]
  BY <1>2
<1>4. /\ Asks(i) /\ setup.segmented /\ Goto(i, "claim")
      /\ spent' = [spent EXCEPT ![i] = 0] /\ UNCHANGED <<setup, todo, batches, leftover>>
  BY DEF Acquiring
<1>5. out \subseteq Free(i)
  BY RotationFacts
<1>6. /\ rs \in [Segments -> RowRecords]
      /\ \A k \in Segments : Spares(i, k, RenewedRows(i)[k], rs[k])
      /\ \A k \in Segments : k \notin out => rs[k] = RenewedRows(i)[k]
  BY <1>1, RotatedFacts
<1>7. \A k \in grant :
        ~(rs[k].pausedTill > 0) /\ ~(rs[k].owner # None /\ rs[k].leaseUntil > 0)
  <2> HIDE DEF rs, ln
  <2> QED BY GrantedFacts
<1>8. \A k \in Segments : rows'[k].epoch \in Int
  <2>1. rows' \in [Segments -> RowRecords]
    <3> HIDE DEF rs, grant
    <3> QED BY <1>3, <1>6, GrantFacts
  <2> QED BY <2>1 DEF RowRecords
<1> HIDE DEF grant, rs
<1>9. \A k \in Segments :
        /\ k \in grant => n[k] = Held(rows'[k].epoch)
        /\ k \notin grant /\ k \in mine => n[k] = held[i][k]
        /\ k \notin grant /\ k \notin mine => n[k] = NotHeld
  <2> HIDE DEF mine
  <2> TAKE k \in Segments
  <2>1. n[k] = CASE k \in grant -> Held(rows'[k].epoch)
                 [] k \in mine \ grant -> held[i][k]
                 [] OTHER -> NotHeld
    OBVIOUS
  <2> HIDE DEF n
  <2> QED BY <2>1
<1>10. n \in [Segments -> HeldRecords \cup {NotHeld}]
  <2>1. ASSUME NEW k \in Segments PROVE n[k] \in HeldRecords \cup {NotHeld}
    <3>1. Held(rows'[k].epoch) \in HeldRecords
      BY <1>8 DEF Held, HeldRecords
    <3>2. held[i][k] \in HeldRecords \cup {NotHeld}
      BY <1>1 DEF Shape
    <3> QED BY <1>9, <3>1, <3>2
  <2>2. n = [k \in Segments |-> n[k]]
    OBVIOUS
  <2> HIDE DEF n
  <2> QED BY <2>1, <2>2
<1> HIDE DEF n
<1>11. /\ held' \in [Owners -> [Segments -> HeldRecords \cup {NotHeld}]] /\ held'[i] = n
       /\ \A j \in Owners : j # i => held'[j] = held[j]
  BY <1>1, <1>3, <1>10 DEF Shape
<1>12. \A k \in Segments :
         /\ k \in grant => held'[i][k] = Held(rows'[k].epoch)
         /\ k \notin grant /\ k \in Kept(i) \ out => held'[i][k] = held[i][k]
         /\ k \notin grant /\ k \notin Kept(i) \ out => held'[i][k] = NotHeld
  BY <1>9, <1>11
<1>13. /\ spent' \in [Owners -> 0 .. setup.maxDelay] /\ spent'[i] = 0
       /\ \A j \in Owners : j # i => spent'[j] = spent[j]
  <2>1. spent \in [Owners -> 0 .. setup.maxDelay] /\ 0 \in 0 .. setup.maxDelay
    BY <1>1, SetupFacts DEF Shape
  <2> QED BY <1>4, <2>1
<1>14. pc[i] = "check" /\ drained' = [drained EXCEPT ![i] = FALSE]
  BY <1>4 DEF Asks
<1>15. AcquireStep(i, rs, out, grant, grant, "claim")
  BY <1>3, <1>4, <1>5, <1>6, <1>7, <1>11, <1>12, <1>13, <1>14 DEF AcquireStep
<1> QED BY <1>15, AcquireKeeps

\* A call of Next fails: where the loop goes, and what it leaves alone.
LEMMA FailingFacts ==
    ASSUME NEW i \in Owners, NextFails(i)
    PROVE  /\ Goto(i, AfterError(i))
           /\ AfterError(i) \in {"drain", "stall"}
           /\ i \in setup.once => AfterError(i) = "drain"
           /\ UNCHANGED <<setup, batches, spent, leftover>>
  BY AfterErrorFacts DEF NextFails

LEMMA RenewFailsStep ==
    ASSUME IInv, NEW i \in Owners, NextFails(i), RenewFails(i) PROVE IInv'
<1> DEFINE after == RenewTo(rows, {LeaseOf(i, k) : k \in HeldBy(i)}, 0)
           w == AfterError(i)
<1>1. Shape
  BY DEF IInv
<1>2. /\ Goto(i, w) /\ w \in {"drain", "stall"} /\ (i \in setup.once => w = "drain")
      /\ UNCHANGED <<setup, held, batches, spent, leftover, todo>>
  BY FailingFacts DEF RenewFails
<1>3. rows' = rows \/ rows' = after
  BY DEF RenewFails
<1>4. drained' = [drained EXCEPT ![i] = FALSE]
  BY DEF RenewFails, Asks
<1>5. after = RenewTo(rows, {LeaseOf(i, k) : k \in HeldBy(i)}, 0)
  OBVIOUS
<1> HIDE DEF after, w
<1>6. /\ after \in [Segments -> RowRecords]
      /\ \A k \in Segments :
           /\ after[k].owner = rows[k].owner /\ after[k].epoch = rows[k].epoch
           /\ after[k].pausedTill = rows[k].pausedTill
           /\ after[k].leaseUntil = IF k \in Kept(i) THEN TTL ELSE rows[k].leaseUntil
  BY <1>1, <1>5, RenewFacts
<1>7. \A k \in Kept(i) : Fenced(i, k, rows[k])
  BY KeptFacts DEF Fenced, HeldBy
<1>8. /\ rows' \in [Segments -> RowRecords]
      /\ \A k \in Segments :
           /\ rows'[k].owner = rows[k].owner /\ rows'[k].epoch = rows[k].epoch
           /\ rows'[k].pausedTill = rows[k].pausedTill
           /\ \/ rows'[k].leaseUntil = rows[k].leaseUntil
              \/ Fenced(i, k, rows[k]) /\ rows'[k].leaseUntil = TTL
  <2>1. CASE rows' = rows
    BY <1>1, <2>1 DEF Shape
  <2>2. CASE rows' = after
    BY <1>6, <1>7, <2>2
  <2> QED BY <1>3, <2>1, <2>2
<1>9. todo' \in [Items -> ItemRecords] /\ todo' = todo
  BY <1>1, <1>2 DEF Shape
<1> QED BY <1>2, <1>4, <1>8, <1>9, MovesOn

\* The first half of Next fails, with the effect the scheduler did not learn
\* of, or none.
LEMMA AcquireFailsStep ==
    ASSUME IInv, NEW i \in Owners, NextFails(i), AcquireFails(i) PROVE IInv'
<1>1. Shape
  BY DEF IInv
<1>2. PICK out \in Rotations(i) :
         LET rs == Rotated(i, out)
             ln == Seen(RotatedLine(i, out), segments)
         IN /\ \/ rows' = RenewedRows(i)
               \/ rows' = rs
               \/ rows' = GrantTo(rs, Granted(rs, ln, segments, Room(i, out), 0), i, 0)
            /\ held' = [held EXCEPT ![i] = [k \in Segments |->
                           IF k \in Kept(i) \ out THEN @[k] ELSE NotHeld]]
  BY DEF AcquireFails
<1> DEFINE none  == {}
           w     == AfterError(i)
           rot   == Rotated(i, out)
           ln    == Seen(RotatedLine(i, out), segments)
           n     == [k \in Segments |-> IF k \in Kept(i) \ out THEN held[i][k] ELSE NotHeld]
<1>3. \A rs \in [Segments -> RowRecords] : rs = GrantTo(rs, none, i, 0)
  BY DEF GrantTo
<1>4. /\ RenewedRows(i) \in [Segments -> RowRecords]
      /\ \A k \in Segments : Spares(i, k, RenewedRows(i)[k], RenewedRows(i)[k])
  <2>1. RenewedRows(i) \in [Segments -> RowRecords]
    BY <1>1, RenewedFacts
  <2>2. \A k \in Segments : RenewedRows(i)[k].pausedTill \in Nat
    BY <2>1 DEF RowRecords
  <2> QED BY <2>1, <2>2 DEF Spares
<1>5. /\ rot \in [Segments -> RowRecords]
      /\ \A k \in Segments : Spares(i, k, RenewedRows(i)[k], rot[k])
      /\ \A k \in Segments : k \notin out => rot[k] = RenewedRows(i)[k]
  BY <1>1, RotatedFacts
<1>6. PICK rs \in {RenewedRows(i), rot}, grant \in {none, Granted(rot, ln, segments, Room(i, out), 0)} :
        /\ grant = none \/ rs = rot
        /\ rows' = GrantTo(rs, grant, i, 0)
  <2> DEFINE all == Granted(rot, ln, segments, Room(i, out), 0)
  <2>1. rows' = RenewedRows(i) \/ rows' = rot \/ rows' = GrantTo(rot, all, i, 0)
    BY <1>2
  <2> HIDE DEF rot, ln, none, all
  <2>2. CASE rows' = RenewedRows(i)
    <3>1. rows' = GrantTo(RenewedRows(i), none, i, 0)
      BY <1>3, <1>4, <2>2
    <3> QED BY <3>1 DEF all
  <2>3. CASE rows' = rot
    <3>1. rows' = GrantTo(rot, none, i, 0)
      BY <1>3, <1>5, <2>3
    <3> QED BY <3>1 DEF all
  <2>4. CASE rows' = GrantTo(rot, all, i, 0)
    BY <2>4 DEF all
  <2> QED BY <2>1, <2>2, <2>3, <2>4
<1>7. /\ rs \in [Segments -> RowRecords]
      /\ \A k \in Segments : Spares(i, k, RenewedRows(i)[k], rs[k])
      /\ \A k \in Segments : k \notin out => rs[k] = RenewedRows(i)[k]
  BY <1>4, <1>5, <1>6
<1>8. \A k \in grant :
        ~(rs[k].pausedTill > 0) /\ ~(rs[k].owner # None /\ rs[k].leaseUntil > 0)
  <2>1. CASE grant = none
    BY <2>1
  <2>2. CASE rs = rot /\ grant = Granted(rot, ln, segments, Room(i, out), 0)
    <3> HIDE DEF rot, ln
    <3> QED BY <2>2, GrantedFacts
  <2> QED BY <1>6, <2>1, <2>2
<1>9. held' = [held EXCEPT ![i] = n] /\ n \in [Segments -> HeldRecords \cup {NotHeld}]
  BY <1>1, <1>2 DEF Shape
<1>10. \A k \in Segments : n[k] = IF k \in Kept(i) \ out THEN held[i][k] ELSE NotHeld
  OBVIOUS
<1> HIDE DEF n
<1>11. /\ held' \in [Owners -> [Segments -> HeldRecords \cup {NotHeld}]] /\ held'[i] = n
       /\ \A j \in Owners : j # i => held'[j] = held[j]
  BY <1>1, <1>9 DEF Shape
<1>12. \A k \in Segments :
         /\ k \in none => held'[i][k] = Held(rows'[k].epoch)
         /\ k \notin none /\ k \in Kept(i) \ out => held'[i][k] = held[i][k]
         /\ k \notin none /\ k \notin Kept(i) \ out => held'[i][k] = NotHeld
  BY <1>10, <1>11
<1>13. /\ spent' \in [Owners -> 0 .. setup.maxDelay]
       /\ \A j \in Owners : j # i => spent'[j] = spent[j]
  BY <1>1, FailingFacts DEF Shape
<1>14. /\ pc[i] = "check" /\ drained' = [drained EXCEPT ![i] = FALSE]
       /\ setup.segmented /\ UNCHANGED todo
  BY DEF AcquireFails, Asks
<1>15. /\ Goto(i, w) /\ w \in {"drain", "stall"} /\ (i \in setup.once => w = "drain")
       /\ UNCHANGED <<setup, batches, leftover>>
  BY FailingFacts
<1>16. out \subseteq Free(i) /\ none \subseteq grant
  BY RotationFacts
<1>17. rows' = GrantTo(rs, grant, i, 0)
  BY <1>6
<1> HIDE DEF none, w, rot, ln
<1>18. AcquireStep(i, rs, out, grant, none, w)
  BY <1>7, <1>8, <1>11, <1>12, <1>13, <1>14, <1>15, <1>16, <1>17 DEF AcquireStep
<1> QED BY <1>18, AcquireKeeps

\* The list without segments is claimed from, or not, and no batch knows.
LEMMA UnsegmentedFailsStep ==
    ASSUME IInv, NEW i \in Owners, NextFails(i), Asks(i), ~setup.segmented,
           todo' \in {todo, Claimed(ClaimOf(0), 0)}, UNCHANGED <<rows, held>>
    PROVE  IInv'
<1> DEFINE w == AfterError(i)
<1>1. Shape
  BY DEF IInv
<1>2. /\ Goto(i, w) /\ w \in {"drain", "stall"} /\ (i \in setup.once => w = "drain")
      /\ UNCHANGED <<setup, batches, spent, leftover>>
      /\ drained' = [drained EXCEPT ![i] = FALSE]
  BY FailingFacts DEF Asks
<1>3. /\ todo' \in [Items -> ItemRecords]
      /\ \A x \in Items : todo'[x] = todo[x] \/ todo[x].lease = 0
  <2>1. CASE todo' = todo
    BY <1>1, <2>1 DEF Shape
  <2>2. CASE todo' = Claimed(ClaimOf(0), 0)
    <3>1. ClaimOf(0) = Claims({0})
      BY DEF Claims
    <3>2. todo' = Claimed(Claims({0}), 0) /\ 0 \in Nat
      BY <2>2, <3>1
    <3> QED BY <1>1, <3>2, ClaimedFacts
  <2> QED BY <2>1, <2>2
<1>4. /\ rows' \in [Segments -> RowRecords] /\ UNCHANGED <<setup, held, batches, spent, leftover>>
      /\ \A k \in Segments :
           /\ rows'[k].owner = rows[k].owner /\ rows'[k].epoch = rows[k].epoch
           /\ rows'[k].pausedTill = rows[k].pausedTill
           /\ rows'[k].leaseUntil = rows[k].leaseUntil
  BY <1>1, <1>2 DEF Shape
<1> HIDE DEF w
<1> QED BY <1>2, <1>3, <1>4, MovesOn

LEMMA NextFailsStep == ASSUME IInv, NEW i \in Owners, NextFails(i) PROVE IInv'
<1>1. CASE RenewFails(i)
  BY <1>1, RenewFailsStep
<1>2. CASE AcquireFails(i)
  BY <1>2, AcquireFailsStep
<1>3. CASE ClaimFails(i)
  <2>1. UNCHANGED <<rows, held>>
    BY <1>3 DEF ClaimFails
  <2>2. CASE /\ pc[i] = "claim"
             /\ todo' \in {todo, Claimed(UNION {ClaimOf(k) : k \in Free(i)}, 0)}
             /\ UNCHANGED <<released, drained>>
    BY <2>1, <2>2, FailingFacts, ClaimFailsStep
  <2>3. CASE /\ Asks(i) /\ ~setup.segmented
             /\ todo' \in {todo, Claimed(ClaimOf(0), 0)}
    BY <2>1, <2>3, UnsegmentedFailsStep
  <2> QED BY <1>3, <2>2, <2>3 DEF ClaimFails
<1> QED BY <1>1, <1>2, <1>3 DEF NextFails

(***************************************************************************)
(* A list without segments: one batch at a time, which no row stands for.    *)
(***************************************************************************)
LEMMA UnsegmentedStep == ASSUME IInv, NEW i \in Owners, nextUnsegmented(i) PROVE IInv'
<1>1. Shape /\ InstanceOK(i)
  BY DEF IInv
<1> DEFINE claims == MayClaim(i) /\ ClaimOf(0) # {}
<1>2. PICK d \in 0 .. setup.maxDelay :
         LET end == DeadlineAt(d) IN
         /\ todo' = IF claims THEN Claimed(ClaimOf(0), end) ELSE todo
         /\ batches' = [batches EXCEPT ![i] = IF claims THEN @ \cup {NewBatch(0, end)} ELSE @]
  BY DEF nextUnsegmented
<1> DEFINE end == DeadlineAt(d)
           n == IF claims THEN batches[i] \cup {NewBatch(0, end)} ELSE batches[i]
           w == IF claims THEN "check" ELSE "decide"
<1>3. /\ Asks(i) /\ ~setup.segmented /\ leftover' \subseteq leftover
      /\ Goto(i, w) /\ UNCHANGED <<setup, rows, held, spent>>
  BY DEF nextUnsegmented
<1>4. /\ todo' = IF claims THEN Claimed(ClaimOf(0), end) ELSE todo
      /\ batches' = [batches EXCEPT ![i] = n]
  BY <1>2
<1>5. end \in 0 .. Lease /\ end \in Nat
  <2>1. d \in Nat
    BY <1>1, SetupFacts DEF Shape
  <2> QED BY <2>1, DeadlineFacts, Constant
<1> HIDE DEF end
<1>6. /\ NewBatch(0, end) \in BatchRecords /\ NewBatch(0, end).running = {}
  BY <1>5, Constant, NewBatchFacts
<1>7. n \in SUBSET BatchRecords /\ \A b \in n : b \in batches[i] \/ b.running = {}
  BY <1>1, <1>6 DEF Shape
<1>8. w \in {"check", "decide"}
  OBVIOUS
<1>9. todo' \in [Items -> ItemRecords]
      /\ \A x \in Items : todo'[x] = todo[x] \/ todo[x].lease = 0
  <2>1. CASE ~claims
    BY <1>1, <1>4, <2>1 DEF Shape
  <2>2. CASE claims
    <3>1. ClaimOf(0) = Claims({0})
      BY DEF Claims
    <3>2. todo' = Claimed(Claims({0}), end)
      BY <1>4, <2>2, <3>1
    <3> QED BY <1>1, <1>5, <3>2, ClaimedFacts
  <2> QED BY <2>1, <2>2
<1> HIDE DEF claims, n, w
<1>10. /\ batches' \in [Owners -> SUBSET BatchRecords] /\ batches'[i] = n
       /\ \A j \in Owners : j # i => batches'[j] = batches[j]
  BY <1>1, <1>4, <1>7 DEF Shape
<1>11. /\ pc' \in [Owners -> Places] /\ pc'[i] = w
       /\ \A j \in Owners : j # i => pc'[j] = pc[j]
  BY <1>1, <1>3, <1>8 DEF Shape, Goto, Places
<1>12. /\ drained' \in [Owners -> BOOLEAN]
       /\ \A j \in Owners : j # i => drained'[j] = drained[j]
  BY <1>1, <1>3 DEF Shape, Asks
<1>13. Shape'
  BY <1>1, <1>3, <1>9, <1>10, <1>11, <1>12 DEF Shape
<1>14. StepOf(i)
  <2>1. \A k \in Segments : Spares(i, k, rows[k], rows'[k]) /\ HoldsNoMore(i, k)
    BY <1>1, <1>3 DEF Shape, Spares, HoldsNoMore, RowRecords
  <2> QED BY <1>3, <1>9, <1>10, <1>11, <1>12, <2>1 DEF StepOf
<1>15. InstanceOK(i)'
  <2>1. \A k \in Segments : held'[i][k] = NotHeld
    BY <1>1, <1>3 DEF InstanceOK, SegmentsAreSegmented
  <2>2. HeldBy(i)' = {} /\ Free(i)' = {}
    BY <2>1 DEF HeldBy, Free, NotHeld
  <2>3. SegmentsAreSegmented(i)' /\ ClaimsForItsOwn(i)' /\ OnceServes(i)'
    BY <1>8, <1>11, <2>1, <2>2 DEF SegmentsAreSegmented, ClaimsForItsOwn, OnceServes
  <2>4. BatchesHoldSegments(i)' /\ ItemsAreLeased(i)' /\ OneBatchPerSegment(i)'
    BY <1>3 DEF BatchesHoldSegments, ItemsAreLeased, OneBatchPerSegment
  <2>5. RunsApart(i)'
    BY <1>1, <1>7, <1>10, SlotFacts DEF InstanceOK, RunsApart
  <2> QED BY <2>3, <2>4, <2>5 DEF InstanceOK
<1> QED BY <1>3, <1>13, <1>14, <1>15, StepKeeps

-----------------------------------------------------------------------------
(* The theorems.                                                             *)

LEMMA NextIInv == IInv /\ [Next]_vars => IInv'
<1> SUFFICES ASSUME IInv, [Next]_vars PROVE IInv'
  OBVIOUS
<1>1. CASE Tick
  BY <1>1, TickStep
<1>2. CASE \E b \in BOOLEAN : SetPaused(b)
  BY <1>2, SetPausedStep
<1>3. ASSUME NEW i \in Owners, Loop(i) PROVE IInv'
  BY <1>3, StandPausedStep, AcquiringStep, ClaimingStep, UnsegmentedStep, DecideStep,
     WakeStep, LeaveLoopStep, ReturnStep DEF Loop
<1>4. ASSUME NEW i \in Owners, RunBatch(i) PROVE IInv'
  BY <1>4, StartItemStep, WorkDoneStep DEF RunBatch
<1>5. ASSUME NEW i \in Owners, DrainBatch(i) PROVE IInv'
  BY <1>5, DrainedStep DEF DrainBatch
<1>6. ASSUME NEW i \in Owners, Faulty(i) PROVE IInv'
  <2>1. ASSUME NEW b \in batches[i], NEW x \in b.running,
               WorkFails(i, b, x) \/ \E d \in Pauses : WorkDefers(i, b, x, d)
        PROVE  IInv'
    BY <2>1, WorkFailsStep, WorkDefersStep
  <2> QED BY <1>6, <2>1, NextFailsStep, IdleReleaseFailsStep, CheckFailsStep, NotLiveStep,
             StopStep, CrashStep DEF Faulty
<1>7. CASE UNCHANGED vars
  <2>1. UNCHANGED <<setup, rows, todo, pc, held, batches, spent, drained, leftover>>
    BY <1>7 DEF vars, schedVars, loopVars
  <2> QED BY <2>1, StutterKeeps
<1> QED BY <1>1, <1>2, <1>3, <1>4, <1>5, <1>6, <1>7 DEF Next


(***************************************************************************)
(* In every reachable state, a batch has its segment: held in the scheduler, *)
(* fenced in the store and leased beyond the batch's deadline, whatever the  *)
(* other instances renew, rotate, acquire or release meanwhile and whichever *)
(* of these calls fail (nextSegmented, Done, Drained, Close).                *)
(***************************************************************************)
THEOREM Inductive == Spec => []IInv
<1>1. Init => IInv
  BY InitIInv
<1>2. IInv /\ [Next]_vars => IInv'
  BY NextIInv
<1> QED BY <1>1, <1>2, PTL DEF Spec

(***************************************************************************)
(* The segment of a batch belongs to its instance, in the store, for as long *)
(* as the batch's items may be worked: the margin newClaimScheduler leaves   *)
(* between the two leases is enough for every Next, of every length it may   *)
(* have, and renewal, rotation and the idle release never give it away.      *)
(***************************************************************************)
THEOREM SegmentsOutlive == Spec => []SegmentOutlivesBatch
<1>1. ASSUME IInv PROVE SegmentOutlivesBatch
  <2> SUFFICES ASSUME setup.segmented, NEW i \in Owners, NEW b \in Leased(i)
               PROVE  heldAt(rows[b.key], 0) /\ rows[b.key].owner = i
    BY DEF SegmentOutlivesBatch
  <2>1. b \in batches[i] /\ Shape /\ InstanceOK(i)
    BY <1>1 DEF Leased, IInv
  <2>2. rows[b.key].owner = i /\ rows[b.key].leaseUntil > b.deadline
    BY <2>1 DEF InstanceOK, BatchesHoldSegments, Fences, LeaseOf
  <2>3. b.key \in Segments /\ b.deadline \in 0 .. Lease
    BY <2>1 DEF Shape, BatchRecords
  <2>4. rows[b.key].leaseUntil \in Nat
    BY <2>1, <2>3 DEF Shape, RowRecords
  <2>5. rows[b.key].leaseUntil > 0
    BY <2>2, <2>3, <2>4, Constant
  <2> QED BY <2>2, <2>5, Constant DEF heldAt
<1>2. IInv => SegmentOutlivesBatch
  BY <1>1
<1> QED BY <1>2, Inductive, PTL

(***************************************************************************)
(* A segment has one batch, of one instance; so an item is in one batch, and *)
(* is never worked twice at once.                                            *)
(***************************************************************************)
OneBatchAnywhere ==
    setup.segmented =>
      \A i, j \in Owners : \A b \in batches[i], c \in batches[j] :
        b.key = c.key \/ b.items \cap c.items # {} => i = j /\ b = c

LEMMA OneBatchFacts == IInv => OneBatchAnywhere
<1> SUFFICES ASSUME IInv, setup.segmented, NEW i \in Owners, NEW j \in Owners,
                    NEW b \in batches[i], NEW c \in batches[j],
                    b.key = c.key \/ b.items \cap c.items # {}
             PROVE  i = j /\ b = c
  BY DEF OneBatchAnywhere
<1>1. InstanceOK(i) /\ InstanceOK(j)
  BY DEF IInv
<1>2. b.key = c.key
  BY <1>1 DEF InstanceOK, ItemsAreLeased
<1>3. rows[b.key].owner = i /\ rows[c.key].owner = j
  BY <1>1 DEF InstanceOK, BatchesHoldSegments, Fences, LeaseOf
<1> QED BY <1>1, <1>2, <1>3 DEF InstanceOK, OneBatchPerSegment

(***************************************************************************)
(* Two batches for the same segment, or with an item in common, are one:     *)
(* "a list that implements Segmented gets one owner per segment"             *)
(* (automation.Definition), for batches, not only for leases.                *)
(***************************************************************************)
THEOREM OneBatchASegment == Spec => []OneBatchAnywhere
  BY OneBatchFacts, Inductive, PTL

(***************************************************************************)
(* "At most K calls at once to this provider holds across every instance"    *)
(* (automation/doc.go): the items of a segment that run, on whichever        *)
(* instance, are never more than Concurrency.                                *)
(***************************************************************************)
RunningIn(k) ==
    {x \in Items : \E i \in Owners : \E b \in batches[i] : b.key = k /\ x \in b.running}

CallsAreLimited == setup.segmented => \A k \in Segments : Fits(RunningIn(k))

THEOREM AtMostConcurrency == Spec => []CallsAreLimited
<1>1. ASSUME IInv PROVE CallsAreLimited
  <2> SUFFICES ASSUME setup.segmented, NEW k \in Segments PROVE Fits(RunningIn(k))
    BY DEF CallsAreLimited
  <2>1. CASE RunningIn(k) = {}
    BY <2>1, SlotFacts
  <2>2. CASE RunningIn(k) # {}
    <3>1. PICK i \in Owners : \E b \in batches[i] : b.key = k
      BY <2>2 DEF RunningIn
    <3> PICK b \in batches[i] : b.key = k
      BY <3>1
    <3>2. \A j \in Owners : \A c \in batches[j] : c.key = k => c = b
      BY <1>1, <3>1, OneBatchFacts DEF OneBatchAnywhere
    <3>3. b \in BatchRecords /\ Fits(b.running)
      BY <1>1, BatchFacts
    <3>4. RunningIn(k) = b.running
      BY <3>1, <3>2, <3>3 DEF RunningIn, BatchRecords
    <3> QED BY <3>3, <3>4
  <2> QED BY <2>1, <2>2
<1>2. IInv => CallsAreLimited
  BY <1>1
<1> QED BY <1>2, Inductive, PTL

(***************************************************************************)
(* An ordering key lies within one segment, as an order's or an aggregate's  *)
(* items do when the projection shards by it.                                *)
(***************************************************************************)
ChainsInSegments ==
    \A x, y \in Items : OrderingKey[x] = OrderingKey[y] => segmentOf[x] = segmentOf[y]

(***************************************************************************)
(* Where an ordering key lies within one segment, its items run one at a     *)
(* time across all instances (Definition.OrderingKey: "never overtake each   *)
(* other"). Nothing in the scheduler compares keys of two segments, so the   *)
(* hypothesis is needed.                                                     *)
(***************************************************************************)
THEOREM ChainsRunAlone ==
    ASSUME ChainsInSegments
    PROVE  Spec => []ChainRunsAlone
<1>1. ASSUME IInv PROVE ChainRunsAlone
  <2> SUFFICES ASSUME setup.segmented, NEW i \in Owners, NEW j \in Owners,
                      NEW b \in Leased(i), NEW c \in Leased(j),
                      NEW x \in b.running, NEW y \in c.running,
                      OrderingKey[x] = OrderingKey[y]
               PROVE  x = y
    BY DEF ChainRunsAlone
  <2>1. b \in batches[i] /\ c \in batches[j] /\ InstanceOK(i) /\ InstanceOK(j)
    BY <1>1 DEF Leased, IInv
  <2>2. /\ b \in BatchRecords /\ b.running \subseteq b.items
        /\ c \in BatchRecords /\ c.running \subseteq c.items
        /\ \A u, v \in b.running : OrderingKey[u] = OrderingKey[v] => u = v
    BY <1>1, <2>1, BatchFacts
  <2>3. x \in Items /\ y \in Items /\ x \in b.items /\ y \in c.items
    BY <2>2 DEF BatchRecords
  <2>4. KeyOf(x) = b.key /\ KeyOf(y) = c.key
    BY <2>1, <2>3 DEF InstanceOK, ItemsAreLeased
  <2>5. b.key = c.key
    BY <2>3, <2>4 DEF ChainsInSegments, KeyOf
  <2>6. b = c
    BY <1>1, <2>1, <2>5, OneBatchFacts DEF OneBatchAnywhere
  <2> QED BY <2>2, <2>6
<1>2. IInv => ChainRunsAlone
  BY <1>1
<1> QED BY <1>2, Inductive, PTL

\* Items are claimed for the first time from a segment their claimer owns.
LEMMA ClaimedFromOwn ==
    ASSUME IInv, Next, setup.segmented, NEW y \in Items, todo[y].fresh, ~todo'[y].fresh
    PROVE  \E i \in Owners : Fenced(i, KeyOf(y), rows[KeyOf(y)])
<1>1. Shape /\ todo[y] \in ItemRecords
  BY DEF IInv, Shape
<1>2. todo' # todo
  OBVIOUS
<1>3. ASSUME NEW i \in Owners, pc[i] = "claim", NEW ks, ks \subseteq Free(i),
             NEW end \in Nat, todo' = Claimed(Claims(ks), end)
      PROVE  Fenced(i, KeyOf(y), rows[KeyOf(y)])
  <2>1. KeyOf(y) \in ks
    BY <1>1, <1>3, ClaimedFacts
  <2>2. KeyOf(y) \in HeldBy(i)
    BY <1>3, <2>1 DEF Free
  <2>3. InstanceOK(i)
    BY DEF IInv
  <2> QED BY <1>3, <2>2, <2>3
         DEF InstanceOK, ClaimsForItsOwn, Fences, LeaseOf, Fenced, HeldBy
<1>4. ~Tick
  <2> SUFFICES ASSUME Tick PROVE FALSE
    OBVIOUS
  <2>1. todo'[y] = [todo[y] EXCEPT !.lease = Nearer(@), !.deadline = Nearer(@)]
    BY DEF Tick
  <2> QED BY <1>1, <2>1 DEF ItemRecords
<1>5. ~\E b \in BOOLEAN : SetPaused(b)
  BY <1>2 DEF SetPaused
<1>6. ASSUME NEW i \in Owners, Loop(i) PROVE Fenced(i, KeyOf(y), rows[KeyOf(y)])
  <2>1. Claiming(i)
    BY <1>2, <1>6 DEF Loop, StandPaused, Acquiring, nextUnsegmented, Decide, Wake, LeaveLoop,
                     Return
  <2> DEFINE ks == WithWork(Free(i))
  <2>2. PICK d \in 0 .. spent[i] :
          todo' = Claimed(UNION {ClaimOf(k) : k \in ks}, DeadlineAt(d))
    BY <2>1 DEF Claiming
  <2>3. pc[i] = "claim" /\ DeadlineAt(d) \in Nat
    <3>1. d \in Nat
      BY <1>1, SetupFacts DEF Shape
    <3> QED BY <2>1, <3>1, DeadlineFacts, Constant DEF Claiming
  <2>4. ks \subseteq Free(i) /\ todo' = Claimed(Claims(ks), DeadlineAt(d))
    BY <2>2, WithWorkFacts, Zenon DEF Claims
  <2> HIDE DEF ks
  <2> QED BY <1>3, <2>3, <2>4
<1>7. ~\E i \in Owners : RunBatch(i) \/ DrainBatch(i)
  <2> SUFFICES ASSUME NEW i \in Owners, NEW b \in batches[i], NEW x \in b.running,
                      WorkDone(i, b, x) PROVE FALSE
    BY <1>2 DEF RunBatch, DrainBatch, Drained, StartItem
  <2>1. todo' = [todo EXCEPT ![x].done = TRUE] /\ todo \in [Items -> ItemRecords]
    BY <1>1 DEF WorkDone, Shape
  <2>2. x \in Items
    BY BatchFacts DEF BatchRecords
  <2> QED BY <2>1, <2>2 DEF ItemRecords
<1>8. ASSUME NEW i \in Owners, Faulty(i) PROVE Fenced(i, KeyOf(y), rows[KeyOf(y)])
  <2>1. NextFails(i) \/ IdleReleaseFails(i)
    BY <1>2, <1>8 DEF Faulty, CheckFails, NotLive, Stop, Crash, WorkFails, WorkDefers
  <2>2. CASE NextFails(i)
    <3>1. pc[i] = "claim" /\ todo' = Claimed(UNION {ClaimOf(k) : k \in Free(i)}, 0)
      BY <1>2, <2>2 DEF NextFails, RenewFails, AcquireFails, ClaimFails
    <3>2. todo' = Claimed(Claims(Free(i)), 0) /\ 0 \in Nat
      BY <3>1, Zenon DEF Claims
    <3> QED BY <1>3, <3>1, <3>2
  <2>3. CASE IdleReleaseFails(i)
    <3> DEFINE ks == WithWork(Free(i))
    <3>1. PICK d \in 0 .. spent[i] :
            todo' = Claimed(UNION {ClaimOf(k) : k \in ks}, DeadlineAt(d))
      BY <2>3 DEF IdleReleaseFails
    <3>2. pc[i] = "claim" /\ DeadlineAt(d) \in Nat
      <4>1. d \in Nat
        BY <1>1, SetupFacts DEF Shape
      <4> QED BY <2>3, <4>1, DeadlineFacts, Constant DEF IdleReleaseFails
    <3>3. ks \subseteq Free(i) /\ todo' = Claimed(Claims(ks), DeadlineAt(d))
      BY <3>1, WithWorkFacts, Zenon DEF Claims
    <3> HIDE DEF ks
    <3> QED BY <1>3, <3>2, <3>3
  <2> QED BY <2>1, <2>2, <2>3
<1> QED BY <1>4, <1>5, <1>6, <1>7, <1>8 DEF Next

(***************************************************************************)
(* Until the deadline of the items that a deferred batch did not start,      *)
(* nothing more is claimed from their segment, by any instance, whenever in  *)
(* the call their leases began: Drained pauses the segment for as long as    *)
(* the longer of the deferral and the deadline, and where giving it back     *)
(* fails the segment's own lease, which is longer, keeps it shut             *)
(* (claim_scheduler.go, Drained).                                            *)
(***************************************************************************)
THEOREM DeferralHolds == Spec => DeferralHoldsSegment
<1> DEFINE A == \A x \in leftover : todo[x].deadline > 0 =>
                  \A y \in Items : ~Overtakes(y, x)
<1>1. ASSUME IInv, [Next]_vars PROVE [A]_vars
  <2> SUFFICES ASSUME Next, NEW x \in leftover, todo[x].deadline > 0,
                      NEW y \in Items, Overtakes(y, x)
               PROVE  FALSE
    BY <1>1
  <2>1. setup.segmented /\ todo[y].fresh /\ ~todo'[y].fresh /\ KeyOf(y) = KeyOf(x)
    BY DEF Overtakes
  <2>2. \E i \in Owners : Fenced(i, KeyOf(y), rows[KeyOf(y)])
    BY <1>1, <2>1, ClaimedFromOwn
  <2>3. \A i \in Owners : ~Fenced(i, KeyOf(x), rows[KeyOf(x)])
    BY <1>1, <2>1 DEF IInv, LeftoverIsShut, IsShut
  <2> QED BY <2>1, <2>2, <2>3
<1>2. IInv /\ [Next]_vars => [A]_vars
  BY <1>1
<1>3. Spec => [][A]_vars
  <2> HIDE DEF A
  <2> QED BY <1>2, Inductive, PTL DEF Spec
<1> QED BY <1>3 DEF DeferralHoldsSegment

\* RunOnce leaves its loop of its own accord only by Decide.
LEMMA OnceLeaves ==
    ASSUME IInv, Next, NEW i \in Owners, i \in setup.once, pc[i] = "decide", pc'[i] = "drain"
    PROVE  NothingMore(i)
<1>1. pc \in [Owners -> Places]
  BY DEF IInv, Shape
<1>2. ASSUME NEW j \in Owners, NEW w, Goto(j, w) PROVE j = i /\ w = "drain"
  BY <1>1, <1>2 DEF Goto
<1>3. pc' # pc
  OBVIOUS
<1>4. ~Tick /\ ~\E b \in BOOLEAN : SetPaused(b)
  BY <1>3 DEF Tick, SetPaused, loopVars
<1>5. ASSUME NEW j \in Owners, Loop(j) PROVE NothingMore(i)
  <2>1. CASE Decide(j)
    <3>1. j = i
      BY <1>2, <2>1 DEF Decide, Wait
    <3>2. CASE i \in setup.once /\ NothingMore(i)
      BY <3>2
    <3>3. CASE ~(i \in setup.once /\ NothingMore(i))
      BY <1>2, <2>1, <3>1, <3>3 DEF Decide, Wait
    <3> QED BY <3>2, <3>3
  <2>2. CASE StandPaused(j)
    BY <1>2, <2>2 DEF StandPaused, Wait
  <2>3. CASE Acquiring(j) \/ Claiming(j) \/ nextUnsegmented(j)
    BY <1>2, <2>3 DEF Acquiring, Claiming, nextUnsegmented, Asks
  <2>4. CASE Wake(j) \/ LeaveLoop(j) \/ Return(j)
    BY <1>2, <2>4 DEF Wake, LeaveLoop, Return
  <2> QED BY <1>5, <2>1, <2>2, <2>3, <2>4 DEF Loop
<1>6. ~\E j \in Owners : RunBatch(j) \/ DrainBatch(j)
  BY <1>3 DEF RunBatch, DrainBatch, Drained, StartItem, WorkDone, loopVars
<1>7. ASSUME NEW j \in Owners, Faulty(j) PROVE FALSE
  <2>1. CASE NextFails(j) \/ IdleReleaseFails(j)
    BY <1>2, <2>1 DEF NextFails, RenewFails, AcquireFails, ClaimFails, IdleReleaseFails, Asks
  <2>2. CASE CheckFails(j) \/ NotLive(j)
    BY <1>2, <2>2 DEF CheckFails, NotLive, Wait
  <2>3. CASE Stop(j) \/ Crash(j)
    BY <1>2, <1>3, <2>3 DEF Stop, Crash
  <2>4. CASE \E b \in batches[j] : \E x \in b.running :
               WorkFails(j, b, x) \/ \E d \in Pauses : WorkDefers(j, b, x, d)
    BY <1>3, <2>4 DEF WorkFails, WorkDefers, loopVars
  <2> QED BY <1>7, <2>1, <2>2, <2>3, <2>4 DEF Faulty
<1> QED BY <1>4, <1>5, <1>6, <1>7 DEF Next

(***************************************************************************)
(* RunOnce returns of its own accord only when it holds no segment at all,   *)
(* so none of an item that still waits for its first claim: counting the     *)
(* batches that drained since Next was asked is enough, whatever order the   *)
(* batches end in (Runner.RunOnce).                                          *)
(***************************************************************************)
THEOREM OnceIsDone == Spec => OnceLeavesNothing
<1> DEFINE A == \A i \in setup.once : pc[i] = "decide" /\ pc'[i] = "drain" =>
                  \A x \in Items : todo[x].fresh => ~held[i][KeyOf(x)].held
<1>1. ASSUME IInv, [Next]_vars PROVE [A]_vars
  <2> SUFFICES ASSUME Next, NEW i \in setup.once, pc[i] = "decide", pc'[i] = "drain",
                      NEW x \in Items
               PROVE  ~held[i][KeyOf(x)].held
    BY <1>1
  <2>1. i \in Owners
    BY <1>1, SetupFacts DEF IInv, Shape
  <2>2. batches[i] = {} /\ ~drained[i]
    BY <1>1, <2>1, OnceLeaves DEF NothingMore
  <2>3. HeldBy(i) = {}
    BY <1>1, <2>1, <2>2 DEF IInv, InstanceOK, OnceServes, Free
  <2>4. KeyOf(x) \in Segments
    BY AutomationAssumption DEF KeyOf
  <2> QED BY <2>3, <2>4 DEF HeldBy
<1>2. IInv /\ [Next]_vars => [A]_vars
  BY <1>1
<1>3. Spec => [][A]_vars
  <2> HIDE DEF A
  <2> QED BY <1>2, Inductive, PTL DEF Spec
<1> QED BY <1>3 DEF OnceLeavesNothing


=============================================================================
