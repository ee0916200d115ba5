---------------------- MODULE SQLAutomationStoreProofs ----------------------
(***************************************************************************)
(* Proofs about SQLAutomationStore, for any instances, segments, lease,      *)
(* pauses, waits and number of calls and faults, on either database.         *)
(***************************************************************************)
EXTENDS SQLAutomationStore, WellFoundedInduction, TLAPS

CallRecords ==
    [op : Ops, keys : SUBSET Segments, max : Int, pause : Nat, served : BOOLEAN,
     epoch : [Segments -> Int], age : 0 .. -Oldest, began : BOOLEAN,
     touched : SUBSET Segments, read : BOOLEAN, grant : SUBSET Segments]

RowRecords ==
    [owner : Owners \cup {None}, epoch : Int, leaseUntil : Int, pausedTill : Int,
     served : BOOLEAN]

Shape ==
    /\ rows \in [Segments -> RowRecords]
    /\ backend \in Backends
    /\ call \in [Owners -> CallRecords]
    /\ holds \in [Owners -> [Segments -> [epoch : Int, until : Int]]]

(***************************************************************************)
(* A row has one writer at a time: PostgreSQL locks the row, SQLite the      *)
(* database.  Acquire has locked the least of its keys.                      *)
(***************************************************************************)
OneWriter ==
    /\ \A o, p \in Owners : o # p => call[o].touched \cap call[p].touched = {}
    /\ backend = "sqlite" =>
          /\ \A o \in Owners : call[o].touched # {} => call[o].began
          /\ \A o, p \in Owners : call[o].began /\ call[p].began => o = p
    /\ \A o \in Owners : call[o].touched \subseteq call[o].keys

LocksInOrder ==
    backend = "postgres" =>
        \A o \in Owners : call[o].op = "acquire" =>
            \A j \in call[o].touched, k \in call[o].keys \ call[o].touched : j < k

(***************************************************************************)
(* What a call has read of a row still holds when it writes it: a segment to *)
(* be granted is free at the instant the call judges by, one to be renewed   *)
(* or released is its own.                                                   *)
(***************************************************************************)
FreeHasNoLease == \A k \in Segments : rows[k].owner = None => rows[k].leaseUntil = Oldest

ReadHolds ==
    \A o \in Owners : \A k \in Segments :
        /\ k \in call[o].grant =>
              call[o].op = "acquire" /\ k \in call[o].touched /\ rows[k].leaseUntil <= At(o)
        /\ call[o].op \in {"renew", "release"} /\ k \in call[o].touched => rows[k].owner = o
        /\ call[o].op = "none" => call[o].touched = {} /\ ~call[o].began

(***************************************************************************)
(* An instance believes no more than the store says: while its lease runs    *)
(* the row is its own, and runs as long.  It cannot have been told more than *)
(* its last call could give it.                                              *)
(***************************************************************************)
BeliefIsTrue ==
    \A o \in Owners : \A k \in Segments :
        /\ holds[o][k].until > 0 =>
              rows[k].owner = o /\ holds[o][k].until <= rows[k].leaseUntil
        /\ holds[o][k].until <= TTL - call[o].age
        /\ call[o].op = "release" /\ k \in call[o].keys => holds[o][k].until <= 0

IInv ==
    /\ Shape /\ OneWriter /\ LocksInOrder /\ FreeHasNoLease /\ ReadHolds /\ BeliefIsTrue

-----------------------------------------------------------------------------
\* Every nonempty set of keys has a least one, which is what Min names.
LEMMA MinFacts ==
    ASSUME NEW S, S \subseteq Nat, S # {}
    PROVE  Min(S) \in S /\ \A k \in S : Min(S) <= k
<1>1. PICK m \in S : \A k \in S : ~(<<k, m>> \in OpToRel(<, Nat))
  BY NatLessThanWellFounded, WFMin, Zenon
<1>2. \A k \in S : ~(k < m)
  BY <1>1, Zenon DEF OpToRel
<1>3. \A k \in S : m <= k
  BY <1>2
<1> QED BY <1>3 DEF Min

\* The instant a call judges by is not in the future, and not too long ago.
LEMMA AtFacts ==
    ASSUME Shape, NEW o \in Owners
    PROVE  At(o) \in Int /\ At(o) <= 0 /\ Oldest <= At(o) /\ TTL - call[o].age <= At(o) + TTL
<1>1. call[o].age \in 0 .. -Oldest
  BY DEF Shape, CallRecords
<1> QED BY <1>1, StoreAssumption DEF At

LEMMA InitIInv == Init => IInv
<1> SUFFICES ASSUME Init PROVE IInv
  OBVIOUS
<1> USE StoreAssumption, BackendAssumption DEF Init, StoreInit, NoCall, Nothing, NewRow
<1>1. Shape
  BY DEF Shape, CallRecords, RowRecords, Ops
<1>2. OneWriter /\ LocksInOrder /\ FreeHasNoLease
  BY DEF OneWriter, LocksInOrder, FreeHasNoLease
<1>3. ReadHolds /\ BeliefIsTrue
  BY DEF ReadHolds, BeliefIsTrue
<1> QED BY <1>1, <1>2, <1>3 DEF IInv

(***************************************************************************)
(* A call ends without having written anything.                              *)
(***************************************************************************)
LEMMA OverStep ==
    ASSUME IInv, NEW o \in Owners, Over(o), UNCHANGED <<rows, backend, holds>>
    PROVE  IInv'
<1> USE StoreAssumption DEF IInv
<1>1. /\ call' = [call EXCEPT ![o] = NoCall] /\ call \in [Owners -> CallRecords]
      /\ NoCall \in CallRecords
  BY DEF Over, Shape, CallRecords, NoCall, Ops
<1>2. call'[o] = NoCall /\ \A p \in Owners : p # o => call'[p] = call[p]
  BY <1>1
<1>3. Shape'
  BY <1>1 DEF Shape
<1>4. \A p \in Owners : p # o => At(p)' = At(p)
  BY <1>2 DEF At
<1>5. OneWriter' /\ LocksInOrder' /\ FreeHasNoLease'
  BY <1>2 DEF OneWriter, LocksInOrder, FreeHasNoLease, NoCall
<1>6. ReadHolds'
  BY <1>2, <1>4 DEF ReadHolds, NoCall
<1>7. BeliefIsTrue'
  <2>1. \A k \in Segments : holds[o][k].until <= TTL
    <3>1. call[o].age \in Nat /\ \A k \in Segments : holds[o][k].until \in Int
      BY DEF Shape, CallRecords
    <3>2. \A k \in Segments : holds[o][k].until <= TTL - call[o].age
      BY DEF BeliefIsTrue
    <3>3. TTL \in Nat
      OBVIOUS
    <3> HIDE StoreAssumption DEF IInv
    <3> QED BY <3>1, <3>2, <3>3
  <2>2. TTL - NoCall.age = TTL /\ NoCall.op # "release"
    BY DEF NoCall
  <2>3. \A k \in Segments : \A p \in Owners :
           /\ holds[p][k].until <= TTL - call'[p].age
           /\ call'[p].op = "release" /\ k \in call'[p].keys => holds[p][k].until <= 0
    <3> TAKE k \in Segments
    <3> TAKE p \in Owners
    <3>1. CASE p = o
      BY <1>2, <2>1, <2>2, <3>1
    <3>2. CASE p # o
      BY <1>2, <3>2 DEF BeliefIsTrue
    <3> QED BY <3>1, <3>2
  <2>4. \A p \in Owners : \A k \in Segments :
           holds[p][k].until > 0 => rows[k].owner = p /\ holds[p][k].until <= rows[k].leaseUntil
    BY DEF BeliefIsTrue
  <2>5. rows' = rows /\ holds' = holds
    OBVIOUS
  <2> QED BY <2>3, <2>4, <2>5 DEF BeliefIsTrue
<1> QED BY <1>3, <1>5, <1>6, <1>7

(***************************************************************************)
(* A call locks a row, or writes it, that nobody else has.                   *)
(***************************************************************************)
LEMMA TouchStep ==
    ASSUME IInv, NEW o \in Owners, NEW k \in Wanted(o), ~call[o].read, call[o].op # "none",
           call' = [call EXCEPT ![o].touched = @ \cup {k}],
           \/ backend = "postgres" /\ k \in Ordered(o) /\ ~LockedByOther(o, k)
           \/ backend = "sqlite" /\ call[o].began,
           UNCHANGED <<rows, backend, holds>>
    PROVE  IInv'
<1> USE StoreAssumption DEF IInv
<1>1. call \in [Owners -> CallRecords] /\ k \in call[o].keys \ call[o].touched /\ k \in Segments
  BY DEF Shape, CallRecords, Wanted
<1>2. /\ call'[o] = [call[o] EXCEPT !.touched = call[o].touched \cup {k}]
      /\ \A p \in Owners : p # o => call'[p] = call[p]
  BY <1>1
<1>3. /\ call'[o].op = call[o].op /\ call'[o].keys = call[o].keys /\ call'[o].age = call[o].age
      /\ call'[o].grant = call[o].grant /\ call'[o].began = call[o].began
      /\ call'[o].touched = call[o].touched \cup {k}
      /\ call'[o] \in CallRecords
  BY <1>1, <1>2 DEF CallRecords
<1>4. Shape'
  BY <1>1, <1>2, <1>3 DEF Shape
<1>5. \A p \in Owners : At(p)' = At(p)
  BY <1>2, <1>3 DEF At
<1>6. \A p \in Owners : p # o => k \notin call[p].touched
  BY DEF LockedByOther, OneWriter
<1>7. OneWriter'
  BY <1>1, <1>2, <1>3, <1>6 DEF OneWriter
<1>8. LocksInOrder'
  <2> SUFFICES ASSUME backend = "postgres", call[o].op = "acquire",
                      NEW j \in call'[o].touched, NEW l \in call[o].keys \ call'[o].touched
               PROVE  j < l
    BY <1>2, <1>3 DEF LocksInOrder
  <2>1. CASE j = k
    <3>1. Wanted(o) = call[o].keys \ call[o].touched
      BY DEF Wanted, Where
    <3>2. Wanted(o) \subseteq Nat /\ Wanted(o) # {} /\ k = Min(Wanted(o))
      BY <1>1, <3>1 DEF Ordered, CallRecords
    <3>3. l \in Wanted(o) /\ l # k
      BY <1>3, <3>1
    <3> QED BY <2>1, <3>2, <3>3, MinFacts
  <2>2. CASE j # k
    BY <2>2, <1>3 DEF LocksInOrder
  <2> QED BY <2>1, <2>2
<1>9. call[o].op \in {"renew", "release"} => rows[k].owner = o
  BY DEF Wanted, Where, RenewWhere, ReleaseWhere, Fences, Presents
<1>10. ReadHolds'
  BY <1>1, <1>2, <1>3, <1>5, <1>9 DEF ReadHolds
<1>11. BeliefIsTrue' /\ FreeHasNoLease'
  BY <1>2, <1>3 DEF BeliefIsTrue, FreeHasNoLease
<1> QED BY <1>4, <1>7, <1>8, <1>10, <1>11

(***************************************************************************)
(* An instance makes a call: it presents what it believes to hold, and has   *)
(* forgotten what it is about to release.                                    *)
(***************************************************************************)
LEMMA RequestFacts ==
    ASSUME Shape, NEW o \in Owners, NEW q \in Requests(o)
    PROVE  /\ q \in CallRecords /\ q.op # "none"
           /\ q.age = 0 /\ ~q.began /\ q.touched = {} /\ q.grant = {}
<1> USE StoreAssumption, BackendAssumption
<1>1. holds[o] \in [Segments -> [epoch : Int, until : Int]] /\ Believed(o) \subseteq Segments
  BY DEF Shape, Believed
<1>2. \A ks \in SUBSET Segments : LeasesOf(o, ks) \in [Segments -> Int]
  BY <1>1 DEF LeasesOf
<1>3. NoCall \in CallRecords
  BY DEF NoCall, CallRecords, Ops
<1>4. CASE \E ks \in SUBSET Segments : \E m \in 1 .. Cardinality(ks) : q = AcquireCall(ks, m)
  <2>1. PICK ks \in SUBSET Segments, m \in Int : q = AcquireCall(ks, m)
    BY <1>4
  <2> QED BY <1>3, <2>1 DEF AcquireCall, NoCall, CallRecords, Ops
<1>5. CASE q = RenewCall(o, Believed(o))
  BY <1>1, <1>2, <1>3, <1>5 DEF RenewCall, NoCall, CallRecords, Ops
<1>6. CASE \E ks \in SUBSET Believed(o), e \in Ends : q = ReleaseCall(o, ks, e[1], e[2])
  <2>1. PICK ks \in SUBSET Believed(o), e \in Ends : q = ReleaseCall(o, ks, e[1], e[2])
    BY <1>6
  <2>2. e \in (Pauses \cup {0}) \X BOOLEAN /\ Pauses \cup {0} \subseteq Nat
    OBVIOUS
  <2>3. PICK d \in Nat, b \in BOOLEAN : d = e[1] /\ b = e[2]
    BY <2>2, Zenon
  <2>4. ks \in SUBSET Segments
    BY <1>1
  <2>5. LeasesOf(o, ks) \in [Segments -> Int]
    BY <1>2, <2>4
  <2>6. q = ReleaseCall(o, ks, d, b)
    BY <2>1, <2>3
  <2> QED BY <1>3, <2>4, <2>5, <2>6 DEF ReleaseCall, NoCall, CallRecords, Ops
<1>7. CASE \E k \in Segments, d \in Pauses : q = DeferCall(k, d)
  <2>1. PICK k \in Segments, d \in Pauses : q = DeferCall(k, d)
    BY <1>7
  <2>2. d \in Nat /\ {k} \in SUBSET Segments
    OBVIOUS
  <2> QED BY <1>3, <2>1, <2>2 DEF DeferCall, NoCall, CallRecords, Ops
<1>8. \/ \E ks \in SUBSET Segments : q \in {AcquireCall(ks, m) : m \in 1 .. Cardinality(ks)}
      \/ q = RenewCall(o, Believed(o))
      \/ \E ks \in SUBSET Believed(o), e \in Ends : q = ReleaseCall(o, ks, e[1], e[2])
      \/ \E k \in Segments, d \in Pauses : q = DeferCall(k, d)
  BY DEF Requests
<1> QED BY <1>4, <1>5, <1>6, <1>7, <1>8

LEMMA CallStep == ASSUME IInv, NEW o \in Owners, Call(o) PROVE IInv'
<1> USE StoreAssumption DEF IInv
<1>1. PICK q \in Requests(o) :
         /\ call' = [call EXCEPT ![o] = q]
         /\ holds' = [holds EXCEPT ![o] = [k \in Segments |->
                         IF q.op = "release" /\ k \in q.keys THEN Nothing ELSE @[k]]]
         /\ call[o].op = "none" /\ UNCHANGED <<rows, backend>>
  BY DEF Call
<1>2. /\ q \in CallRecords /\ q.op # "none"
      /\ q.age = 0 /\ ~q.began /\ q.touched = {} /\ q.grant = {}
  BY RequestFacts
<1>3. call'[o] = q /\ \A p \in Owners : p # o => call'[p] = call[p]
  BY <1>1 DEF Shape
<1>4. /\ \A p \in Owners : p # o => holds'[p] = holds[p]
      /\ \A k \in Segments : holds'[o][k] =
            IF q.op = "release" /\ k \in q.keys THEN Nothing ELSE holds[o][k]
      /\ Nothing \in [epoch : Int, until : Int] /\ Nothing.until = Oldest
  BY <1>1 DEF Shape, Nothing
<1>5. Shape'
  <2>1. holds' \in [Owners -> [Segments -> [epoch : Int, until : Int]]]
    <3>1. [k \in Segments |-> IF q.op = "release" /\ k \in q.keys THEN Nothing ELSE holds[o][k]]
             \in [Segments -> [epoch : Int, until : Int]]
      BY <1>4 DEF Shape
    <3> QED BY <1>1, <3>1 DEF Shape
  <2> QED BY <1>1, <1>2, <2>1 DEF Shape
<1>6. OneWriter' /\ LocksInOrder' /\ FreeHasNoLease'
  BY <1>1, <1>2, <1>3 DEF OneWriter, LocksInOrder, FreeHasNoLease
<1>7. ReadHolds'
  <2>1. \A p \in Owners : p # o => At(p)' = At(p)
    BY <1>1, <1>3 DEF At
  <2> QED BY <1>1, <1>2, <1>3, <2>1 DEF ReadHolds
<1>8. BeliefIsTrue'
  <2>1. ASSUME NEW k \in Segments
        PROVE  /\ holds'[o][k].until > 0 =>
                     rows[k].owner = o /\ holds'[o][k].until <= rows[k].leaseUntil
               /\ holds'[o][k].until <= TTL - q.age
               /\ q.op = "release" /\ k \in q.keys => holds'[o][k].until <= 0
    <3>1. /\ holds[o][k].until \in Int /\ call[o].age \in Nat
          /\ holds[o][k].until <= TTL - call[o].age
      BY DEF Shape, CallRecords, BeliefIsTrue
    <3>2. holds[o][k].until <= TTL - q.age
      BY <1>2, <3>1
    <3>3. CASE q.op = "release" /\ k \in q.keys
      <4>0. holds'[o][k] = Nothing
        BY <1>4, <3>3
      <4>1. holds'[o][k].until = Oldest /\ Oldest <= 0 /\ Oldest <= TTL
        BY <1>4, <4>0
      <4> QED BY <1>2, <4>1
    <3>4. CASE ~(q.op = "release" /\ k \in q.keys)
      <4>1. holds'[o][k] = holds[o][k]
        BY <1>4, <3>4
      <4> QED BY <3>2, <3>4, <4>1 DEF BeliefIsTrue
    <3> QED BY <3>3, <3>4
  <2> QED BY <1>1, <1>3, <1>4, <2>1 DEF BeliefIsTrue
<1> QED BY <1>5, <1>6, <1>7, <1>8

(***************************************************************************)
(* BEGIN IMMEDIATE: the only transaction, and its wait is over.              *)
(***************************************************************************)
LEMMA BeginStep == ASSUME IInv, NEW o \in Owners, Begin(o) PROVE IInv'
<1> USE StoreAssumption DEF IInv
<1>1. /\ backend = "sqlite" /\ call[o].op # "none" /\ \A p \in Owners : ~call[p].began
      /\ call \in [Owners -> CallRecords] /\ UNCHANGED <<rows, backend, holds>>
      /\ call' = [call EXCEPT ![o].began = TRUE, ![o].age = 0]
  BY DEF Begin, Shape
<1>2. /\ call'[o] = [call[o] EXCEPT !.began = TRUE, !.age = 0]
      /\ \A p \in Owners : p # o => call'[p] = call[p]
  BY <1>1
<1>3. /\ call'[o].op = call[o].op /\ call'[o].keys = call[o].keys /\ call'[o].age = 0
      /\ call'[o].grant = call[o].grant /\ call'[o].touched = call[o].touched
      /\ call'[o] \in CallRecords
  <2>1. call[o] \in CallRecords /\ TRUE \in BOOLEAN /\ 0 \in 0 .. -Oldest
    BY <1>1
  <2>2. [call[o] EXCEPT !.began = TRUE, !.age = 0] \in CallRecords
    BY <2>1 DEF CallRecords
  <2> QED BY <1>2, <2>1, <2>2 DEF CallRecords
<1>4. Shape'
  BY <1>1, <1>2, <1>3 DEF Shape
<1>5. \A p \in Owners : At(p)' = At(p)
  BY <1>1 DEF At
<1>6. OneWriter' /\ LocksInOrder' /\ FreeHasNoLease'
  BY <1>1, <1>2, <1>3 DEF OneWriter, LocksInOrder, FreeHasNoLease
<1>7. ReadHolds'
  BY <1>1, <1>2, <1>3, <1>5 DEF ReadHolds
<1>8. BeliefIsTrue'
  <2>1. \A k \in Segments : holds[o][k].until <= TTL - 0
    <3>1. call[o].age \in Nat /\ \A k \in Segments : holds[o][k].until \in Int
      BY DEF Shape, CallRecords
    <3>2. \A k \in Segments : holds[o][k].until <= TTL - call[o].age
      BY DEF BeliefIsTrue
    <3> QED BY <3>1, <3>2
  <2> QED BY <1>1, <1>2, <1>3, <2>1 DEF BeliefIsTrue
<1> QED BY <1>4, <1>6, <1>7, <1>8

(***************************************************************************)
(* Acquire reads its candidates: what it will grant is free, at the instant  *)
(* it judges by, and locked.                                                 *)
(***************************************************************************)
LEMMA ReadCandidatesStep == ASSUME IInv, NEW o \in Owners, ReadCandidates(o) PROVE IInv'
<1> USE StoreAssumption DEF IInv
<1> DEFINE c == call[o]
           G == Granted(rows, Seen(line, c.keys), c.keys, c.max, At(o))
<1>1. /\ c.op = "acquire" /\ c.touched = c.keys /\ call \in [Owners -> CallRecords]
      /\ call' = [call EXCEPT ![o].read = TRUE, ![o].grant = G]
      /\ UNCHANGED <<rows, backend, holds>>
  BY DEF ReadCandidates, Shape
<1>2. \A k \in G : k \in c.touched /\ k \in Segments /\ rows[k].leaseUntil <= At(o)
  <2>1. \A k \in G : k \in Eligible(rows, c.keys, At(o))
    BY DEF Granted
  <2>2. \A k \in c.keys : k \in Segments /\ rows[k].leaseUntil \in Int
    BY <1>1 DEF Shape, CallRecords, RowRecords
  <2>3. At(o) \in Int /\ Oldest <= At(o)
    BY AtFacts
  <2> QED BY <1>1, <2>1, <2>2, <2>3 DEF Eligible, heldAt, FreeHasNoLease
<1> HIDE DEF G
<1>3. /\ call'[o] = [c EXCEPT !.read = TRUE, !.grant = G]
      /\ \A p \in Owners : p # o => call'[p] = call[p]
  BY <1>1
<1>4. /\ call'[o].op = c.op /\ call'[o].keys = c.keys /\ call'[o].age = c.age
      /\ call'[o].grant = G /\ call'[o].touched = c.touched /\ call'[o].began = c.began
      /\ call'[o] \in CallRecords
  <2>1. c \in CallRecords /\ TRUE \in BOOLEAN /\ G \in SUBSET Segments
    BY <1>1, <1>2
  <2>2. [c EXCEPT !.read = TRUE, !.grant = G] \in CallRecords
    BY <2>1 DEF CallRecords
  <2> QED BY <1>3, <2>1, <2>2 DEF CallRecords
<1>5. Shape'
  BY <1>1, <1>3, <1>4 DEF Shape
<1>6. \A p \in Owners : At(p)' = At(p)
  BY <1>1, <1>3, <1>4 DEF At
<1>7. OneWriter' /\ LocksInOrder' /\ FreeHasNoLease'
  BY <1>1, <1>3, <1>4 DEF OneWriter, LocksInOrder, FreeHasNoLease
<1>8. ReadHolds'
  BY <1>1, <1>2, <1>3, <1>4, <1>6 DEF ReadHolds
<1>9. BeliefIsTrue'
  BY <1>1, <1>3, <1>4 DEF BeliefIsTrue
<1> QED BY <1>5, <1>7, <1>8, <1>9

(***************************************************************************)
(* A unit of time passes: every lease is nearer its end, the rows' and those *)
(* the instances believe in by the same, and a PostgreSQL call's now() with  *)
(* them. A SQLite call that has read anything lets none pass.                *)
(***************************************************************************)
LEMMA TickStep == ASSUME IInv, Tick PROVE IInv'
<1> USE StoreAssumption, BackendAssumption DEF IInv
<1>1. /\ \A o \in Owners : call[o].op # "none" => call[o].age < -Oldest /\ ~call[o].began
      /\ rows' = Aged(rows) /\ UNCHANGED backend
      /\ call' = [o \in Owners |-> IF call[o].op = "none" THEN call[o]
                                   ELSE [call[o] EXCEPT !.age = @ + 1]]
      /\ holds' = [o \in Owners |-> [k \in Segments |->
                     IF Nearer(holds[o][k].until) = Oldest THEN Nothing
                     ELSE [holds[o][k] EXCEPT !.until = Nearer(@)]]]
  BY DEF Tick, Pass
<1>2. ASSUME NEW k \in Segments
      PROVE  /\ rows'[k] \in RowRecords /\ rows'[k].owner = rows[k].owner
             /\ rows'[k].leaseUntil = Nearer(rows[k].leaseUntil)
  <2>1. rows[k] \in RowRecords
    BY DEF Shape
  <2>2. rows[k].leaseUntil \in Int /\ rows[k].pausedTill \in Int
    BY <2>1 DEF RowRecords
  <2>3. Nearer(rows[k].leaseUntil) \in Int /\ Nearer(rows[k].pausedTill) \in Int
    BY <2>2 DEF Nearer
  <2>4. rows'[k] = [rows[k] EXCEPT !.leaseUntil = Nearer(rows[k].leaseUntil),
                                   !.pausedTill = Nearer(rows[k].pausedTill)]
    BY <1>1 DEF Aged
  <2> QED BY <2>1, <2>3, <2>4 DEF RowRecords
<1>3. ASSUME NEW o \in Owners
      PROVE  /\ call'[o] \in CallRecords
             /\ call'[o].op = call[o].op /\ call'[o].keys = call[o].keys
             /\ call'[o].touched = call[o].touched /\ call'[o].grant = call[o].grant
             /\ call'[o].began = call[o].began
             /\ call'[o].age = IF call[o].op = "none" THEN call[o].age ELSE call[o].age + 1
  <2>1. call[o] \in CallRecords /\ call[o].age \in 0 .. -Oldest
    BY DEF Shape, CallRecords
  <2>2. CASE call[o].op = "none"
    BY <1>1, <2>1, <2>2
  <2>3. CASE call[o].op # "none"
    <3>1. call[o].age + 1 \in 0 .. -Oldest
      BY <1>1, <2>1, <2>3
    <3>2. call'[o] = [call[o] EXCEPT !.age = call[o].age + 1]
      BY <1>1, <2>3
    <3> QED BY <2>1, <2>3, <3>1, <3>2 DEF CallRecords
  <2> QED BY <2>2, <2>3
<1>4. ASSUME NEW o \in Owners, NEW k \in Segments
      PROVE  /\ holds'[o][k] \in [epoch : Int, until : Int]
             /\ holds'[o][k].until = Nearer(holds[o][k].until)
  <2>1. holds[o][k] \in [epoch : Int, until : Int]
    BY DEF Shape
  <2>2. Nearer(holds[o][k].until) \in Int
    BY <2>1 DEF Nearer
  <2>3. holds'[o][k] = IF Nearer(holds[o][k].until) = Oldest THEN Nothing
                       ELSE [holds[o][k] EXCEPT !.until = Nearer(holds[o][k].until)]
    BY <1>1
  <2>4. Nothing \in [epoch : Int, until : Int] /\ Nothing.until = Oldest
    BY DEF Nothing
  <2> QED BY <2>1, <2>2, <2>3, <2>4
<1>5. Shape'
  <2>1. rows' \in [Segments -> RowRecords]
    BY <1>1, <1>2 DEF Aged
  <2>2. call' \in [Owners -> CallRecords]
    BY <1>1, <1>3
  <2>3. holds' \in [Owners -> [Segments -> [epoch : Int, until : Int]]]
    <3>1. ASSUME NEW o \in Owners PROVE holds'[o] \in [Segments -> [epoch : Int, until : Int]]
      <4>1. holds'[o] = [k \in Segments |-> holds'[o][k]]
        BY <1>1
      <4> QED BY <1>4, <4>1
    <3> QED BY <1>1, <3>1
  <2> QED BY <1>1, <2>1, <2>2, <2>3 DEF Shape
<1>6. OneWriter' /\ LocksInOrder'
  BY <1>1, <1>3 DEF OneWriter, LocksInOrder
<1>7. FreeHasNoLease'
  BY <1>2 DEF FreeHasNoLease, Nearer
<1>8. ReadHolds'
  <2>1. ASSUME NEW o \in Owners, NEW k \in call[o].grant
        PROVE  rows'[k].leaseUntil <= At(o)'
    <3>1. /\ call[o].op = "acquire" /\ k \in call[o].touched /\ k \in Segments
          /\ rows[k].leaseUntil <= At(o) /\ rows[k].leaseUntil \in Int
      BY DEF ReadHolds, Shape, CallRecords, RowRecords
    <3>2. backend = "postgres"
      BY <1>1, <3>1 DEF OneWriter, Shape
    <3>3. call[o].age \in 0 .. -Oldest /\ call[o].age < -Oldest
      BY <1>1, <3>1 DEF Shape, CallRecords
    <3>4. At(o) = -call[o].age /\ At(o)' = -(call[o].age + 1)
      BY <1>1, <1>3, <3>1, <3>2 DEF At
    <3> QED BY <1>2, <3>1, <3>3, <3>4 DEF Nearer
  <2> QED BY <1>2, <1>3, <2>1 DEF ReadHolds
<1>9. BeliefIsTrue'
  <2> SUFFICES ASSUME NEW o \in Owners, NEW k \in Segments
               PROVE  /\ holds'[o][k].until > 0 =>
                            rows'[k].owner = o /\ holds'[o][k].until <= rows'[k].leaseUntil
                      /\ holds'[o][k].until <= TTL - call'[o].age
                      /\ call[o].op = "release" /\ k \in call[o].keys
                            => holds'[o][k].until <= 0
    BY <1>3 DEF BeliefIsTrue
  <2> DEFINE u == holds[o][k].until
             l == rows[k].leaseUntil
  <2>1. u \in Int /\ l \in Int /\ call[o].age \in 0 .. -Oldest
    BY DEF Shape, CallRecords, RowRecords
  <2>2. /\ u > 0 => rows[k].owner = o /\ u <= l
        /\ u <= TTL - call[o].age
        /\ call[o].op = "release" /\ k \in call[o].keys => u <= 0
    BY DEF BeliefIsTrue
  <2>3. holds'[o][k].until = Nearer(u) /\ rows'[k].leaseUntil = Nearer(l)
    BY <1>2, <1>4
  <2>4. Nearer(u) > 0 => rows[k].owner = o /\ Nearer(u) <= Nearer(l)
    BY <2>1, <2>2 DEF Nearer
  <2>5. Nearer(u) <= TTL - call'[o].age
    <3>1. CASE call[o].op = "none"
      BY <1>3, <2>1, <2>2, <3>1 DEF Nearer
    <3>2. CASE call[o].op # "none"
      <4>1. call'[o].age = call[o].age + 1 /\ call[o].age < -Oldest
        BY <1>1, <1>3, <3>2
      <4> QED BY <2>1, <2>2, <4>1 DEF Nearer
    <3> QED BY <3>1, <3>2
  <2>6. u <= 0 => Nearer(u) <= 0
    BY <2>1 DEF Nearer
  <2> QED BY <1>2, <2>2, <2>3, <2>4, <2>5, <2>6
<1> QED BY <1>5, <1>6, <1>7, <1>8, <1>9

(***************************************************************************)
(* A call commits.  It may write the owner and the lease only of rows that   *)
(* it has locked and that no other instance holds, and the caller learns no  *)
(* more than it wrote.                                                       *)
(***************************************************************************)
LEMMA WriteStep ==
    ASSUME IInv, NEW o \in Owners, Over(o), UNCHANGED backend,
           rows' \in [Segments -> RowRecords],
           holds' \in [Owners -> [Segments -> [epoch : Int, until : Int]]],
           \A p \in Owners : p # o => holds'[p] = holds[p],
           \A k \in Segments :
              \/ rows'[k].owner = rows[k].owner /\ rows'[k].leaseUntil = rows[k].leaseUntil
              \/ /\ k \in call[o].touched
                 /\ rows[k].owner = o \/ rows[k].leaseUntil <= 0,
           \A k \in Segments : rows'[k].owner = None => rows'[k].leaseUntil = Oldest,
           \A k \in Segments :
              /\ holds'[o][k].until > 0 =>
                    rows'[k].owner = o /\ holds'[o][k].until <= rows'[k].leaseUntil
              /\ holds'[o][k].until <= TTL
    PROVE  IInv'
<1> USE StoreAssumption DEF IInv
<1>1. /\ call' = [call EXCEPT ![o] = NoCall] /\ call \in [Owners -> CallRecords]
      /\ NoCall \in CallRecords
  BY DEF Over, Shape, CallRecords, NoCall, Ops
<1>2. call'[o] = NoCall /\ \A p \in Owners : p # o => call'[p] = call[p]
  BY <1>1
<1>3. Shape'
  BY <1>1 DEF Shape
<1>4. \A p \in Owners : p # o => At(p)' = At(p)
  BY <1>2 DEF At
<1>5. OneWriter' /\ LocksInOrder' /\ FreeHasNoLease'
  BY <1>2 DEF OneWriter, LocksInOrder, FreeHasNoLease, NoCall
<1>6. ReadHolds'
  <2>1. ASSUME NEW p \in Owners, p # o, NEW k \in call[p].touched
        PROVE  rows'[k].owner = rows[k].owner /\ rows'[k].leaseUntil = rows[k].leaseUntil
    <3>1. k \in Segments /\ k \notin call[o].touched
      BY <1>1, <2>1 DEF OneWriter, CallRecords
    <3> QED BY <3>1
  <2> QED BY <1>2, <1>4, <2>1 DEF ReadHolds, NoCall
<1>7. BeliefIsTrue'
  <2>1. NoCall.age = 0 /\ NoCall.op # "release"
    BY DEF NoCall
  <2>2. ASSUME NEW p \in Owners, p # o, NEW k \in Segments, holds[p][k].until > 0
        PROVE  rows'[k].owner = p /\ holds[p][k].until <= rows'[k].leaseUntil
    <3>1. rows[k].owner = p /\ holds[p][k].until <= rows[k].leaseUntil
      BY <2>2 DEF BeliefIsTrue
    <3>2. rows[k].leaseUntil \in Int /\ holds[p][k].until \in Int
      BY DEF Shape, RowRecords
    <3>3. rows[k].owner # o /\ ~(rows[k].leaseUntil <= 0)
      BY <2>2, <3>1, <3>2
    <3> QED BY <3>1, <3>3
  <2>3. \A p \in Owners : p # o => \A k \in Segments :
           /\ holds[p][k].until <= TTL - call[p].age
           /\ call[p].op = "release" /\ k \in call[p].keys => holds[p][k].until <= 0
    BY DEF BeliefIsTrue
  <2>4. \A k \in Segments : holds'[o][k].until <= TTL - NoCall.age
    BY <2>1
  <2>5. ASSUME NEW p \in Owners, NEW k \in Segments
        PROVE  /\ holds'[p][k].until > 0 =>
                     rows'[k].owner = p /\ holds'[p][k].until <= rows'[k].leaseUntil
               /\ holds'[p][k].until <= TTL - call'[p].age
               /\ call'[p].op = "release" /\ k \in call'[p].keys => holds'[p][k].until <= 0
    <3>1. CASE p = o
      BY <1>2, <2>1, <2>4, <3>1
    <3>2. CASE p # o
      BY <1>2, <2>2, <2>3, <3>2
    <3> QED BY <3>1, <3>2
  <2> QED BY <2>5 DEF BeliefIsTrue
<1> QED BY <1>3, <1>5, <1>6, <1>7

\* What a call writes: only rows it has, or only their pause.
LEMMA AcquireCommits ==
    ASSUME IInv, NEW o \in Owners, call[o].op = "acquire", AcquireWrites(o)
    PROVE  /\ rows' \in [Segments -> RowRecords]
           /\ \A k \in call[o].grant :
                 /\ k \in call[o].touched /\ rows[k].leaseUntil <= 0
                 /\ rows'[k].owner = o /\ rows'[k].leaseUntil = At(o) + TTL
           /\ \A k \in Segments \ call[o].grant : rows'[k] = rows[k]
<1> USE StoreAssumption DEF IInv
<1>1. rows' = [k \in Segments |-> IF k \in call[o].grant THEN GrantOne(rows[k], o, At(o))
                                  ELSE rows[k]]
  BY DEF AcquireWrites, GrantTo
<1>2. At(o) \in Int /\ At(o) + TTL \in Int /\ At(o) <= 0
  BY AtFacts
<1>3. ASSUME NEW k \in Segments
      PROVE  /\ GrantOne(rows[k], o, At(o)) \in RowRecords
             /\ GrantOne(rows[k], o, At(o)).owner = o
             /\ GrantOne(rows[k], o, At(o)).leaseUntil = At(o) + TTL
  <2>1. rows[k] \in RowRecords /\ (rows[k].epoch + 1) % Epochs \in Int
    BY DEF Shape, RowRecords
  <2> QED BY <1>2, <2>1 DEF GrantOne, RowRecords
<1>4. rows' \in [Segments -> RowRecords]
  BY <1>1, <1>3 DEF Shape
<1>5. ASSUME NEW k \in call[o].grant PROVE k \in call[o].touched /\ rows[k].leaseUntil <= 0
  <2>1. k \in Segments
    BY DEF Shape, CallRecords
  <2>2. rows[k].leaseUntil \in Int
    BY <2>1 DEF Shape, RowRecords
  <2> QED BY <1>2, <2>1, <2>2 DEF ReadHolds
<1>6. call[o].grant \subseteq Segments
  BY DEF Shape, CallRecords
<1> QED BY <1>1, <1>3, <1>4, <1>5, <1>6

LEMMA RenewCommits ==
    ASSUME IInv, NEW o \in Owners, call[o].op = "renew", RenewWrites(o)
    PROVE  /\ rows' \in [Segments -> RowRecords]
           /\ \A k \in call[o].touched :
                 /\ rows[k].owner = o /\ rows'[k].owner = o
                 /\ rows'[k].leaseUntil = At(o) + TTL
           /\ \A k \in Segments \ call[o].touched : rows'[k] = rows[k]
<1> USE StoreAssumption DEF IInv
<1>1. rows' = [k \in Segments |-> IF k \in call[o].touched
                 THEN [rows[k] EXCEPT !.leaseUntil = At(o) + TTL] ELSE rows[k]]
  BY DEF RenewWrites
<1>2. At(o) + TTL \in Int
  BY AtFacts
<1>3. ASSUME NEW k \in Segments
      PROVE  /\ [rows[k] EXCEPT !.leaseUntil = At(o) + TTL] \in RowRecords
             /\ [rows[k] EXCEPT !.leaseUntil = At(o) + TTL].owner = rows[k].owner
             /\ [rows[k] EXCEPT !.leaseUntil = At(o) + TTL].leaseUntil = At(o) + TTL
  <2>1. rows[k] \in RowRecords
    BY DEF Shape
  <2> QED BY <1>2, <2>1 DEF RowRecords
<1>4. \A k \in call[o].touched : k \in Segments /\ rows[k].owner = o
  BY DEF Shape, CallRecords, ReadHolds
<1> QED BY <1>1, <1>3, <1>4 DEF Shape

LEMMA ReleaseCommits ==
    ASSUME IInv, NEW o \in Owners, call[o].op = "release", ReleaseWrites(o)
    PROVE  /\ rows' \in [Segments -> RowRecords]
           /\ \A k \in call[o].touched :
                 /\ rows[k].owner = o /\ rows'[k].owner = None /\ rows'[k].leaseUntil = Oldest
                 /\ holds[o][k].until <= 0
           /\ \A k \in Segments \ call[o].touched : rows'[k] = rows[k]
<1> USE StoreAssumption DEF IInv
<1> DEFINE R(k) == ReleaseOne(rows[k], call[o].pause, call[o].served, At(o))
<1>1. rows' = [k \in Segments |-> IF k \in call[o].touched THEN R(k) ELSE rows[k]]
  BY DEF ReleaseWrites
<1>2. ASSUME NEW k \in Segments
      PROVE  R(k) \in RowRecords /\ R(k).owner = None /\ R(k).leaseUntil = Oldest
  <2>1. rows[k] \in RowRecords /\ call[o].pause \in Nat /\ call[o].served \in BOOLEAN
    BY DEF Shape, CallRecords
  <2>2. rows[k].pausedTill \in Int /\ rows[k].served \in BOOLEAN
    BY <2>1 DEF RowRecords
  <2>3. At(o) \in Int
    BY AtFacts
  <2> DEFINE t == IF call[o].pause > 0 THEN Longer(rows[k], call[o].pause, At(o))
                  ELSE rows[k].pausedTill
             b == rows[k].served \/ call[o].served
  <2>4. t \in Int /\ b \in BOOLEAN
    BY <2>1, <2>2, <2>3 DEF Longer
  <2>5. R(k) = [rows[k] EXCEPT !.owner = None, !.leaseUntil = Oldest,
                               !.pausedTill = t, !.served = b]
    BY Zenon DEF ReleaseOne
  <2> HIDE DEF t, b
  <2> QED BY <2>1, <2>4, <2>5 DEF RowRecords
<1>3. \A k \in call[o].touched : k \in Segments /\ k \in call[o].keys /\ rows[k].owner = o
  BY DEF Shape, CallRecords, ReadHolds, OneWriter
<1>4. \A k \in call[o].touched : holds[o][k].until <= 0
  BY <1>3 DEF BeliefIsTrue
<1> HIDE DEF R
<1> QED BY <1>1, <1>2, <1>3, <1>4 DEF Shape

LEMMA DeferCommits ==
    ASSUME IInv, NEW o \in Owners, call[o].op = "defer", DeferWrites(o)
    PROVE  /\ rows' \in [Segments -> RowRecords]
           /\ \A k \in Segments :
                 rows'[k].owner = rows[k].owner /\ rows'[k].leaseUntil = rows[k].leaseUntil
<1> USE StoreAssumption DEF IInv
<1>1. PICK d \in call[o].keys :
         rows' = [rows EXCEPT ![d].pausedTill = Longer(rows[d], call[o].pause, At(o))]
  BY DEF DeferWrites, DeferTo
<1>2. rows \in [Segments -> RowRecords] /\ d \in Segments /\ call[o].pause \in Nat
  BY DEF Shape, CallRecords
<1>3. rows[d] \in RowRecords /\ rows[d].pausedTill \in Int
  BY <1>2 DEF RowRecords
<1>4. Longer(rows[d], call[o].pause, At(o)) \in Int
  BY <1>2, <1>3, AtFacts DEF Longer
<1>5. rows' = [rows EXCEPT ![d] =
                 [rows[d] EXCEPT !.pausedTill = Longer(rows[d], call[o].pause, At(o))]]
  BY <1>1, <1>2
<1> HIDE DEF Longer
<1>6. [rows[d] EXCEPT !.pausedTill = Longer(rows[d], call[o].pause, At(o))] \in RowRecords
  BY <1>3, <1>4 DEF RowRecords
<1> QED BY <1>2, <1>3, <1>5, <1>6

LEMMA CommitStep == ASSUME IInv, NEW o \in Owners, Commit(o) PROVE IInv'
<1> USE StoreAssumption DEF IInv
<1>1. /\ Writes(o) /\ Over(o) /\ call[o].op # "none" /\ UNCHANGED backend
      /\ holds' = [holds EXCEPT ![o] = Told(o)] \/ UNCHANGED holds
  BY DEF Commit, Complete
<1>2. call[o].op \in {"acquire", "renew", "release", "defer"}
  BY <1>1 DEF Shape, CallRecords, Ops
<1> DEFINE Believes == [epoch : Int, until : Int]
<1>3. holds \in [Owners -> [Segments -> Believes]] /\ Nothing \in Believes
  BY DEF Shape, Nothing
<1>4. At(o) \in Int /\ At(o) <= 0 /\ TTL - call[o].age <= At(o) + TTL
  BY AtFacts
<1>5. \A k \in Segments : holds[o][k].until <= TTL /\ holds[o][k].until <= At(o) + TTL
  <2>1. \A k \in Segments : holds[o][k].until \in Int /\ holds[o][k].until <= TTL - call[o].age
    BY <1>3 DEF BeliefIsTrue
  <2>2. call[o].age \in Nat
    BY DEF Shape, CallRecords
  <2> QED BY <1>4, <2>1, <2>2
\* What is left to show for a call: what the rows and the beliefs of o are.
<1>6. ASSUME rows' \in [Segments -> RowRecords],
             holds' = [holds EXCEPT ![o] = Told(o)] => Told(o) \in [Segments -> Believes],
             \A k \in Segments :
                \/ rows'[k].owner = rows[k].owner /\ rows'[k].leaseUntil = rows[k].leaseUntil
                \/ /\ k \in call[o].touched
                   /\ rows[k].owner = o \/ rows[k].leaseUntil <= 0,
             \A k \in Segments : rows'[k].owner = None => rows'[k].leaseUntil = Oldest,
             \A k \in Segments : \A h \in {holds[o][k], Told(o)[k]} :
                /\ h.until > 0 => rows'[k].owner = o /\ h.until <= rows'[k].leaseUntil
                /\ h.until <= TTL
      PROVE  IInv'
  <2>1. \/ holds'[o] = holds[o] /\ holds' = holds
        \/ holds'[o] = Told(o) /\ holds' = [holds EXCEPT ![o] = Told(o)]
    BY <1>1, <1>3
  <2>2. /\ holds' \in [Owners -> [Segments -> Believes]]
        /\ \A p \in Owners : p # o => holds'[p] = holds[p]
    BY <1>3, <1>6, <2>1
  <2>3. \A k \in Segments :
           /\ holds'[o][k].until > 0 =>
                 rows'[k].owner = o /\ holds'[o][k].until <= rows'[k].leaseUntil
           /\ holds'[o][k].until <= TTL
    BY <1>6, <2>1
  <2> QED BY <1>1, <1>6, <2>2, <2>3, WriteStep
<1>7. \A k \in Segments :
         /\ rows[k].owner = None => rows[k].leaseUntil = Oldest
         /\ holds[o][k].until > 0 =>
               rows[k].owner = o /\ holds[o][k].until <= rows[k].leaseUntil
         /\ rows[k].leaseUntil \in Int /\ holds[o][k].until \in Int
  <2> TAKE k \in Segments
  <2>1. rows[k] \in RowRecords /\ holds[o][k] \in [epoch : Int, until : Int]
    BY DEF Shape
  <2>2. rows[k].leaseUntil \in Int /\ holds[o][k].until \in Int
    BY <2>1 DEF RowRecords
  <2>3. rows[k].owner = None => rows[k].leaseUntil = Oldest
    BY DEF FreeHasNoLease
  <2>4. holds[o][k].until > 0 => rows[k].owner = o /\ holds[o][k].until <= rows[k].leaseUntil
    BY DEF BeliefIsTrue
  <2> QED BY <2>2, <2>3, <2>4
<1>8. o # None
  OBVIOUS
<1>9. CASE call[o].op = "acquire"
  <2>1. AcquireWrites(o)
    BY <1>1, <1>9 DEF Writes
  <2>2. /\ rows' \in [Segments -> RowRecords]
        /\ \A k \in call[o].grant :
              /\ k \in call[o].touched /\ rows[k].leaseUntil <= 0
              /\ rows'[k].owner = o /\ rows'[k].leaseUntil = At(o) + TTL
        /\ \A k \in Segments \ call[o].grant : rows'[k] = rows[k]
    BY <1>9, <2>1, AcquireCommits
  <2>3. ASSUME NEW k \in Segments
        PROVE  Told(o)[k] = IF k \in call[o].grant
                  THEN [epoch |-> rows'[k].epoch, until |-> rows'[k].leaseUntil]
                  ELSE holds[o][k]
    BY <1>9 DEF Told
  <2>4. Told(o) \in [Segments -> Believes]
    <3>1. Told(o) = [k \in Segments |-> Told(o)[k]]
      BY DEF Told
    <3>2. \A k \in Segments : Told(o)[k] \in Believes
      <4> SUFFICES ASSUME NEW k \in Segments PROVE Told(o)[k] \in Believes
        OBVIOUS
      <4>1. rows'[k].epoch \in Int /\ rows'[k].leaseUntil \in Int
        BY <2>2 DEF RowRecords
      <4>2. CASE k \in call[o].grant
        <5>1. Told(o)[k] = [epoch |-> rows'[k].epoch, until |-> rows'[k].leaseUntil]
          BY <2>3, <4>2
        <5> QED BY <4>1, <5>1
      <4>3. CASE k \notin call[o].grant
        <5>1. Told(o)[k] = holds[o][k]
          BY <2>3, <4>3
        <5> QED BY <1>3, <5>1
      <4> QED BY <4>2, <4>3
    <3> QED BY <3>1, <3>2
  <2>5. \A k \in Segments : \A h \in {holds[o][k], Told(o)[k]} :
           /\ h.until > 0 => rows'[k].owner = o /\ h.until <= rows'[k].leaseUntil
           /\ h.until <= TTL
    <3> SUFFICES ASSUME NEW k \in Segments, NEW h \in {holds[o][k], Told(o)[k]}
                 PROVE  /\ h.until > 0 => rows'[k].owner = o /\ h.until <= rows'[k].leaseUntil
                        /\ h.until <= TTL
      OBVIOUS
    <3>1. CASE k \notin call[o].grant
      BY <1>5, <1>7, <2>2, <2>3, <3>1
    <3>2. CASE k \in call[o].grant
      <4>1. rows'[k].leaseUntil = At(o) + TTL /\ rows'[k].owner = o /\ rows[k].leaseUntil <= 0
        BY <2>2, <3>2
      <4>2. h = holds[o][k] => h.until <= 0
        BY <1>7, <4>1
      <4>3. h # holds[o][k] => h.until = At(o) + TTL
        <5>1. Told(o)[k] = [epoch |-> rows'[k].epoch, until |-> rows'[k].leaseUntil]
          BY <2>3, <3>2
        <5>2. Told(o)[k].until = At(o) + TTL
          BY <4>1, <5>1
        <5> QED BY <5>2
      <4>4. At(o) + TTL <= TTL
        BY <1>4
      <4>5. CASE h = holds[o][k]
        BY <1>5, <1>7, <4>2, <4>5
      <4>6. CASE h # holds[o][k]
        <5>1. h.until = rows'[k].leaseUntil /\ h.until \in Int /\ h.until <= TTL
          BY <1>4, <4>1, <4>3, <4>4, <4>6
        <5> QED BY <4>1, <5>1
      <4> QED BY <4>5, <4>6
    <3> QED BY <3>1, <3>2
  <2> QED BY <1>6, <1>7, <1>8, <2>2, <2>4, <2>5
<1>10. CASE call[o].op = "renew"
  <2>1. RenewWrites(o)
    BY <1>1, <1>10 DEF Writes
  <2>2. /\ rows' \in [Segments -> RowRecords]
        /\ \A k \in call[o].touched :
              /\ rows[k].owner = o /\ rows'[k].owner = o
              /\ rows'[k].leaseUntil = At(o) + TTL
        /\ \A k \in Segments \ call[o].touched : rows'[k] = rows[k]
    BY <1>10, <2>1, RenewCommits
  <2>3. ASSUME NEW k \in Segments
        PROVE  Told(o)[k] = IF k \in call[o].touched
                              THEN [holds[o][k] EXCEPT !.until = rows'[k].leaseUntil]
                            ELSE IF k \in call[o].keys THEN Nothing ELSE holds[o][k]
    BY <1>10 DEF Told
  <2>4. Told(o) \in [Segments -> Believes]
    <3>1. Told(o) = [k \in Segments |-> Told(o)[k]]
      BY DEF Told
    <3>2. \A k \in Segments : rows'[k].leaseUntil \in Int
      BY <2>2 DEF RowRecords
    <3>3. \A k \in Segments : Told(o)[k] \in Believes
      <4> SUFFICES ASSUME NEW k \in Segments PROVE Told(o)[k] \in Believes
        OBVIOUS
      <4>1. CASE k \in call[o].touched
        <5>1. Told(o)[k] = [holds[o][k] EXCEPT !.until = rows'[k].leaseUntil]
          BY <2>3, <4>1
        <5> QED BY <1>3, <3>2, <5>1
      <4>2. CASE k \notin call[o].touched
        <5>1. Told(o)[k] = Nothing \/ Told(o)[k] = holds[o][k]
          BY <2>3, <4>2
        <5> QED BY <1>3, <5>1
      <4> QED BY <4>1, <4>2
    <3> QED BY <3>1, <3>3
  <2>5. \A k \in Segments : \A h \in {holds[o][k], Told(o)[k]} :
           /\ h.until > 0 => rows'[k].owner = o /\ h.until <= rows'[k].leaseUntil
           /\ h.until <= TTL
    <3> SUFFICES ASSUME NEW k \in Segments, NEW h \in {holds[o][k], Told(o)[k]}
                 PROVE  /\ h.until > 0 => rows'[k].owner = o /\ h.until <= rows'[k].leaseUntil
                        /\ h.until <= TTL
      OBVIOUS
    <3>1. CASE k \in call[o].touched
      <4>1. rows'[k].leaseUntil = At(o) + TTL /\ rows'[k].owner = o
        BY <2>2, <3>1
      <4>2. h # holds[o][k] => h.until = At(o) + TTL
        <5>1. Told(o)[k] = [holds[o][k] EXCEPT !.until = rows'[k].leaseUntil]
          BY <2>3, <3>1
        <5>2. holds[o][k] \in Believes
          BY <1>3
        <5>3. Told(o)[k].until = At(o) + TTL
          BY <4>1, <5>1, <5>2
        <5> QED BY <5>3
      <4>3. At(o) + TTL <= TTL
        BY <1>4
      <4> QED BY <1>4, <1>5, <4>1, <4>2, <4>3
    <3>2. CASE k \notin call[o].touched
      <4>1. rows'[k] = rows[k] /\ (h # holds[o][k] => h = Nothing)
        BY <2>2, <2>3, <3>2
      <4>2. Nothing.until <= 0 /\ Nothing.until <= TTL /\ Nothing.until \in Int
        BY DEF Nothing
      <4>3. CASE h = holds[o][k]
        BY <1>5, <1>7, <4>1, <4>3
      <4>4. CASE h # holds[o][k]
        <5>1. h = Nothing
          BY <4>1, <4>4
        <5>2. h.until <= 0 /\ h.until <= TTL /\ h.until \in Int
          BY <4>2, <5>1
        <5> QED BY <5>2
      <4> QED BY <4>3, <4>4
    <3> QED BY <3>1, <3>2
  <2> QED BY <1>6, <1>7, <1>8, <2>2, <2>4, <2>5
<1>11. CASE call[o].op \in {"release", "defer"}
  <2>1. Told(o) = holds[o]
    <3>1. Told(o) = [k \in Segments |-> holds[o][k]]
      BY <1>11 DEF Told
    <3> QED BY <1>3, <3>1
  <2>2. CASE call[o].op = "release"
    <3>1. ReleaseWrites(o)
      BY <1>1, <2>2 DEF Writes
    <3>2. /\ rows' \in [Segments -> RowRecords]
          /\ \A k \in call[o].touched :
                /\ rows[k].owner = o /\ rows'[k].owner = None /\ rows'[k].leaseUntil = Oldest
                /\ holds[o][k].until <= 0
          /\ \A k \in Segments \ call[o].touched : rows'[k] = rows[k]
      BY <2>2, <3>1, ReleaseCommits
    <3>3. \A k \in Segments : holds[o][k].until > 0 => k \notin call[o].touched
      BY <1>7, <3>2
    <3> QED BY <1>3, <1>5, <1>6, <1>7, <2>1, <3>2, <3>3
  <2>3. CASE call[o].op = "defer"
    <3>1. DeferWrites(o)
      BY <1>1, <2>3 DEF Writes
    <3>2. /\ rows' \in [Segments -> RowRecords]
          /\ \A k \in Segments :
                rows'[k].owner = rows[k].owner /\ rows'[k].leaseUntil = rows[k].leaseUntil
      BY <2>3, <3>1, DeferCommits
    <3> QED BY <1>3, <1>5, <1>6, <1>7, <2>1, <3>2
  <2> QED BY <1>11, <2>2, <2>3
<1> QED BY <1>2, <1>9, <1>10, <1>11

LEMMA NextIInv == IInv /\ [Next]_vars => IInv'
<1> SUFFICES ASSUME IInv, [Next]_vars PROVE IInv'
  OBVIOUS
<1>1. CASE Tick
  BY <1>1, TickStep
<1>2. CASE \E o \in Owners : Call(o) \/ Progress(o) \/ Fail(o)
  <2> PICK o \in Owners : Call(o) \/ Progress(o) \/ Fail(o)
    BY <1>2
  <2>1. CASE LockRow(o)
    <3>1. PICK k \in Ordered(o) :
             RowFree(o, k) /\ call' = [call EXCEPT ![o].touched = @ \cup {k}]
      BY <2>1 DEF LockRow
    <3>2. k \in Wanted(o)
      <4>1. Wanted(o) \subseteq Nat
        BY StoreAssumption DEF IInv, Shape, CallRecords, Wanted
      <4> QED BY <4>1, MinFacts DEF Ordered
    <3>3. ~LockedByOther(o, k) /\ backend = "postgres" /\ ~call[o].read /\ call[o].op # "none"
          /\ UNCHANGED <<rows, backend, holds>>
      BY <2>1, <3>1 DEF LockRow, RowFree
    <3> QED BY <3>1, <3>2, <3>3, TouchStep
  <2>2. CASE UpdateRow(o)
    <3>1. PICK k \in Wanted(o) : call' = [call EXCEPT ![o].touched = @ \cup {k}]
      BY <2>2 DEF UpdateRow
    <3>2. /\ backend = "sqlite" /\ call[o].began /\ ~call[o].read
          /\ UNCHANGED <<rows, backend, holds>>
      BY <2>2 DEF UpdateRow
    <3>3. call[o].op # "none"
      <4>1. k \in Segments
        BY DEF IInv, Shape, CallRecords, Wanted
      <4> QED BY <3>2, <4>1 DEF IInv, ReadHolds
    <3> QED BY <3>1, <3>2, <3>3, TouchStep
  <2>3. CASE GiveUp(o) \/ Fail(o)
    BY <2>3, OverStep DEF GiveUp, Fail, Rollback
  <2> QED BY <2>1, <2>2, <2>3, CallStep, BeginStep, ReadCandidatesStep, CommitStep DEF Progress
<1>3. CASE UNCHANGED vars
  <2>1. UNCHANGED <<rows, backend, call, holds>>
    BY <1>3 DEF vars
  <2> QED BY <2>1 DEF IInv, Shape, OneWriter, LocksInOrder, FreeHasNoLease, ReadHolds,
                      BeliefIsTrue, At
<1> QED BY <1>1, <1>2, <1>3 DEF Next

-----------------------------------------------------------------------------
\* The invariant the two theorems below rest on.
THEOREM Inductive == Spec => []IInv
BY InitIInv, NextIInv, PTL DEF Spec

\* Whatever the transactions of postgres/automation_store.go and
\* sqlite/automation_store.go interleave, however long they wait for locks and
\* whichever answers are lost, two instances never both believe to hold a
\* segment.
THEOREM OneHolderAlways == Spec => []OneHolder
<1>1. IInv => OneHolder
  <2> SUFFICES ASSUME IInv, NEW o \in Owners, NEW p \in Owners, o # p, NEW k \in Segments,
                      holds[o][k].until > 0, holds[p][k].until > 0
               PROVE  FALSE
    BY DEF OneHolder
  <2>1. rows[k].owner = o /\ rows[k].owner = p
    BY DEF IInv, BeliefIsTrue
  <2> QED BY <2>1
<1> QED BY <1>1, Inductive, PTL

\* Two Acquires of postgres/automation_store.go never wait for each other:
\* each has locked only keys below the one it waits for.
THEOREM NoAcquireDeadlock == Spec => []AcquiresDoNotDeadlock
<1>1. IInv => AcquiresDoNotDeadlock
  <2> SUFFICES ASSUME IInv, NEW o \in Owners, NEW p \in Owners,
                      call[o].op = "acquire", call[p].op = "acquire",
                      WaitsFor(o, p), WaitsFor(p, o)
               PROVE  FALSE
    BY DEF AcquiresDoNotDeadlock
  <2>1. ASSUME NEW q \in Owners, call[q].op = "acquire", Ordered(q) # {}
        PROVE  \E k \in call[q].keys \ call[q].touched :
                  /\ Ordered(q) = {k} /\ k \in Nat
                  /\ \A l \in call[q].keys \ call[q].touched : k <= l
    <3>1. Wanted(q) = call[q].keys \ call[q].touched
      BY <2>1 DEF Wanted, Where
    <3>2. Wanted(q) \subseteq Nat /\ Wanted(q) # {} /\ Ordered(q) = {Min(Wanted(q))}
      BY <2>1, <3>1, StoreAssumption DEF IInv, Shape, CallRecords, Ordered
    <3>3. Min(Wanted(q)) \in Wanted(q) /\ \A l \in Wanted(q) : Min(Wanted(q)) <= l
      BY <3>2, MinFacts
    <3> QED BY <3>1, <3>2, <3>3
  <2>2. PICK k \in call[o].keys \ call[o].touched : Ordered(o) = {k} /\ k \in Nat
    BY <2>1 DEF WaitsFor
  <2>3. PICK l \in call[p].keys \ call[p].touched : Ordered(p) = {l} /\ l \in Nat
    BY <2>1 DEF WaitsFor
  <2>4. k \in call[p].touched /\ l \in call[o].touched /\ backend = "postgres"
    BY <2>2, <2>3 DEF WaitsFor
  <2>5. l < k /\ k < l
    BY <2>2, <2>3, <2>4 DEF IInv, LocksInOrder
  <2> QED BY <2>2, <2>3, <2>5
<1> QED BY <1>1, Inductive, PTL

=============================================================================
