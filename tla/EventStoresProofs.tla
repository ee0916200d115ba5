--------------------------- MODULE EventStoresProofs ---------------------------
(***************************************************************************)
(* Proofs about EventStores: what a Save leaves in the log, and what a reader *)
(* of it, a load and a dashboard page see of the log, on each of the four     *)
(* stores, for any savers, readers, streams, batches, pools, page sizes and   *)
(* filters.                                                                   *)
(***************************************************************************)
EXTENDS EventStores, FiniteSetTheorems, WellFoundedInduction, TLAPS

Rows == [id : Nat \ {0}, stream : Streams \cup {System}, position : Nat \ {0},
         by : Savers \cup {System}]

PCs == {"idle", "called", "begun", "locked", "checked", "inserting", "waiting", "done"}

SaveShape ==
    /\ setup \in Setups
    /\ table \in SUBSET Rows /\ IsFiniteSet(table)
    /\ nextId \in Nat \ {0}
    /\ pc \in [Saving -> PCs]
    /\ currentVersion \in [Saving -> Nat]
    /\ nextVersion \in [Saving -> Nat]
    /\ pending \in [Saving -> SUBSET Rows]
    /\ outcome \in [Saving -> {"none", "saved", "conflict", "refused", "failed"}]
    /\ grpc \in [Saving -> [attempt : Nat, flying : SUBSET Nat,
                            answer : {"none", "written", "wrong"}]]

DistinctIds(rows) == \A x, y \in rows : x.id = y.id => x = y
DistinctPositions(rows) == \A x, y \in rows : x.position = y.position => x = y

\* An id names one row, and new rows come behind every row there is.
LogSound ==
    /\ DistinctIds(table)
    /\ ~On("sqlite") => \A x \in table : x.id < nextId

(***************************************************************************)
(* The rows of a transaction: of one Save, behind the log, and at the        *)
(* positions right behind the version it read.                               *)
(***************************************************************************)
PendingSound(w) ==
    /\ IsFiniteSet(pending[w]) /\ DistinctIds(pending[w])
    /\ \A x \in pending[w] :
          /\ x.by = w /\ x.stream = stream(w)
          /\ \A y \in table : y.id < x.id
          /\ ~On("sqlite") => x.id < nextId
    /\ DistinctPositions(pending[w])
    /\ {x.position : x \in pending[w]}
          = currentVersion[w] + 1 .. currentVersion[w] + Cardinality(pending[w])
    /\ pending[w] # {} => pc[w] = "inserting"

\* Who may insert: SQLite's write lock, the advisory locks of PostgreSQL.
LocksHeld ==
    /\ On("memory") => \A w \in Saving : pc[w] \in {"idle", "called", "done"}
    /\ On("kurrentdb") => \A w \in Saving : pc[w] \in {"idle", "called", "waiting", "done"}
    /\ On("sqlite") => \A w \in Saving : pc[w] \in {"idle", "called", "begun", "inserting", "done"}
    /\ On("sqlite") => \A v, w \in Saving :
          pc[v] \in {"begun", "inserting"} /\ pc[w] \in {"begun", "inserting"} => v = w
    /\ On("postgres") => \A w \in Saving : pc[w] # "waiting"
    /\ On("postgres") => \A v, w \in Saving :
          /\ pc[v] = "inserting" /\ pc[w] = "inserting" => v = w
          /\ /\ hashtext[stream(v)] = hashtext[stream(w)]
             /\ pc[v] \in {"locked", "checked", "inserting"}
             /\ pc[w] \in {"locked", "checked", "inserting"}
             => v = w

\* What a transaction has read of its stream still holds.
VersionRead(w) ==
    pc[w] \in {"checked", "inserting"} =>
        currentVersion[w] = StreamLength(stream(w)) /\ Expected(mode(w), currentVersion[w])

\* A stream is numbered from 1 on, without a gap and without a double.
Gapless ==
    \A s \in Streams :
        /\ DistinctPositions(Of(s))
        /\ \A x \in Of(s) : \A n \in 1 .. x.position : \E y \in Of(s) : y.position = n

\* The batch of w is in the log, behind a stream of length n.
BatchAt(w, n) ==
    /\ Cardinality(By(w)) = size(w)
    /\ {x.position : x \in By(w)} = n + 1 .. n + size(w)
    /\ Expected(mode(w), n)
    /\ outcome[w] = "saved" => nextVersion[w] = n + size(w)

BatchSound(w) ==
    /\ By(w) # {} => \E n \in Nat : BatchAt(w, n)
    /\ \A x \in By(w) : x.stream = stream(w)
    /\ pc[w] # "done" => outcome[w] = "none"
    /\ ~On("kurrentdb") /\ (pc[w] # "done" \/ outcome[w] \in {"conflict", "refused"})
          => By(w) = {}
    /\ outcome[w] = "saved" => By(w) # {}

\* What Save knows of its attempts.
AttemptsSound(w) ==
    On("kurrentdb") =>
        /\ pc[w] \in {"idle", "called"} =>
              grpc[w].attempt = 0 /\ grpc[w].flying = {} /\ grpc[w].answer = "none"
        /\ grpc[w].attempt = 0 => By(w) = {} /\ grpc[w].flying = {}
        /\ grpc[w].flying \subseteq 1 .. grpc[w].attempt
        /\ grpc[w].answer = "written" => By(w) # {}
        /\ grpc[w].answer = "wrong" /\ grpc[w].attempt < 2 =>
              By(w) = {} /\ grpc[w].flying = {}
        /\ outcome[w] \in {"conflict", "refused"} => grpc[w].answer = "wrong"

SaverSound(w) == PendingSound(w) /\ VersionRead(w) /\ BatchSound(w) /\ AttemptsSound(w)

SaveInv ==
    /\ SaveShape /\ LogSound /\ LocksHeld /\ Gapless
    /\ \A w \in Saving : SaverSound(w)

(***************************************************************************)
(* A reader stands at a row of the log, as does the head it has pinned, and  *)
(* has been given what is up to there.                                       *)
(***************************************************************************)
ReadInv ==
    /\ after \in [setup.readers -> Nat] /\ pinned \in [setup.readers -> Nat]
    /\ got \in [setup.readers -> SUBSET Nat]
    /\ \A r \in setup.readers :
          after[r] \in Ids(table) \cup {0} /\ pinned[r] \in Ids(table) \cup {0}
    /\ NothingSkipped

(***************************************************************************)
(* A load has been given, and has yet to give, the rows it asked for up to    *)
(* some point of the log, in order.                                          *)
(***************************************************************************)
LoadRecords ==
    [pc : {"idle", "checked", "open", "done", "closed"}, atCall : SUBSET Nat,
     rest : SUBSET Rows, got : Seq(Nat), err : {"nil", "failed", "refused"}]

Given(rec) == {rec.got[i] : i \in DOMAIN rec.got}

Whole(l, ids) ==
    /\ ids \subseteq Ids(Asked(l))
    /\ \A x \in Asked(l) : \A m \in ids : x.id <= m => x.id \in ids

InOrder(s) == \A i, j \in DOMAIN s : i < j => s[i] < s[j]

LoadSound(l, rec) ==
    /\ InOrder(rec.got) /\ IsFiniteSet(Given(rec))
    /\ rec.rest \subseteq Asked(l)
    /\ \A m \in Given(rec), x \in rec.rest : m < x.id
    /\ Whole(l, Given(rec) \cup Ids(rec.rest))
    /\ rec.pc \in {"idle", "checked"} => rec.got = <<>> /\ rec.rest = {}
    /\ rec.pc = "checked" =>
          /\ From(l).kind = "StreamExists" /\ Asked(l) # {}
          /\ rec.atCall \subseteq Ids(Asked(l))
          /\ On("postgres")
    /\ From(l).kind = "NoStream" => Given(rec) = {} /\ rec.rest = {}
    /\ rec.pc = "open" /\ ~On("kurrentdb") =>
          /\ rec.atCall \subseteq Given(rec) \cup Ids(rec.rest)
          /\ From(l).kind = "StreamExists" => Given(rec) \cup Ids(rec.rest) # {}
    /\ On("kurrentdb") => rec.rest = {}
    /\ rec.pc = "done" /\ rec.err = "nil" =>
          /\ rec.atCall \subseteq Given(rec) /\ rec.rest = {}
          /\ From(l).kind = "StreamExists" => Given(rec) # {}

LoadInv ==
    /\ load \in [Loading -> LoadRecords]
    /\ \A l \in Loading : LoadSound(l, load[l])

IInv == SaveInv /\ ReadInv /\ LoadInv

-----------------------------------------------------------------------------
(***************************************************************************)
(* Greatest and least elements.                                              *)
(***************************************************************************)
LEMMA LeastNat ==
    ASSUME NEW S, S \subseteq Nat, S # {}
    PROVE  \E m \in S : \A k \in S : m <= k
<1>1. PICK m \in S : \A k \in S : ~(<<k, m>> \in OpToRel(<, Nat))
  BY NatLessThanWellFounded, WFMin, Zenon
<1>2. \A k \in S : ~(k < m)
  BY <1>1, Zenon DEF OpToRel
<1> QED BY <1>2

\* A finite set of numbers has a greatest element: no smallest set has none.
LEMMA GreatestNat ==
    ASSUME NEW S, IsFiniteSet(S), S \subseteq Nat, S # {}
    PROVE  \E x \in S : \A y \in S : x >= y
<1> DEFINE HasMax(T) == \E x \in T : \A y \in T : x >= y
           Bad == {T \in SUBSET S : T # {} /\ ~HasMax(T)}
           Sizes == {Cardinality(T) : T \in Bad}
<1> SUFFICES ASSUME S \in Bad PROVE FALSE
  OBVIOUS
<1>1. \A T \in SUBSET S : IsFiniteSet(T) /\ Cardinality(T) \in Nat
  BY FS_Subset, FS_CardinalityType
<1>2. Sizes \subseteq Nat /\ Sizes # {}
  BY <1>1
<1>3. PICK c \in Sizes : \A k \in Sizes : c <= k
  <2> HIDE DEF Sizes
  <2> QED BY <1>2, LeastNat
<1>4. PICK T \in Bad : c = Cardinality(T)
  OBVIOUS
<1>5. PICK x \in T : TRUE
  OBVIOUS
<1> DEFINE U == T \ {x}
<1>6. U \in SUBSET S /\ IsFiniteSet(T) /\ Cardinality(T) \in Nat
  BY <1>1
<1>7. Cardinality(U) = Cardinality(T) - 1
  BY <1>5, <1>6, FS_RemoveElement
<1>8. U \notin Bad
  <2> SUFFICES ASSUME U \in Bad PROVE FALSE
    OBVIOUS
  <2>1. Cardinality(U) \in Sizes
    OBVIOUS
  <2> HIDE DEF U, Sizes, Bad
  <2> QED BY <1>3, <1>4, <1>6, <1>7, <2>1
<1>9. CASE U = {}
  <2>1. T = {x} /\ x \in Nat
    BY <1>5, <1>9
  <2>2. HasMax(T)
    BY <2>1
  <2> QED BY <2>2
<1>10. CASE HasMax(U)
  <2>1. PICK m \in U : \A y \in U : m >= y
    BY <1>10
  <2>2. m \in Nat /\ x \in Nat /\ m \in T
    BY <1>5
  <2>3. CASE m >= x
    <3>1. \A y \in T : m >= y
      BY <2>1, <2>3
    <3> QED BY <2>2, <3>1
  <2>4. CASE ~(m >= x)
    <3>1. \A y \in T : x >= y
      <4> TAKE y \in T
      <4>1. y \in Nat
        OBVIOUS
      <4>2. CASE y = x
        BY <2>2, <4>2
      <4>3. CASE y # x
        <5>1. m >= y
          BY <2>1, <4>3
        <5> QED BY <2>2, <2>4, <4>1, <5>1
      <4> QED BY <4>2, <4>3
    <3> QED BY <1>5, <3>1
  <2> QED BY <2>3, <2>4
<1> QED BY <1>6, <1>8, <1>9, <1>10

LEMMA MaxFacts ==
    ASSUME NEW S, IsFiniteSet(S), S \subseteq Nat, S # {}
    PROVE  Max(S) \in S /\ Max(S) \in Nat /\ \A y \in S : y <= Max(S)
<1>1. PICK m \in S : \A y \in S : m >= y
  BY GreatestNat
<1>2. Max(S) \in S /\ \A y \in S : Max(S) >= y
  BY <1>1 DEF Max
<1> QED BY <1>2

LEMMA MaxOr0Facts ==
    ASSUME NEW S, IsFiniteSet(S), S \subseteq Nat
    PROVE  /\ MaxOr0(S) \in S \cup {0} /\ MaxOr0(S) \in Nat
           /\ \A y \in S : y <= MaxOr0(S)
<1>1. IsFiniteSet(S \cup {0}) /\ S \cup {0} \subseteq Nat /\ S \cup {0} # {}
  BY FS_AddElement
<1> QED BY <1>1, MaxFacts DEF MaxOr0

\* The greatest number is the only one that is both in and above the set.
LEMMA MaxOr0Is ==
    ASSUME NEW S, IsFiniteSet(S), S \subseteq Nat, NEW n \in Nat, n \in S \cup {0},
           \A y \in S : y <= n
    PROVE  MaxOr0(S) = n
<1>1. MaxOr0(S) \in S \cup {0} /\ MaxOr0(S) \in Nat /\ \A y \in S : y <= MaxOr0(S)
  BY MaxOr0Facts
<1> QED BY <1>1

-----------------------------------------------------------------------------
(***************************************************************************)
(* Finite sets of rows.                                                      *)
(***************************************************************************)
LEMMA IdsFinite ==
    ASSUME NEW R, IsFiniteSet(R), \A x \in R : x.id \in Nat
    PROVE  IsFiniteSet(Ids(R)) /\ Ids(R) \subseteq Nat
<1> DEFINE f == [x \in R |-> x.id]
<1>1. f \in Surjection(R, Ids(R))
  BY DEF Surjection, Ids
<1>2. IsFiniteSet(Ids(R))
  BY <1>1, FS_Surjection
<1> QED BY <1>2 DEF Ids

LEMMA PositionsFinite ==
    ASSUME NEW R, IsFiniteSet(R), \A x \in R : x.position \in Nat
    PROVE  /\ IsFiniteSet({x.position : x \in R})
           /\ {x.position : x \in R} \subseteq Nat
<1> DEFINE f == [x \in R |-> x.position]
<1>1. f \in Surjection(R, {x.position : x \in R})
  BY DEF Surjection
<1>2. IsFiniteSet({x.position : x \in R})
  BY <1>1, FS_Surjection
<1> QED BY <1>2

\* The first n rows are the rows up to one of them.
LEMMA FirstNDown ==
    ASSUME NEW R, IsFiniteSet(R), \A x \in R : x.id \in Nat, NEW n \in Nat,
           NEW x \in FirstN(R, n), NEW y \in R, y.id <= x.id
    PROVE  y \in FirstN(R, n)
<1> DEFINE B(z) == {u \in R : u.id <= z.id}
<1>1. x \in R /\ Cardinality(B(x)) <= n
  BY DEF FirstN
<1>2. B(y) \in SUBSET B(x) /\ B(x) \in SUBSET R
  BY <1>1
<1>3. IsFiniteSet(B(x))
  BY <1>2, FS_Subset
<1>4. /\ Cardinality(B(y)) <= Cardinality(B(x))
      /\ Cardinality(B(y)) \in Nat /\ Cardinality(B(x)) \in Nat
  BY <1>2, <1>3, FS_Subset, FS_CardinalityType
<1>5. Cardinality(B(y)) <= n
  <2> HIDE DEF B
  <2> QED BY <1>1, <1>4
<1> QED BY <1>5 DEF FirstN

LEMMA FirstNPage ==
    ASSUME NEW R, IsFiniteSet(R), \A x \in R : x.id \in Nat, DistinctIds(R),
           NEW n \in Nat \ {0}
    PROVE  /\ FirstN(R, n) \subseteq R
           /\ Cardinality(FirstN(R, n)) = n =>
                 /\ Max(Ids(FirstN(R, n))) \in Ids(FirstN(R, n))
                 /\ FirstN(R, n) = {x \in R : x.id <= Max(Ids(FirstN(R, n)))}
           /\ Cardinality(FirstN(R, n)) # n => FirstN(R, n) = R
<1> DEFINE F == FirstN(R, n)
           B(z) == {u \in R : u.id <= z.id}
<1>1. F \in SUBSET R /\ IsFiniteSet(F) /\ Cardinality(F) \in Nat
  BY FS_Subset, FS_CardinalityType DEF FirstN
<1>2. F # {} => Max(Ids(F)) \in Ids(F) /\ \A m \in Ids(F) : m <= Max(Ids(F))
  <2>1. IsFiniteSet(Ids(F)) /\ Ids(F) \subseteq Nat
    BY <1>1, IdsFinite
  <2>2. F # {} => Ids(F) # {}
    BY DEF Ids
  <2> QED BY <2>1, <2>2, MaxFacts
<1>3. F # {} => F = {x \in R : x.id <= Max(Ids(F))}
  <2> SUFFICES ASSUME F # {} PROVE F = {x \in R : x.id <= Max(Ids(F))}
    OBVIOUS
  <2>1. PICK m \in F : m.id = Max(Ids(F))
    BY <1>2 DEF Ids
  <2>2. \A x \in R : x.id <= Max(Ids(F)) => x \in F
    BY <2>1, FirstNDown
  <2>3. \A x \in F : x.id <= Max(Ids(F))
    BY <1>2 DEF Ids
  <2> QED BY <1>1, <2>2, <2>3
<1>4. Cardinality(F) <= n
  <2>1. CASE F = {}
    BY <2>1, FS_EmptySet
  <2>2. CASE F # {}
    <3>1. PICK m \in F : m.id = Max(Ids(F))
      BY <1>2, <2>2 DEF Ids
    <3>2. Cardinality(B(m)) <= n
      BY <3>1 DEF FirstN
    <3>3. F \in SUBSET B(m) /\ B(m) \in SUBSET R
      BY <1>3, <2>2, <3>1
    <3>4. IsFiniteSet(B(m))
      BY <3>3, FS_Subset
    <3>5. Cardinality(F) <= Cardinality(B(m)) /\ Cardinality(B(m)) \in Nat
      BY <3>3, <3>4, FS_Subset, FS_CardinalityType
    <3> HIDE DEF B, F
    <3> QED BY <1>1, <3>2, <3>5
  <2> QED BY <2>1, <2>2
<1>5. ASSUME Cardinality(F) # n PROVE F = R
  <2> SUFFICES ASSUME F # R PROVE FALSE
    OBVIOUS
  <2> DEFINE L == R \ F
  <2>1. L # {} /\ Ids(L) \subseteq Nat /\ Ids(L) # {}
    BY <1>1 DEF Ids
  <2>2. PICK k \in Ids(L) : \A j \in Ids(L) : k <= j
    <3> HIDE DEF L
    <3> QED BY <2>1, LeastNat
  <2>3. PICK m \in L : m.id = k
    BY DEF Ids
  <2>4. B(m) \subseteq F \cup {m}
    <3> SUFFICES ASSUME NEW u \in R, u.id <= m.id, u \notin F PROVE u = m
      OBVIOUS
    <3>1. u.id \in Ids(L)
      BY DEF Ids
    <3>2. m.id <= u.id
      BY <2>2, <2>3, <3>1
    <3>3. u.id = m.id
      BY <3>2
    <3> QED BY <3>3 DEF DistinctIds
  <2>5. IsFiniteSet(F \cup {m}) /\ Cardinality(F \cup {m}) = Cardinality(F) + 1
    BY <1>1, FS_AddElement
  <2>6. Cardinality(B(m)) <= Cardinality(F) + 1 /\ Cardinality(B(m)) \in Nat
    BY <2>4, <2>5, FS_Subset, FS_CardinalityType
  <2>7. Cardinality(B(m)) <= n
    <3> HIDE DEF B, F
    <3> QED BY <1>1, <1>4, <1>5, <2>6
  <2>8. m \in F
    BY <2>7 DEF FirstN
  <2> QED BY <2>8
<1>6. Cardinality(F) = n => F # {}
  BY FS_EmptySet
<1> HIDE DEF F
<1>7. /\ F \subseteq R
      /\ Cardinality(F) = n =>
            Max(Ids(F)) \in Ids(F) /\ F = {x \in R : x.id <= Max(Ids(F))}
      /\ Cardinality(F) # n => F = R
  BY <1>1, <1>2, <1>3, <1>5, <1>6
<1> QED BY <1>7 DEF F

-----------------------------------------------------------------------------
(***************************************************************************)
(* The pages of the four stores.  Each gives just the wanted rows from where *)
(* it starts to the position it returns, which is one of the log, and gets    *)
(* somewhere unless it is at the end.                                        *)
(***************************************************************************)
Between(from, to) == {x \in Hits(table) : from < x.id /\ x.id <= to}

PageIsWhole(events, from, next) ==
    /\ next \in Ids(table) \cup {from} /\ next \in Nat /\ next >= from
    /\ events = Between(from, next)

LEMMA TableFacts ==
    ASSUME SaveInv
    PROVE  /\ IsFiniteSet(table) /\ DistinctIds(table)
           /\ \A x \in table : x.id \in Nat \ {0} /\ x.position \in Nat \ {0}
           /\ \A R \in SUBSET table :
                 /\ IsFiniteSet(R) /\ DistinctIds(R) /\ \A x \in R : x.id \in Nat
                 /\ IsFiniteSet(Ids(R)) /\ Ids(R) \subseteq Nat
<1>1. /\ IsFiniteSet(table) /\ DistinctIds(table)
      /\ \A x \in table : x.id \in Nat \ {0} /\ x.position \in Nat \ {0}
  BY DEF SaveInv, SaveShape, LogSound, Rows
<1>2. ASSUME NEW R \in SUBSET table
      PROVE  /\ IsFiniteSet(R) /\ DistinctIds(R) /\ \A x \in R : x.id \in Nat
             /\ IsFiniteSet(Ids(R)) /\ Ids(R) \subseteq Nat
  <2>1. IsFiniteSet(R) /\ DistinctIds(R) /\ \A x \in R : x.id \in Nat
    BY <1>1, FS_Subset DEF DistinctIds
  <2> QED BY <2>1, IdsFinite
<1> QED BY <1>1, <1>2

\* The SQL stores: the rows up to the pinned head, as many as fit.
LEMMA PageUpTo ==
    ASSUME SaveInv, NEW limit \in Nat \ {0}, NEW from \in Nat,
           NEW head \in Ids(table) \cup {0}, NEW hits, NEW next,
           hits = FirstN(Between(from, head), limit),
           next = IF Cardinality(hits) = limit THEN Max(Ids(hits)) ELSE Max({from, head})
    PROVE  PageIsWhole(hits, from, next) /\ (next = from => head <= from)
<1> DEFINE R == Between(from, head)
<1>1. R \in SUBSET table /\ from \in Nat /\ head \in Nat
  BY TableFacts DEF Between, Hits, Ids
<1>2. IsFiniteSet(R) /\ DistinctIds(R) /\ \A x \in R : x.id \in Nat
  BY <1>1, TableFacts
<1>3. /\ hits \subseteq R
      /\ Cardinality(hits) = limit =>
            Max(Ids(hits)) \in Ids(hits) /\ hits = {x \in R : x.id <= Max(Ids(hits))}
      /\ Cardinality(hits) # limit => hits = R
  <2> HIDE DEF R
  <2> QED BY <1>2, FirstNPage DEF R
<1>4. CASE Cardinality(hits) = limit
  <2>1. next \in Ids(hits) /\ hits = {x \in R : x.id <= next}
    BY <1>3, <1>4
  <2>2. PICK m \in R : m.id = next
    BY <1>3, <2>1 DEF Ids
  <2>3. next \in Ids(table) /\ from < next /\ next <= head /\ next \in Nat
    BY <1>1, <1>2, <2>2 DEF Between, Ids, Hits
  <2>4. hits = Between(from, next)
    <3>1. \A x \in table : x.id \in Nat
      BY TableFacts
    <3>2. \A x \in table : x \in R /\ x.id <= next <=> x \in Between(from, next)
      BY <1>1, <2>3, <3>1 DEF Between, Hits
    <3>3. Between(from, next) \subseteq table
      BY DEF Between, Hits
    <3> HIDE DEF R
    <3> QED BY <1>1, <2>1, <3>2, <3>3
  <2> QED BY <1>1, <2>3, <2>4 DEF PageIsWhole
<1>5. CASE Cardinality(hits) # limit
  <2>1. hits = R /\ next = Max({from, head})
    BY <1>3, <1>5
  <2>2. next = IF head >= from THEN head ELSE from
    <3>1. Max({from, head}) \in {from, head} /\ \A y \in {from, head} : y <= Max({from, head})
      <4>1. IsFiniteSet({from, head})
        <5>1. IsFiniteSet({from}) /\ {from, head} = {from} \cup {head}
          BY FS_Singleton
        <5> QED BY <5>1, FS_AddElement
      <4> QED BY <1>1, <4>1, MaxFacts
    <3> QED BY <1>1, <2>1, <3>1
  <2>3. hits = Between(from, next)
    <3>1. \A x \in table : x.id \in Nat
      BY TableFacts
    <3>2. \A x \in table : x \in R <=> x \in Between(from, next)
      BY <1>1, <2>2, <3>1 DEF Between, Hits
    <3>3. Between(from, next) \subseteq table
      BY DEF Between, Hits
    <3> HIDE DEF R
    <3> QED BY <1>1, <2>1, <3>2, <3>3
  <2>4. next \in Ids(table) \cup {from} /\ next \in Nat /\ next >= from
    BY <1>1, <2>2
  <2> QED BY <1>1, <2>2, <2>3, <2>4 DEF PageIsWhole
<1> QED BY <1>4, <1>5

\* The in-memory store: the rows from an index on, up to the one that fills
\* the page.
LEMMA PageFrom ==
    ASSUME SaveInv, NEW limit \in Nat \ {0}, NEW from \in Nat,
           NEW rows, rows = {x \in table : x.id > from}, NEW hits, NEW next,
           hits = FirstN(Hits(rows), limit),
           next = IF Cardinality(hits) = limit THEN Max(Ids(hits)) ELSE Max(Ids(rows) \cup {from})
    PROVE  PageIsWhole(hits, from, next) /\ (next = from => rows = {})
<1> DEFINE R == Hits(rows)
<1>1. R \in SUBSET table /\ rows \in SUBSET table /\ from \in Nat
  BY TableFacts DEF Hits, Ids
<1>2. IsFiniteSet(R) /\ DistinctIds(R) /\ \A x \in R : x.id \in Nat
  BY <1>1, TableFacts
<1>3. /\ hits \subseteq R
      /\ Cardinality(hits) = limit =>
            Max(Ids(hits)) \in Ids(hits) /\ hits = {x \in R : x.id <= Max(Ids(hits))}
      /\ Cardinality(hits) # limit => hits = R
  <2>1. hits = FirstN(R, limit)
    OBVIOUS
  <2> HIDE DEF R
  <2>2. /\ FirstN(R, limit) \subseteq R
        /\ Cardinality(FirstN(R, limit)) = limit =>
              /\ Max(Ids(FirstN(R, limit))) \in Ids(FirstN(R, limit))
              /\ FirstN(R, limit) = {x \in R : x.id <= Max(Ids(FirstN(R, limit)))}
        /\ Cardinality(FirstN(R, limit)) # limit => FirstN(R, limit) = R
    BY <1>2, FirstNPage
  <2> QED BY <2>1, <2>2
<1>4. \A x \in table : x.id \in Nat
  BY TableFacts
<1>5. CASE Cardinality(hits) = limit
  <2>1. next \in Ids(hits) /\ hits = {x \in R : x.id <= next}
    BY <1>3, <1>5
  <2>2. PICK m \in R : m.id = next
    BY <1>3, <2>1 DEF Ids
  <2>3. next \in Ids(table) /\ from < next /\ next \in Nat
    BY <1>1, <1>4, <2>2 DEF Ids, Hits
  <2>4. hits = Between(from, next)
    BY <1>1, <1>4, <2>1, <2>3 DEF Between, Hits
  <2> QED BY <1>1, <2>3, <2>4 DEF PageIsWhole
<1>6. CASE Cardinality(hits) # limit
  <2>1. hits = R /\ next = Max(Ids(rows) \cup {from})
    BY <1>3, <1>6
  <2>2. /\ next \in Ids(rows) \cup {from} /\ next \in Nat
        /\ \A m \in Ids(rows) \cup {from} : m <= next
    <3>1. IsFiniteSet(Ids(rows) \cup {from}) /\ Ids(rows) \cup {from} \subseteq Nat
      BY <1>1, TableFacts, FS_AddElement
    <3> QED BY <2>1, <3>1, MaxFacts
  <2>3. \A x \in rows : x.id <= next
    BY <2>2 DEF Ids
  <2>4. hits = Between(from, next)
    BY <1>1, <1>4, <2>1, <2>3 DEF Between, Hits
  <2>5. next \in Ids(table) \cup {from} /\ next >= from
    BY <1>1, <2>2 DEF Ids
  <2>6. next = from => rows = {}
    <3> SUFFICES ASSUME next = from, NEW x \in rows PROVE FALSE
      OBVIOUS
    <3>1. x.id > from /\ x.id \in Nat
      BY <1>4
    <3>2. x.id <= from
      BY <2>3
    <3> QED BY <3>1, <3>2
  <2> QED BY <2>2, <2>4, <2>5, <2>6 DEF PageIsWhole
<1> QED BY <1>5, <1>6

\* KurrentDB: the rows up to where the scan stopped.
Behind(from) == {x \in table : x.id > from}

Scanned(from, n, limit) ==
    {row \in FirstN(Behind(from), n) :
        Cardinality({x \in Hits(Behind(from)) : x.id < row.id}) < limit}

ScannedTo(from, n, limit) == Max(Ids(Scanned(from, n, limit)) \cup {from})

LEMMA PageScanned ==
    ASSUME SaveInv, NEW limit \in Nat \ {0}, NEW n \in Nat \ {0}, NEW from \in Nat
    PROVE  /\ PageIsWhole(Hits(Scanned(from, n, limit)), from, ScannedTo(from, n, limit))
           /\ ScannedTo(from, n, limit) = from => Behind(from) = {}
<1> DEFINE rows == {x \in table : x.id > from}
           scanned == {row \in FirstN(rows, n) :
                         Cardinality({x \in Hits(rows) : x.id < row.id}) < limit}
           next == Max(Ids(scanned) \cup {from})
           Earlier(y) == {x \in Hits(rows) : x.id < y.id}
<1>1. rows \in SUBSET table /\ scanned \in SUBSET rows /\ from \in Nat
  BY TableFacts DEF FirstN, Ids
<1>2. IsFiniteSet(rows) /\ \A x \in rows : x.id \in Nat
  BY <1>1, TableFacts
<1>3. /\ next \in Ids(scanned) \cup {from} /\ next \in Nat
      /\ \A m \in Ids(scanned) \cup {from} : m <= next
  <2>1. IsFiniteSet(Ids(scanned) \cup {from}) /\ Ids(scanned) \cup {from} \subseteq Nat
    <3>1. IsFiniteSet(Ids(scanned)) /\ Ids(scanned) \subseteq Nat
      <4>1. scanned \in SUBSET table
        BY <1>1
      <4> QED BY <4>1, TableFacts
    <3> QED BY <1>1, <3>1, FS_AddElement
  <2> QED BY <2>1, MaxFacts
<1>4. ASSUME NEW x \in scanned, NEW y \in rows, y.id <= x.id PROVE y \in scanned
  <2>1. y \in FirstN(rows, n)
    BY <1>2, <1>4, FirstNDown
  <2>2. Earlier(y) \in SUBSET Earlier(x) /\ Earlier(x) \in SUBSET rows
    BY <1>1, <1>2, <1>4 DEF Hits
  <2>3. IsFiniteSet(Earlier(x))
    BY <1>2, <2>2, FS_Subset
  <2>4. /\ Cardinality(Earlier(y)) <= Cardinality(Earlier(x))
        /\ Cardinality(Earlier(y)) \in Nat /\ Cardinality(Earlier(x)) \in Nat
    BY <2>2, <2>3, FS_Subset, FS_CardinalityType
  <2>5. Cardinality(Earlier(x)) < limit
    BY <1>4
  <2>6. Cardinality(Earlier(y)) < limit
    <3> HIDE DEF Earlier
    <3> QED BY <2>4, <2>5
  <2> QED BY <2>1, <2>6
<1>5. \A y \in rows : y.id <= next => y \in scanned
  <2> SUFFICES ASSUME NEW y \in rows, y.id <= next PROVE y \in scanned
    OBVIOUS
  <2>1. y.id > from /\ y.id \in Nat
    BY <1>2
  <2>2. next \in Ids(scanned)
    BY <1>1, <1>3, <2>1
  <2>3. PICK x \in scanned : x.id = next
    BY <2>2 DEF Ids
  <2> QED BY <1>4, <2>3
<1>6. \A y \in scanned : y.id <= next
  BY <1>3 DEF Ids
<1> HIDE DEF next
<1>7. Hits(scanned) = Between(from, next)
  <2>1. \A x \in Hits(scanned) : x \in Between(from, next)
    BY <1>1, <1>2, <1>6 DEF Hits, Between
  <2>2. \A x \in Between(from, next) : x \in rows /\ x.id <= next /\ x.by \in Wanted
    BY <1>1, TableFacts DEF Hits, Between
  <2> QED BY <1>5, <2>1, <2>2 DEF Hits
<1>8. next \in Ids(table) \cup {from} /\ next \in Nat /\ next >= from
  BY <1>1, <1>3 DEF Ids
<1>9. PageIsWhole(Hits(scanned), from, next)
  BY <1>7, <1>8 DEF PageIsWhole
<1> DEFINE Upto(y) == {u \in rows : u.id <= y.id}
<1>10. next = from => rows = {}
  <2> SUFFICES ASSUME next = from, rows # {} PROVE FALSE
    OBVIOUS
  <2>1. PICK k \in Ids(rows) : \A j \in Ids(rows) : k <= j
    <3>1. Ids(rows) \subseteq Nat /\ Ids(rows) # {}
      BY <1>2 DEF Ids
    <3> QED BY <3>1, LeastNat
  <2>2. PICK x \in rows : x.id = k
    BY DEF Ids
  <2>3. \A y \in rows : x.id <= y.id
    BY <2>1, <2>2 DEF Ids
  <2>4. Earlier(x) = {}
    BY <1>2, <2>3 DEF Hits
  <2>5. Upto(x) = {x}
    BY <1>1, <1>2, <2>3, TableFacts DEF DistinctIds
  <2>6. Cardinality(Earlier(x)) = 0 /\ Cardinality(Upto(x)) = 1
    BY <2>4, <2>5, FS_EmptySet, FS_Singleton
  <2> HIDE DEF Earlier, Upto, next
  <2>7. Cardinality(Earlier(x)) < limit /\ Cardinality(Upto(x)) <= n
    BY <2>6
  <2>8. x \in scanned
    BY <2>7 DEF Earlier, Upto, FirstN
  <2>9. x.id <= from /\ x.id > from /\ x.id \in Nat
    BY <1>2, <1>6, <2>8
  <2> QED BY <2>9
<1> QED BY <1>9, <1>10 DEF next, Scanned, ScannedTo, Behind

\* A reader that takes such a page has been given all it wants up to Next.
LEMMA PageTaken ==
    ASSUME IInv, NEW r \in setup.readers, NEW events, NEW next,
           PageIsWhole(events, after[r], next),
           got' = [got EXCEPT ![r] = @ \cup Ids(events)],
           after' = [after EXCEPT ![r] = next],
           UNCHANGED <<setup, table, pinned>>
    PROVE  ReadInv'
<1>1. /\ after \in [setup.readers -> Nat] /\ pinned \in [setup.readers -> Nat]
      /\ got \in [setup.readers -> SUBSET Nat]
      /\ \A q \in setup.readers :
            after[q] \in Ids(table) \cup {0} /\ pinned[q] \in Ids(table) \cup {0}
      /\ \A q \in setup.readers : got[q] = Ids({x \in Hits(table) : x.id <= after[q]})
  BY DEF IInv, ReadInv, NothingSkipped
<1>2. SaveInv /\ \A x \in table : x.id \in Nat
  BY TableFacts DEF IInv
<1>3. next \in Ids(table) \cup {0} /\ next >= after[r] /\ next \in Nat
  BY <1>1, <1>2 DEF PageIsWhole, Ids
<1>4. got[r] \cup Ids(events) = Ids({x \in Hits(table) : x.id <= next})
  <2>1. Ids(events) = Ids({x \in Hits(table) : after[r] < x.id /\ x.id <= next})
    BY DEF PageIsWhole, Between
  <2>2. /\ \A x \in Hits(table) : x.id \in Nat
        /\ after[r] \in Nat
    BY <1>1, <1>2 DEF Hits
  <2> DEFINE A == {x \in Hits(table) : x.id <= after[r]}
             B == {x \in Hits(table) : after[r] < x.id /\ x.id <= next}
             C == {x \in Hits(table) : x.id <= next}
  <2>3. C = A \cup B
    BY <1>3, <2>2
  <2>4. Ids(A \cup B) = Ids(A) \cup Ids(B)
    BY DEF Ids
  <2>5. got[r] = Ids(A) /\ Ids(events) = Ids(B)
    BY <1>1, <2>1
  <2> HIDE DEF A, B, C
  <2>6. got[r] \cup Ids(events) = Ids(C)
    BY <2>3, <2>4, <2>5
  <2> QED BY <2>6 DEF C
<1>5. Ids(events) \subseteq Nat
  BY <1>2 DEF PageIsWhole, Between, Ids, Hits
<1>6. /\ after' \in [setup.readers -> Nat] /\ pinned' \in [setup.readers -> Nat]
      /\ got' \in [setup.readers -> SUBSET Nat]
  BY <1>1, <1>3, <1>5
<1>7. \A q \in setup.readers :
         after'[q] \in Ids(table) \cup {0} /\ pinned'[q] \in Ids(table) \cup {0}
  BY <1>1, <1>3
<1>8. ASSUME NEW q \in setup.readers
      PROVE  got'[q] = Ids({x \in Hits(table) : x.id <= after'[q]})
  <2>1. CASE q = r
    <3>1. got'[q] = got[r] \cup Ids(events) /\ after'[q] = next
      BY <1>1, <2>1
    <3> QED BY <1>4, <3>1
  <2>2. CASE q # r
    <3>1. got'[q] = got[q] /\ after'[q] = after[q]
      BY <1>1, <2>2
    <3> QED BY <1>1, <3>1
  <2> QED BY <2>1, <2>2
<1>9. Ids(table)' = Ids(table) /\ Hits(table)' = Hits(table) /\ setup' = setup
  BY DEF Ids, Hits
<1>10. NothingSkipped'
  BY <1>8, <1>9 DEF NothingSkipped, Ids
<1> QED BY <1>6, <1>7, <1>9, <1>10 DEF ReadInv

(***************************************************************************)
(* A store's copy of the log's operators is the log's.                       *)
(***************************************************************************)
LEMMA MemSame ==
    /\ \A X : Mem!Cardinality(X) = Cardinality(X)
    /\ \A X : Mem!Hits(X) = Hits(X) /\ Mem!Ids(X) = Ids(X) /\ Mem!Max(X) = Max(X)
    /\ \A X : Mem!MaxOr0(X) = MaxOr0(X)
    /\ \A X, n : Mem!FirstN(X, n) = FirstN(X, n)
    /\ \A s : Mem!Of(s) = Of(s) /\ Mem!StreamLength(s) = StreamLength(s)
    /\ \A w : Mem!By(w) = By(w) /\ Mem!stream(w) = stream(w) /\ Mem!mode(w) = mode(w)
    /\ \A w : Mem!size(w) = size(w) /\ Mem!Rejection(w) = Rejection(w)
    /\ \A w, n : Mem!Batch(w, n) = Batch(w, n)
    /\ \A m, n : Mem!Expected(m, n) <=> Expected(m, n)
    /\ \A l : Mem!Asked(l) = Asked(l) /\ Mem!From(l) = From(l) /\ (Mem!Missing(l) <=> Missing(l))
    /\ Mem!Saving = Saving
<1>1. \A X : Mem!Cardinality(X) = Cardinality(X)
  BY Zenon DEF Mem!Cardinality, Cardinality
<1>2. \A X : Mem!Hits(X) = Hits(X) /\ Mem!Ids(X) = Ids(X) /\ Mem!Max(X) = Max(X)
  BY Zenon DEF Mem!Hits, Hits, Mem!Ids, Ids, Mem!Max, Max
<1>3. \A X : Mem!MaxOr0(X) = MaxOr0(X)
  BY <1>2 DEF Mem!MaxOr0, MaxOr0
<1>4. \A X, n : Mem!FirstN(X, n) = FirstN(X, n)
  BY <1>1 DEF Mem!FirstN, FirstN
<1>5. \A s : Mem!Of(s) = Of(s)
  BY Zenon DEF Mem!Of, Of
<1>6. \A s : Mem!StreamLength(s) = StreamLength(s)
  BY <1>3, <1>5 DEF Mem!StreamLength, StreamLength
<1>7. \A w : Mem!By(w) = By(w) /\ Mem!stream(w) = stream(w) /\ Mem!mode(w) = mode(w)
             /\ Mem!size(w) = size(w)
  BY Zenon DEF Mem!By, By, Mem!stream, stream, Mem!mode, mode, Mem!size, size
<1>8. \A w : Mem!Rejection(w) = Rejection(w)
  BY <1>7 DEF Mem!Rejection, Rejection
<1>9. \A w, n : Mem!Batch(w, n) = Batch(w, n)
  BY Zenon DEF Mem!Batch, Batch, Mem!stream, stream, Mem!size, size
<1>10. \A m, n : Mem!Expected(m, n) <=> Expected(m, n)
  BY DEF Mem!Expected, Expected
<1>11. \A l : Mem!From(l) = From(l) /\ (Mem!Missing(l) <=> Missing(l))
  BY <1>5 DEF Mem!From, From, Mem!Missing, Missing, Mem!AnyState, AnyState
<1>12. \A l : Mem!Asked(l) = Asked(l)
  BY <1>2, <1>5, Zenon DEF Mem!Asked, Asked
<1>13. Mem!Saving = Saving
  BY DEF Mem!Saving, Saving
<1> QED BY <1>1, <1>2, <1>3, <1>4, <1>5, <1>6, <1>7, <1>8, <1>9, <1>10, <1>11, <1>12, <1>13

LEMMA LiteSame ==
    /\ \A X : Lite!Cardinality(X) = Cardinality(X)
    /\ \A X : Lite!Hits(X) = Hits(X) /\ Lite!Ids(X) = Ids(X) /\ Lite!Max(X) = Max(X)
    /\ \A X : Lite!MaxOr0(X) = MaxOr0(X)
    /\ \A X, n : Lite!FirstN(X, n) = FirstN(X, n)
    /\ \A s : Lite!Of(s) = Of(s) /\ Lite!StreamLength(s) = StreamLength(s)
    /\ \A w : Lite!By(w) = By(w) /\ Lite!stream(w) = stream(w) /\ Lite!mode(w) = mode(w)
    /\ \A w : Lite!size(w) = size(w) /\ Lite!Rejection(w) = Rejection(w)
    /\ \A w, n : Lite!Batch(w, n) = Batch(w, n)
    /\ \A m, n : Lite!Expected(m, n) <=> Expected(m, n)
    /\ \A l : Lite!Asked(l) = Asked(l) /\ Lite!From(l) = From(l) /\ (Lite!Missing(l) <=> Missing(l))
    /\ Lite!Saving = Saving
<1>1. \A X : Lite!Cardinality(X) = Cardinality(X)
  BY Zenon DEF Lite!Cardinality, Cardinality
<1>2. \A X : Lite!Hits(X) = Hits(X) /\ Lite!Ids(X) = Ids(X) /\ Lite!Max(X) = Max(X)
  BY Zenon DEF Lite!Hits, Hits, Lite!Ids, Ids, Lite!Max, Max
<1>3. \A X : Lite!MaxOr0(X) = MaxOr0(X)
  BY <1>2 DEF Lite!MaxOr0, MaxOr0
<1>4. \A X, n : Lite!FirstN(X, n) = FirstN(X, n)
  BY <1>1 DEF Lite!FirstN, FirstN
<1>5. \A s : Lite!Of(s) = Of(s)
  BY Zenon DEF Lite!Of, Of
<1>6. \A s : Lite!StreamLength(s) = StreamLength(s)
  BY <1>3, <1>5 DEF Lite!StreamLength, StreamLength
<1>7. \A w : Lite!By(w) = By(w) /\ Lite!stream(w) = stream(w) /\ Lite!mode(w) = mode(w)
             /\ Lite!size(w) = size(w)
  BY Zenon DEF Lite!By, By, Lite!stream, stream, Lite!mode, mode, Lite!size, size
<1>8. \A w : Lite!Rejection(w) = Rejection(w)
  BY <1>7 DEF Lite!Rejection, Rejection
<1>9. \A w, n : Lite!Batch(w, n) = Batch(w, n)
  BY Zenon DEF Lite!Batch, Batch, Lite!stream, stream, Lite!size, size
<1>10. \A m, n : Lite!Expected(m, n) <=> Expected(m, n)
  BY DEF Lite!Expected, Expected
<1>11. \A l : Lite!From(l) = From(l) /\ (Lite!Missing(l) <=> Missing(l))
  BY <1>5 DEF Lite!From, From, Lite!Missing, Missing, Lite!AnyState, AnyState
<1>12. \A l : Lite!Asked(l) = Asked(l)
  BY <1>2, <1>5, Zenon DEF Lite!Asked, Asked
<1>13. Lite!Saving = Saving
  BY DEF Lite!Saving, Saving
<1> QED BY <1>1, <1>2, <1>3, <1>4, <1>5, <1>6, <1>7, <1>8, <1>9, <1>10, <1>11, <1>12, <1>13

LEMMA PgSame ==
    /\ \A X : Pg!Cardinality(X) = Cardinality(X)
    /\ \A X : Pg!Hits(X) = Hits(X) /\ Pg!Ids(X) = Ids(X) /\ Pg!Max(X) = Max(X)
    /\ \A X : Pg!MaxOr0(X) = MaxOr0(X)
    /\ \A X, n : Pg!FirstN(X, n) = FirstN(X, n)
    /\ \A s : Pg!Of(s) = Of(s) /\ Pg!StreamLength(s) = StreamLength(s)
    /\ \A w : Pg!By(w) = By(w) /\ Pg!stream(w) = stream(w) /\ Pg!mode(w) = mode(w)
    /\ \A w : Pg!size(w) = size(w) /\ Pg!Rejection(w) = Rejection(w)
    /\ \A w, n : Pg!Batch(w, n) = Batch(w, n)
    /\ \A m, n : Pg!Expected(m, n) <=> Expected(m, n)
    /\ \A l : Pg!Asked(l) = Asked(l) /\ Pg!From(l) = From(l) /\ (Pg!Missing(l) <=> Missing(l))
    /\ Pg!Saving = Saving
<1>1. \A X : Pg!Cardinality(X) = Cardinality(X)
  BY Zenon DEF Pg!Cardinality, Cardinality
<1>2. \A X : Pg!Hits(X) = Hits(X) /\ Pg!Ids(X) = Ids(X) /\ Pg!Max(X) = Max(X)
  BY Zenon DEF Pg!Hits, Hits, Pg!Ids, Ids, Pg!Max, Max
<1>3. \A X : Pg!MaxOr0(X) = MaxOr0(X)
  BY <1>2 DEF Pg!MaxOr0, MaxOr0
<1>4. \A X, n : Pg!FirstN(X, n) = FirstN(X, n)
  BY <1>1 DEF Pg!FirstN, FirstN
<1>5. \A s : Pg!Of(s) = Of(s)
  BY Zenon DEF Pg!Of, Of
<1>6. \A s : Pg!StreamLength(s) = StreamLength(s)
  BY <1>3, <1>5 DEF Pg!StreamLength, StreamLength
<1>7. \A w : Pg!By(w) = By(w) /\ Pg!stream(w) = stream(w) /\ Pg!mode(w) = mode(w)
             /\ Pg!size(w) = size(w)
  BY Zenon DEF Pg!By, By, Pg!stream, stream, Pg!mode, mode, Pg!size, size
<1>8. \A w : Pg!Rejection(w) = Rejection(w)
  BY <1>7 DEF Pg!Rejection, Rejection
<1>9. \A w, n : Pg!Batch(w, n) = Batch(w, n)
  BY Zenon DEF Pg!Batch, Batch, Pg!stream, stream, Pg!size, size
<1>10. \A m, n : Pg!Expected(m, n) <=> Expected(m, n)
  BY DEF Pg!Expected, Expected
<1>11. \A l : Pg!From(l) = From(l) /\ (Pg!Missing(l) <=> Missing(l))
  BY <1>5 DEF Pg!From, From, Pg!Missing, Missing, Pg!AnyState, AnyState
<1>12. \A l : Pg!Asked(l) = Asked(l)
  BY <1>2, <1>5, Zenon DEF Pg!Asked, Asked
<1>13. Pg!Saving = Saving
  BY DEF Pg!Saving, Saving
<1> QED BY <1>1, <1>2, <1>3, <1>4, <1>5, <1>6, <1>7, <1>8, <1>9, <1>10, <1>11, <1>12, <1>13

LEMMA KurrentSame ==
    /\ \A X : Kurrent!Cardinality(X) = Cardinality(X)
    /\ \A X : Kurrent!Hits(X) = Hits(X) /\ Kurrent!Ids(X) = Ids(X) /\ Kurrent!Max(X) = Max(X)
    /\ \A X : Kurrent!MaxOr0(X) = MaxOr0(X)
    /\ \A X, n : Kurrent!FirstN(X, n) = FirstN(X, n)
    /\ \A s : Kurrent!Of(s) = Of(s) /\ Kurrent!StreamLength(s) = StreamLength(s)
    /\ \A w : Kurrent!By(w) = By(w) /\ Kurrent!stream(w) = stream(w) /\ Kurrent!mode(w) = mode(w)
    /\ \A w : Kurrent!size(w) = size(w) /\ Kurrent!Rejection(w) = Rejection(w)
    /\ \A w, n : Kurrent!Batch(w, n) = Batch(w, n)
    /\ \A m, n : Kurrent!Expected(m, n) <=> Expected(m, n)
    /\ \A l : Kurrent!Asked(l) = Asked(l) /\ Kurrent!From(l) = From(l) /\ (Kurrent!Missing(l) <=> Missing(l))
    /\ Kurrent!Saving = Saving
<1>1. \A X : Kurrent!Cardinality(X) = Cardinality(X)
  BY Zenon DEF Kurrent!Cardinality, Cardinality
<1>2. \A X : Kurrent!Hits(X) = Hits(X) /\ Kurrent!Ids(X) = Ids(X) /\ Kurrent!Max(X) = Max(X)
  BY Zenon DEF Kurrent!Hits, Hits, Kurrent!Ids, Ids, Kurrent!Max, Max
<1>3. \A X : Kurrent!MaxOr0(X) = MaxOr0(X)
  BY <1>2 DEF Kurrent!MaxOr0, MaxOr0
<1>4. \A X, n : Kurrent!FirstN(X, n) = FirstN(X, n)
  BY <1>1 DEF Kurrent!FirstN, FirstN
<1>5. \A s : Kurrent!Of(s) = Of(s)
  BY Zenon DEF Kurrent!Of, Of
<1>6. \A s : Kurrent!StreamLength(s) = StreamLength(s)
  BY <1>3, <1>5 DEF Kurrent!StreamLength, StreamLength
<1>7. \A w : Kurrent!By(w) = By(w) /\ Kurrent!stream(w) = stream(w) /\ Kurrent!mode(w) = mode(w)
             /\ Kurrent!size(w) = size(w)
  BY Zenon DEF Kurrent!By, By, Kurrent!stream, stream, Kurrent!mode, mode, Kurrent!size, size
<1>8. \A w : Kurrent!Rejection(w) = Rejection(w)
  BY <1>7 DEF Kurrent!Rejection, Rejection
<1>9. \A w, n : Kurrent!Batch(w, n) = Batch(w, n)
  BY Zenon DEF Kurrent!Batch, Batch, Kurrent!stream, stream, Kurrent!size, size
<1>10. \A m, n : Kurrent!Expected(m, n) <=> Expected(m, n)
  BY DEF Kurrent!Expected, Expected
<1>11. \A l : Kurrent!From(l) = From(l) /\ (Kurrent!Missing(l) <=> Missing(l))
  BY <1>5 DEF Kurrent!From, From, Kurrent!Missing, Missing, Kurrent!AnyState, AnyState
<1>12. \A l : Kurrent!Asked(l) = Asked(l)
  BY <1>2, <1>5, Zenon DEF Kurrent!Asked, Asked
<1>13. Kurrent!Saving = Saving
  BY DEF Kurrent!Saving, Saving
<1> QED BY <1>1, <1>2, <1>3, <1>4, <1>5, <1>6, <1>7, <1>8, <1>9, <1>10, <1>11, <1>12, <1>13

\* The steps of a reader.
ReadFrame == UNCHANGED <<setup, table, saveVars, load>>

LEMMA HeadIsRow ==
    ASSUME SaveInv
    PROVE  MaxOr0(Ids(table)) \in Ids(table) \cup {0} /\ MaxOr0(Ids(table)) \in Nat
<1>1. IsFiniteSet(Ids(table)) /\ Ids(table) \subseteq Nat
  BY TableFacts
<1> QED BY <1>1, MaxOr0Facts

LEMMA HeadPinned ==
    ASSUME IInv, NEW r \in setup.readers,
           pinned' = [pinned EXCEPT ![r] = MaxOr0(Ids(table))],
           UNCHANGED <<setup, table, after, got>>
    PROVE  ReadInv'
<1>1. MaxOr0(Ids(table)) \in Ids(table) \cup {0} /\ MaxOr0(Ids(table)) \in Nat
  BY HeadIsRow DEF IInv
<1>2. Ids(table)' = Ids(table) /\ NothingSkipped' = NothingSkipped
  BY DEF Ids, Hits, NothingSkipped
<1> QED BY <1>1, <1>2 DEF IInv, ReadInv

LEMMA ReadSteps ==
    ASSUME IInv, NEW r \in setup.readers, ReadStep(r)
    PROVE  ReadInv' /\ ReadFrame
<1>1. /\ after[r] \in Ids(table) \cup {0} /\ pinned[r] \in Ids(table) \cup {0}
      /\ SaveInv /\ Limit \in Nat \ {0} /\ ScanLimit \in Nat \ {0}
  BY EventLogAssumption DEF IInv, ReadInv
<1>2. CASE Mem!ReadPage(r)
  <2> DEFINE rows == {x \in table : x.id > after[r]}
             hits == FirstN(Hits(rows), Limit)
             next == IF Cardinality(hits) = Limit THEN Max(Ids(hits))
                     ELSE Max(Ids(rows) \cup {after[r]})
  <2>1. /\ got' = [got EXCEPT ![r] = @ \cup Ids(hits)]
        /\ after' = [after EXCEPT ![r] = next]
        /\ UNCHANGED <<setup, table, saveVars, pinned, load>>
    <3> DEFINE res == Mem!ReadAll(after[r], Limit)
    <3>1. res = [events |-> hits, next |-> next, atEnd |-> next >= Mem!LogHead]
      <4>1. /\ Mem!FirstN(Mem!Hits(rows), Limit) = hits
            /\ Mem!Cardinality(hits) = Cardinality(hits)
            /\ Mem!Max(Mem!Ids(hits)) = Max(Ids(hits))
            /\ Mem!Max(Mem!Ids(rows) \cup {after[r]}) = Max(Ids(rows) \cup {after[r]})
        BY MemSame
      <4> QED BY <4>1, Zenon DEF Mem!ReadAll
    <3> HIDE DEF res, hits, next
    <3>2. /\ got' = [got EXCEPT ![r] = @ \cup Mem!Ids(res.events)]
          /\ after' = [after EXCEPT ![r] = res.next]
          /\ UNCHANGED <<setup, table, saveVars, pinned, load>>
      BY <1>2 DEF Mem!ReadPage, Mem!TakePage, Mem!saveVars, saveVars, res
    <3>3. Mem!Ids(hits) = Ids(hits)
      BY DEF Mem!Ids, Ids
    <3> QED BY <3>1, <3>2, <3>3
  <2> HIDE DEF hits, next, rows
  <2>2. PageIsWhole(hits, after[r], next)
    <3>1. after[r] \in Nat
      BY DEF IInv, ReadInv
    <3> QED BY <1>1, <3>1, PageFrom DEF hits, next, rows
  <2> QED BY <2>1, <2>2, PageTaken DEF ReadFrame
<1>3. CASE Lite!ReadStep(r)
  <2>1. CASE Lite!PinHead(r)
    <3>1. Lite!LogHead = MaxOr0(Ids(table))
      BY DEF Lite!LogHead, Lite!MaxOr0, MaxOr0, Lite!Ids, Ids, Lite!Max, Max
    <3>2. /\ pinned' = [pinned EXCEPT ![r] = MaxOr0(Ids(table))]
          /\ UNCHANGED <<setup, table, saveVars, after, got, load>>
      BY <2>1, <3>1 DEF Lite!PinHead, Lite!saveVars, saveVars
    <3> QED BY <3>2, HeadPinned DEF ReadFrame
  <2>2. CASE Lite!ReadPage(r)
    <3> DEFINE hits == FirstN(Between(after[r], pinned[r]), Limit)
               next == IF Cardinality(hits) = Limit THEN Max(Ids(hits))
                       ELSE Max({after[r], pinned[r]})
    <3>1. /\ got' = [got EXCEPT ![r] = @ \cup Ids(hits)]
          /\ after' = [after EXCEPT ![r] = next]
          /\ UNCHANGED <<setup, table, saveVars, pinned, load>>
      <4> DEFINE res == Lite!ReadUpTo(after[r], pinned[r], Limit)
      <4>1. res = [events |-> hits, next |-> next, atEnd |-> next >= pinned[r]]
        <5>1. /\ Lite!FirstN({x \in Lite!Hits(table) : after[r] < x.id /\ x.id <= pinned[r]}, Limit)
                    = hits
              /\ Lite!Cardinality(hits) = Cardinality(hits)
              /\ Lite!Max(Lite!Ids(hits)) = Max(Ids(hits))
              /\ Lite!Max({after[r], pinned[r]}) = Max({after[r], pinned[r]})
          BY LiteSame DEF Between
        <5> QED BY <5>1, Zenon DEF Lite!ReadUpTo
      <4> HIDE DEF res, hits, next
      <4>2. /\ got' = [got EXCEPT ![r] = @ \cup Lite!Ids(res.events)]
            /\ after' = [after EXCEPT ![r] = res.next]
            /\ UNCHANGED <<setup, table, saveVars, pinned, load>>
        BY <2>2 DEF Lite!ReadPage, Lite!TakePage, Lite!saveVars, saveVars, res
      <4>3. Lite!Ids(hits) = Ids(hits)
        BY DEF Lite!Ids, Ids
      <4> QED BY <4>1, <4>2, <4>3
    <3> HIDE DEF hits, next
    <3>2. PageIsWhole(hits, after[r], next)
      <4>1. after[r] \in Nat
        BY DEF IInv, ReadInv
      <4> QED BY <1>1, <4>1, PageUpTo DEF hits, next
    <3> QED BY <3>1, <3>2, PageTaken DEF ReadFrame
  <2> QED BY <1>3, <2>1, <2>2 DEF Lite!ReadStep
<1>4. CASE Pg!ReadStep(r)
  <2>1. CASE Pg!PinHead(r)
    <3>1. Pg!LogHead = MaxOr0(Ids(table))
      BY DEF Pg!LogHead, Pg!MaxOr0, MaxOr0, Pg!Ids, Ids, Pg!Max, Max
    <3>2. /\ pinned' = [pinned EXCEPT ![r] = MaxOr0(Ids(table))]
          /\ UNCHANGED <<setup, table, saveVars, after, got, load>>
      BY <2>1, <3>1 DEF Pg!PinHead, Pg!saveVars, saveVars
    <3> QED BY <3>2, HeadPinned DEF ReadFrame
  <2>2. CASE Pg!ReadPage(r)
    <3> DEFINE hits == FirstN(Between(after[r], pinned[r]), Limit)
               next == IF Cardinality(hits) = Limit THEN Max(Ids(hits))
                       ELSE Max({after[r], pinned[r]})
    <3>1. /\ got' = [got EXCEPT ![r] = @ \cup Ids(hits)]
          /\ after' = [after EXCEPT ![r] = next]
          /\ UNCHANGED <<setup, table, saveVars, pinned, load>>
      <4> DEFINE res == Pg!ReadUpTo(after[r], pinned[r], Limit)
      <4>1. res = [events |-> hits, next |-> next, atEnd |-> next >= pinned[r]]
        <5>1. /\ Pg!FirstN({x \in Pg!Hits(table) : after[r] < x.id /\ x.id <= pinned[r]}, Limit)
                    = hits
              /\ Pg!Cardinality(hits) = Cardinality(hits)
              /\ Pg!Max(Pg!Ids(hits)) = Max(Ids(hits))
              /\ Pg!Max({after[r], pinned[r]}) = Max({after[r], pinned[r]})
          BY PgSame DEF Between
        <5> QED BY <5>1, Zenon DEF Pg!ReadUpTo, Pg!PageNext
      <4> HIDE DEF res, hits, next
      <4>2. /\ got' = [got EXCEPT ![r] = @ \cup Pg!Ids(res.events)]
            /\ after' = [after EXCEPT ![r] = res.next]
            /\ UNCHANGED <<setup, table, saveVars, pinned, load>>
        BY <2>2 DEF Pg!ReadPage, Pg!TakePage, Pg!saveVars, saveVars, res
      <4>3. Pg!Ids(hits) = Ids(hits)
        BY DEF Pg!Ids, Ids
      <4> QED BY <4>1, <4>2, <4>3
    <3> HIDE DEF hits, next
    <3>2. PageIsWhole(hits, after[r], next)
      <4>1. after[r] \in Nat
        BY DEF IInv, ReadInv
      <4> QED BY <1>1, <4>1, PageUpTo DEF hits, next
    <3> QED BY <3>1, <3>2, PageTaken DEF ReadFrame
  <2> QED BY <1>4, <2>1, <2>2 DEF Pg!ReadStep
<1>5. CASE Kurrent!ReadPage(r)
  <2> DEFINE rows == {x \in table : x.id > after[r]}
             budget == Max({Limit, ScanLimit})
             scanned == {x \in FirstN(rows, budget) :
                           Cardinality({y \in Hits(rows) : y.id < x.id}) < Limit}
             next == Max(Ids(scanned) \cup {after[r]})
  <2>1. /\ got' = [got EXCEPT ![r] = @ \cup Ids(Hits(scanned))]
        /\ after' = [after EXCEPT ![r] = next]
        /\ UNCHANGED <<setup, table, saveVars, pinned, load>>
    <3> DEFINE res == Kurrent!ReadAll(after[r], Limit)
    <3>1. res = [events |-> Hits(scanned), next |-> next, atEnd |-> scanned = rows]
      <4>1. {x \in Kurrent!FirstN(rows, Kurrent!Max({Limit, ScanLimit})) :
                 Kurrent!Cardinality({y \in Kurrent!Hits(rows) : y.id < x.id}) < Limit} = scanned
        BY KurrentSame
      <4>2. /\ Kurrent!Hits(scanned) = Hits(scanned)
            /\ Kurrent!Max(Kurrent!Ids(scanned) \cup {after[r]}) = next
        BY KurrentSame
      <4> QED BY <4>1, <4>2, Zenon DEF Kurrent!ReadAll
    <3> HIDE DEF res, scanned, next
    <3>2. /\ got' = [got EXCEPT ![r] = @ \cup Kurrent!Ids(res.events)]
          /\ after' = [after EXCEPT ![r] = res.next]
          /\ UNCHANGED <<setup, table, saveVars, pinned, load>>
      BY <1>5 DEF Kurrent!ReadPage, Kurrent!TakePage, Kurrent!saveVars, saveVars, res
    <3>3. Kurrent!Ids(Hits(scanned)) = Ids(Hits(scanned))
      BY DEF Kurrent!Ids, Ids
    <3> QED BY <3>1, <3>2, <3>3
  <2>2. budget \in Nat \ {0} /\ after[r] \in Nat
    <3>1. IsFiniteSet({Limit, ScanLimit})
      <4>1. IsFiniteSet({Limit}) /\ {Limit, ScanLimit} = {Limit} \cup {ScanLimit}
        BY FS_Singleton
      <4> QED BY <4>1, FS_AddElement
    <3>2. budget \in {Limit, ScanLimit}
      BY <1>1, <3>1, MaxFacts
    <3> QED BY <1>1, <3>2 DEF IInv, ReadInv
  <2> HIDE DEF rows, budget, scanned, next
  <2>3. PageIsWhole(Hits(scanned), after[r], next)
    <3>1. /\ scanned = Scanned(after[r], budget, Limit)
          /\ next = ScannedTo(after[r], budget, Limit)
      BY DEF rows, scanned, next, Scanned, ScannedTo, Behind
    <3> QED BY <1>1, <2>2, <3>1, PageScanned
  <2> QED BY <2>1, <2>3, PageTaken DEF ReadFrame
<1> QED BY <1>2, <1>3, <1>4, <1>5 DEF ReadStep

-----------------------------------------------------------------------------
(***************************************************************************)
(* Rows behind the log change nothing for those who have read up to a row of *)
(* it, and nothing of what a load has been given.                            *)
(***************************************************************************)
LEMMA LogGrows ==
    ASSUME IInv, NEW N \in SUBSET Rows, table' = table \cup N,
           \A x \in N, y \in table : y.id < x.id,
           UNCHANGED <<setup, readVars, load>>
    PROVE  ReadInv' /\ LoadInv'
<1>1. \A x \in table \cup N : x.id \in Nat \ {0}
  BY TableFacts DEF IInv, Rows
<1>2. setup' = setup /\ load' = load /\ after' = after /\ pinned' = pinned /\ got' = got
  BY DEF readVars
<1>3. ReadInv'
  <2>1. Ids(table) \subseteq Ids(table)'
    BY DEF Ids
  <2>2. ASSUME NEW r \in setup.readers
        PROVE  {x \in Hits(table)' : x.id <= after[r]} = {x \in Hits(table) : x.id <= after[r]}
    <3>1. after[r] \in Nat /\ (after[r] = 0 \/ \E y \in table : y.id = after[r])
      BY DEF IInv, ReadInv, Ids
    <3>2. \A x \in N : after[r] < x.id
      BY <1>1, <3>1
    <3> QED BY <1>1, <3>1, <3>2 DEF Hits
  <2>3. NothingSkipped'
    <3>1. NothingSkipped
      BY DEF IInv, ReadInv
    <3> QED BY <1>2, <2>2, <3>1 DEF NothingSkipped, Ids
  <2> QED BY <1>2, <2>1, <2>3 DEF IInv, ReadInv
<1>4. LoadInv'
  <2>1. load' \in [Loading -> LoadRecords] /\ Loading' = Loading
    BY <1>2 DEF IInv, LoadInv, Loading
  <2>2. ASSUME NEW l \in Loading PROVE LoadSound(l, load[l])'
    <3>1. /\ Asked(l) \subseteq Asked(l)' /\ Asked(l) \subseteq table
          /\ \A x \in Asked(l)' : x \in Asked(l) \/ x \in N
      BY <1>2 DEF Asked, Hits, Of
    <3>2. /\ From(l)' = From(l) /\ Given(load[l])' = Given(load[l]) /\ load'[l] = load[l]
          /\ \A b : On(b)' <=> On(b)
      BY <1>2 DEF From, Given, On
    <3>3. LoadSound(l, load[l])
      BY DEF IInv, LoadInv
    <3> DEFINE ids == Given(load[l]) \cup Ids(load[l].rest)
    <3>4. Ids(Asked(l)) \subseteq Ids(Asked(l)') /\ Ids(Asked(l)) \subseteq Ids(table)
      BY <3>1 DEF Ids
    <3>5. ids \subseteq Ids(Asked(l)) /\ \A x \in Asked(l) : \A m \in ids : x.id <= m => x.id \in ids
      BY <3>3 DEF LoadSound, Whole
    <3>6. \A x \in N : \A m \in ids : ~(x.id <= m)
      BY <1>1, <3>4, <3>5 DEF Ids
    <3>7. /\ ids \subseteq Ids(Asked(l)')
          /\ \A x \in Asked(l)' : \A m \in ids : x.id <= m => x.id \in ids
      BY <3>1, <3>4, <3>5, <3>6
    <3>8. Whole(l, Given(load[l]) \cup Ids(load[l].rest))'
      BY <3>2, <3>7 DEF Whole, Ids
    <3>9. load[l].rest \subseteq Asked(l)' /\ (Asked(l) # {} => Asked(l)' # {})
      BY <3>1, <3>3 DEF LoadSound
    <3>10. load[l].pc = "checked" => load[l].atCall \subseteq Ids(Asked(l)')
      BY <3>3, <3>4 DEF LoadSound
    <3> HIDE DEF ids
    <3>11. /\ Ids(Asked(l)') = Ids(Asked(l))' /\ Ids(load[l].rest)' = Ids(load[l].rest)
           /\ InOrder(load[l].got)' = InOrder(load[l].got)
      BY <3>2 DEF Ids, InOrder
    <3> QED BY <3>2, <3>3, <3>8, <3>9, <3>10, <3>11 DEF LoadSound
  <2> QED BY <2>1, <2>2 DEF LoadInv
<1> QED BY <1>3, <1>4

LEMMA LogStays ==
    ASSUME IInv, UNCHANGED <<setup, table, readVars, load>>
    PROVE  ReadInv' /\ LoadInv'
<1> DEFINE N == {}
<1>1. table' = table \cup N /\ N \in SUBSET Rows /\ \A x \in N, y \in table : y.id < x.id
  OBVIOUS
<1> HIDE DEF N
<1> QED BY <1>1, LogGrows

LEMMA ReadStays ==
    ASSUME ReadInv, UNCHANGED <<setup, table, readVars>>
    PROVE  ReadInv'
<1>1. setup' = setup /\ table' = table /\ after' = after /\ pinned' = pinned /\ got' = got
  BY DEF readVars
<1>2. Ids(table)' = Ids(table) /\ NothingSkipped' = NothingSkipped
  BY <1>1 DEF Ids, Hits, NothingSkipped
<1> QED BY <1>1, <1>2 DEF ReadInv

\* A step that leaves the Saves and the log alone.
LEMMA SavesStay ==
    ASSUME SaveInv, UNCHANGED <<setup, table, saveVars>>
    PROVE  SaveInv'
<1>1. /\ setup' = setup /\ table' = table /\ nextId' = nextId /\ pc' = pc
      /\ currentVersion' = currentVersion /\ nextVersion' = nextVersion
      /\ pending' = pending /\ outcome' = outcome /\ grpc' = grpc
  BY DEF saveVars
<1>2. /\ Saving' = Saving /\ \A b : On(b)' <=> On(b)
      /\ \A w : stream(w)' = stream(w) /\ mode(w)' = mode(w) /\ size(w)' = size(w)
      /\ \A w : By(w)' = By(w)
      /\ \A s : Of(s)' = Of(s)
  BY <1>1 DEF Saving, On, stream, mode, size, By, Of
<1>3. \A s : StreamLength(s)' = StreamLength(s)
  BY <1>2 DEF StreamLength
<1>4. SaveShape' /\ LogSound'
  BY <1>1, <1>2 DEF SaveInv, SaveShape, LogSound, DistinctIds
<1>5. LocksHeld' /\ Gapless'
  BY <1>1, <1>2 DEF SaveInv, LocksHeld, Gapless, DistinctPositions
<1>6. ASSUME NEW w \in Saving PROVE SaverSound(w)'
  <2>1. SaverSound(w)
    BY DEF SaveInv
  <2>2. PendingSound(w)'
    BY <1>1, <1>2, <2>1 DEF SaverSound, PendingSound, DistinctIds, DistinctPositions
  <2>3. VersionRead(w)'
    BY <1>1, <1>2, <1>3, <2>1 DEF SaverSound, VersionRead
  <2>4. BatchSound(w)'
    BY <1>1, <1>2, <2>1 DEF SaverSound, BatchSound, BatchAt
  <2>5. AttemptsSound(w)'
    BY <1>1, <1>2, <2>1 DEF SaverSound, AttemptsSound
  <2> QED BY <2>2, <2>3, <2>4, <2>5 DEF SaverSound
<1> QED BY <1>2, <1>4, <1>5, <1>6 DEF SaveInv

-----------------------------------------------------------------------------
(***************************************************************************)
(* What a step of one Save leaves of the others.                             *)
(***************************************************************************)
LEMMA CallFacts ==
    ASSUME SaveShape, NEW w \in Saving
    PROVE  /\ w \in Savers /\ w # System
           /\ stream(w) \in Streams /\ stream(w) # System
           /\ mode(w) \in StreamStates /\ size(w) \in Nat \ {0}
<1>1. setup.calls \in [Saving -> Calls] /\ Saving \subseteq Savers
  BY EventLogAssumption DEF SaveShape, Saving
<1>2. setup.calls[w] \in Calls
  BY <1>1
<1> QED BY <1>1, <1>2, EventLogAssumption DEF Calls, stream, mode, size

LEMMA LengthFacts ==
    ASSUME SaveInv, NEW s
    PROVE  /\ StreamLength(s) \in Nat
           /\ \A x \in Of(s) : x.position <= StreamLength(s) /\ x.position \in Nat \ {0}
           /\ StreamLength(s) # 0 => \E x \in Of(s) : x.position = StreamLength(s)
           /\ StreamLength(s) = 0 <=> Of(s) = {}
<1>1. Of(s) \in SUBSET table
  BY DEF Of
<1>2. IsFiniteSet(Of(s)) /\ \A x \in Of(s) : x.position \in Nat \ {0}
  BY <1>1, TableFacts
<1> DEFINE P == {x.position : x \in Of(s)}
<1>3. IsFiniteSet(P) /\ P \subseteq Nat
  BY <1>2, PositionsFinite
<1> HIDE DEF P
<1>4. MaxOr0(P) \in P \cup {0} /\ MaxOr0(P) \in Nat /\ \A y \in P : y <= MaxOr0(P)
  BY <1>3, MaxOr0Facts
<1> USE DEF P
<1>5. StreamLength(s) = MaxOr0(P)
  BY DEF StreamLength
<1> QED BY <1>2, <1>4, <1>5

Untouched(v) ==
    /\ pc'[v] = pc[v] /\ currentVersion'[v] = currentVersion[v]
    /\ nextVersion'[v] = nextVersion[v] /\ pending'[v] = pending[v]
    /\ outcome'[v] = outcome[v] /\ grpc'[v] = grpc[v]

LEMMA OtherSound ==
    ASSUME SaveInv, NEW v \in Saving, setup' = setup, Untouched(v), By(v)' = By(v),
           nextId' \in Nat, nextId' >= nextId,
           pending[v] # {} => table' = table,
           pc[v] \in {"checked", "inserting"} =>
               StreamLength(stream(v))' = StreamLength(stream(v))
    PROVE  SaverSound(v)'
<1>1. /\ \A b : On(b)' <=> On(b)
      /\ stream(v)' = stream(v) /\ mode(v)' = mode(v) /\ size(v)' = size(v)
  BY DEF On, stream, mode, size
<1>2. SaverSound(v) /\ nextId \in Nat
  BY DEF SaveInv, SaveShape
<1>3. PendingSound(v)'
  <2>1. CASE pending[v] = {}
    <3>1. pending'[v] = {} /\ currentVersion'[v] = currentVersion[v]
      BY <2>1 DEF Untouched
    <3> QED BY <1>2, <2>1, <3>1 DEF SaverSound, PendingSound, DistinctIds, DistinctPositions
  <2>2. CASE pending[v] # {}
    <3>1. \A x \in pending[v] : x.id \in Nat
      BY DEF SaveInv, SaveShape, Rows
    <3>2. table' = table
      BY <2>2
    <3>3. \A x \in pending[v] : ~On("sqlite") => x.id < nextId'
      BY <1>2, <3>1 DEF SaverSound, PendingSound
    <3> QED BY <1>1, <1>2, <3>2, <3>3 DEF SaverSound, PendingSound, DistinctIds,
            DistinctPositions, Untouched
  <2> QED BY <2>1, <2>2
<1>4. VersionRead(v)'
  <2>1. pc[v] \in {"checked", "inserting"} =>
           StreamLength(stream(v))' = StreamLength(stream(v))
    OBVIOUS
  <2> QED BY <1>1, <1>2, <2>1 DEF SaverSound, VersionRead, Untouched
<1>5. BatchSound(v)'
  BY <1>1, <1>2 DEF SaverSound, BatchSound, BatchAt, Untouched
<1>6. AttemptsSound(v)'
  BY <1>1, <1>2 DEF SaverSound, AttemptsSound, Untouched
<1> QED BY <1>3, <1>4, <1>5, <1>6 DEF SaverSound

-----------------------------------------------------------------------------
(***************************************************************************)
(* A batch in the log.                                                       *)
(***************************************************************************)
BatchRows(N, w, n) ==
    /\ N \in SUBSET Rows /\ IsFiniteSet(N) /\ DistinctIds(N) /\ DistinctPositions(N)
    /\ \A x \in N : x.by = w /\ x.stream = stream(w) /\ \A y \in table : y.id < x.id
    /\ Cardinality(N) = size(w)
    /\ {x.position : x \in N} = n + 1 .. n + size(w)

LEMMA Appended ==
    ASSUME SaveInv, NEW w \in Saving, NEW N, NEW n, n = StreamLength(stream(w)),
           BatchRows(N, w, n), table' = table \cup N, setup' = setup, By(w) = {}
    PROVE  /\ table' \in SUBSET Rows /\ IsFiniteSet(table') /\ DistinctIds(table)'
           /\ Gapless' /\ By(w)' = N /\ N # {}
           /\ \A v \in Saving : v # w => By(v)' = By(v)
           /\ \A s : s # stream(w) => StreamLength(s)' = StreamLength(s)
<1>1. /\ table \in SUBSET Rows /\ IsFiniteSet(table) /\ DistinctIds(table) /\ Gapless
      /\ \A x \in table : x.id \in Nat
      /\ size(w) \in Nat \ {0} /\ n \in Nat /\ stream(w) \in Streams
  BY CallFacts, TableFacts, LengthFacts DEF SaveInv, SaveShape
<1>2. table' \in SUBSET Rows /\ IsFiniteSet(table')
  BY <1>1, FS_Union DEF BatchRows
<1>3. DistinctIds(table)'
  <2>1. \A x \in N : x.id \in Nat /\ \A y \in table : y.id < x.id
    BY DEF BatchRows, Rows
  <2> QED BY <1>1, <2>1 DEF DistinctIds, BatchRows
<1>4. By(w)' = N /\ N # {}
  <2>1. N # {}
    BY <1>1, FS_EmptySet DEF BatchRows
  <2> QED BY <2>1 DEF By, BatchRows
<1>5. \A v \in Saving : v # w => By(v)' = By(v)
  BY DEF By, BatchRows
<1>6. \A s : s # stream(w) => Of(s)' = Of(s)
  BY DEF Of, BatchRows
<1>7. \A s : s # stream(w) => StreamLength(s)' = StreamLength(s)
  BY <1>6 DEF StreamLength
<1>8. Gapless'
  <2> SUFFICES ASSUME NEW s \in Streams
               PROVE  /\ DistinctPositions(Of(s)')
                      /\ \A x \in Of(s)' : \A m \in 1 .. x.position :
                            \E y \in Of(s)' : y.position = m
    BY DEF Gapless, DistinctPositions
  <2>1. CASE s # stream(w)
    BY <1>1, <1>6, <2>1 DEF Gapless
  <2>2. CASE s = stream(w)
    <3>1. Of(s)' = Of(s) \cup N
      BY <2>2 DEF Of, BatchRows
    <3>2. /\ \A x \in Of(s) : x.position <= n /\ x.position \in Nat
          /\ n # 0 => \E x \in Of(s) : x.position = n
      BY <2>2, LengthFacts
    <3>3. /\ \A x \in N : x.position \in n + 1 .. n + size(w)
          /\ \A m \in n + 1 .. n + size(w) : \E x \in N : x.position = m
      BY DEF BatchRows
    <3>4. DistinctPositions(Of(s)')
      <4>1. DistinctPositions(Of(s)) /\ DistinctPositions(N)
        BY <1>1 DEF Gapless, BatchRows
      <4>2. \A x \in Of(s), y \in N : x.position # y.position
        BY <1>1, <3>2, <3>3
      <4> QED BY <3>1, <4>1, <4>2 DEF DistinctPositions
    <3>5. ASSUME NEW x \in Of(s)', NEW m \in 1 .. x.position
          PROVE  \E y \in Of(s)' : y.position = m
      <4>1. CASE x \in Of(s)
        BY <1>1, <3>1, <4>1 DEF Gapless
      <4>2. CASE x \in N /\ m <= n
        <5>1. PICK z \in Of(s) : z.position = n
          BY <1>1, <3>2, <3>3, <4>2
        <5>2. m \in 1 .. z.position
          BY <1>1, <5>1, <4>2
        <5> QED BY <1>1, <3>1, <5>2 DEF Gapless
      <4>3. CASE x \in N /\ ~(m <= n)
        <5>1. m \in n + 1 .. n + size(w)
          BY <1>1, <3>3, <4>3
        <5> QED BY <3>1, <3>3, <5>1
      <4> QED BY <3>1, <4>1, <4>2, <4>3
    <3> QED BY <3>4, <3>5
  <2> QED BY <2>1, <2>2
<1> QED BY <1>2, <1>3, <1>4, <1>5, <1>7, <1>8

-----------------------------------------------------------------------------
(***************************************************************************)
(* How a Save ends.                                                          *)
(***************************************************************************)
LEMMA EndedFacts ==
    ASSUME SaveShape, NEW w \in Saving, NEW how \in {"saved", "conflict", "refused", "failed"},
           Ended(w, how)
    PROVE  /\ pc' \in [Saving -> PCs] /\ pending' \in [Saving -> SUBSET Rows]
           /\ outcome' \in [Saving -> {"none", "saved", "conflict", "refused", "failed"}]
           /\ pc'[w] = "done" /\ outcome'[w] = how /\ pending'[w] = {}
           /\ \A v \in Saving : v # w =>
                 pc'[v] = pc[v] /\ outcome'[v] = outcome[v] /\ pending'[v] = pending[v]
BY DEF SaveShape, Ended, PCs

LEMMA LocksReleased ==
    ASSUME SaveShape, LocksHeld, NEW w \in Saving, setup' = setup,
           pc' \in [Saving -> PCs], pc'[w] = "done",
           \A v \in Saving : v # w => pc'[v] = pc[v]
    PROVE  LocksHeld'
<1>1. /\ \A b : On(b)' <=> On(b)
      /\ \A v : stream(v)' = stream(v)
      /\ Saving' = Saving
  BY DEF On, stream, Saving
<1> QED BY <1>1 DEF LocksHeld

LEMMA NothingPending ==
    ASSUME SaveInv, NEW w \in Saving, pending'[w] = {}, currentVersion'[w] \in Nat
    PROVE  PendingSound(w)'
<1>1. Cardinality({}) = 0 /\ IsFiniteSet({})
  BY FS_EmptySet
<1>2. currentVersion'[w] + 1 .. currentVersion'[w] + 0 = {}
  OBVIOUS
<1>3. IsFiniteSet(pending'[w]) /\ Cardinality(pending'[w]) = 0
  BY <1>1
<1> QED BY <1>2, <1>3 DEF PendingSound, DistinctIds, DistinctPositions

\* Nothing was written.
LEMMA SaveReleased ==
    ASSUME SaveInv, NEW w \in Saving, pc[w] # "done",
           NEW how \in {"conflict", "refused", "failed"}, Ended(w, how),
           On("kurrentdb") /\ how # "failed" => grpc[w].answer = "wrong",
           nextId' \in Nat, nextId' >= nextId,
           currentVersion' \in [Saving -> Nat],
           \A v \in Saving : v # w => currentVersion'[v] = currentVersion[v],
           UNCHANGED <<setup, table, nextVersion, grpc>>
    PROVE  SaveInv'
<1>1. /\ SaveShape /\ LogSound /\ LocksHeld /\ Gapless /\ SaverSound(w)
      /\ nextId \in Nat \ {0}
  BY DEF SaveInv, SaveShape
<1>2. /\ pc' \in [Saving -> PCs] /\ pending' \in [Saving -> SUBSET Rows]
      /\ outcome' \in [Saving -> {"none", "saved", "conflict", "refused", "failed"}]
      /\ pc'[w] = "done" /\ outcome'[w] = how /\ pending'[w] = {}
      /\ \A v \in Saving : v # w =>
            pc'[v] = pc[v] /\ outcome'[v] = outcome[v] /\ pending'[v] = pending[v]
  BY <1>1, EndedFacts
<1>3. /\ Saving' = Saving /\ \A b : On(b)' <=> On(b)
      /\ \A v : stream(v)' = stream(v) /\ mode(v)' = mode(v) /\ size(v)' = size(v)
      /\ \A v : By(v)' = By(v)
      /\ \A s : Of(s)' = Of(s) /\ StreamLength(s)' = StreamLength(s)
  BY DEF Saving, On, stream, mode, size, By, Of, StreamLength
<1>4. SaveShape' /\ LogSound'
  <2>1. \A x \in table : x.id \in Nat
    BY TableFacts
  <2> QED BY <1>1, <1>2, <1>3, <2>1 DEF SaveShape, LogSound, DistinctIds
<1>5. LocksHeld'
  BY <1>1, <1>2, LocksReleased
<1>6. Gapless'
  BY <1>1, <1>3 DEF Gapless, DistinctPositions
<1>7. SaverSound(w)'
  <2>1. PendingSound(w)'
    BY <1>2, NothingPending
  <2>2. VersionRead(w)'
    BY <1>2 DEF VersionRead
  <2>3. BatchSound(w)'
    BY <1>1, <1>2, <1>3 DEF SaverSound, BatchSound, BatchAt
  <2>4. AttemptsSound(w)'
    BY <1>1, <1>2, <1>3 DEF SaverSound, AttemptsSound
  <2> QED BY <2>1, <2>2, <2>3, <2>4 DEF SaverSound
<1>8. ASSUME NEW v \in Saving, v # w PROVE SaverSound(v)'
  BY <1>1, <1>2, <1>3, <1>8, OtherSound DEF Untouched
<1> QED BY <1>3, <1>4, <1>5, <1>6, <1>7, <1>8 DEF SaveInv

\* The batch is in the log, whatever Save then says.
LEMMA SaveCommitted ==
    ASSUME SaveInv, NEW w \in Saving, pc[w] # "done", ~On("kurrentdb"),
           NEW how \in {"saved", "failed"}, Ended(w, how),
           NEW n, n = StreamLength(stream(w)), Expected(mode(w), n),
           NEW N, BatchRows(N, w, n), table' = table \cup N,
           \A v \in Saving : v # w =>
               pc[v] # "inserting" /\ (pc[v] = "checked" => stream(v) # stream(w)),
           nextId' \in Nat, nextId' >= nextId,
           ~On("sqlite") => \A x \in N : x.id < nextId',
           currentVersion' \in [Saving -> Nat], nextVersion' \in [Saving -> Nat],
           \A v \in Saving : v # w =>
               currentVersion'[v] = currentVersion[v] /\ nextVersion'[v] = nextVersion[v],
           how = "saved" => nextVersion'[w] = n + size(w),
           UNCHANGED <<setup, grpc>>
    PROVE  SaveInv'
<1>1. /\ SaveShape /\ LogSound /\ LocksHeld /\ Gapless /\ SaverSound(w)
      /\ nextId \in Nat \ {0} /\ n \in Nat
  BY LengthFacts DEF SaveInv, SaveShape
<1>2. /\ pc' \in [Saving -> PCs] /\ pending' \in [Saving -> SUBSET Rows]
      /\ outcome' \in [Saving -> {"none", "saved", "conflict", "refused", "failed"}]
      /\ pc'[w] = "done" /\ outcome'[w] = how /\ pending'[w] = {}
      /\ \A v \in Saving : v # w =>
            pc'[v] = pc[v] /\ outcome'[v] = outcome[v] /\ pending'[v] = pending[v]
  BY <1>1, EndedFacts
<1>3. /\ Saving' = Saving /\ \A b : On(b)' <=> On(b)
      /\ \A v : stream(v)' = stream(v) /\ mode(v)' = mode(v) /\ size(v)' = size(v)
  BY DEF Saving, On, stream, mode, size
<1>4. By(w) = {}
  BY <1>1 DEF SaverSound, BatchSound
<1>5. /\ table' \in SUBSET Rows /\ IsFiniteSet(table') /\ DistinctIds(table)'
      /\ Gapless' /\ By(w)' = N /\ N # {}
      /\ \A v \in Saving : v # w => By(v)' = By(v)
      /\ \A s : s # stream(w) => StreamLength(s)' = StreamLength(s)
  BY <1>4, Appended
<1>6. SaveShape'
  BY <1>1, <1>2, <1>3, <1>5 DEF SaveShape
<1>7. LogSound'
  <2>1. \A x \in table : x.id \in Nat
    BY TableFacts
  <2>2. ~On("sqlite") => \A x \in table \cup N : x.id < nextId'
    BY <1>1, <2>1 DEF LogSound
  <2> QED BY <1>3, <1>5, <2>2 DEF LogSound
<1>8. LocksHeld'
  BY <1>1, <1>2, LocksReleased
<1>9. SaverSound(w)'
  <2>1. PendingSound(w)'
    BY <1>2, NothingPending
  <2>2. VersionRead(w)'
    BY <1>2 DEF VersionRead
  <2>3. BatchSound(w)'
    <3>1. BatchAt(w, n)'
      BY <1>2, <1>3, <1>5 DEF BatchAt, BatchRows
    <3>2. \A x \in By(w)' : x.stream = stream(w)
      BY <1>5 DEF BatchRows
    <3> QED BY <1>1, <1>2, <1>3, <1>5, <3>1, <3>2 DEF BatchSound
  <2>4. AttemptsSound(w)'
    BY <1>3 DEF AttemptsSound
  <2> QED BY <2>1, <2>2, <2>3, <2>4 DEF SaverSound
<1>10. ASSUME NEW v \in Saving, v # w PROVE SaverSound(v)'
  <2>1. pending[v] = {}
    BY <1>10 DEF SaveInv, SaverSound, PendingSound
  <2>2. pc[v] \in {"checked", "inserting"} => StreamLength(stream(v))' = StreamLength(stream(v))
    <3>1. ASSUME pc[v] \in {"checked", "inserting"} PROVE stream(v) # stream(w)
      BY <1>10, <3>1
    <3>2. stream(v) # stream(w) => StreamLength(stream(v))' = StreamLength(stream(v))
      BY <1>3, <1>5
    <3> QED BY <3>1, <3>2
  <2>3. Untouched(v)
    BY <1>2, <1>10 DEF Untouched
  <2> QED BY <1>1, <1>5, <1>10, <2>1, <2>2, <2>3, OtherSound
<1> QED BY <1>3, <1>5, <1>6, <1>7, <1>8, <1>9, <1>10 DEF SaveInv

-----------------------------------------------------------------------------
(***************************************************************************)
(* The steps of a Save before it ends.                                       *)
(***************************************************************************)
LEMMA SaveMoves ==
    ASSUME SaveInv, NEW w \in Saving, pc[w] \notin {"inserting", "done"},
           NEW q \in PCs \ {"done"}, pc' = [pc EXCEPT ![w] = q],
           currentVersion' \in [Saving -> Nat],
           \A v \in Saving : v # w => currentVersion'[v] = currentVersion[v],
           grpc' \in [Saving -> [attempt : Nat, flying : SUBSET Nat,
                                 answer : {"none", "written", "wrong"}]],
           \A v \in Saving : v # w => grpc'[v] = grpc[v],
           UNCHANGED <<setup, table, nextId, nextVersion, pending, outcome>>,
           LocksHeld', VersionRead(w)', AttemptsSound(w)'
    PROVE  SaveInv'
<1>1. /\ SaveShape /\ LogSound /\ LocksHeld /\ Gapless /\ SaverSound(w)
      /\ nextId \in Nat \ {0}
  BY DEF SaveInv, SaveShape
<1>2. /\ pc' \in [Saving -> PCs] /\ pc'[w] = q
      /\ \A v \in Saving : v # w => pc'[v] = pc[v]
  BY <1>1 DEF SaveShape
<1>3. /\ Saving' = Saving /\ \A b : On(b)' <=> On(b)
      /\ \A v : stream(v)' = stream(v) /\ mode(v)' = mode(v) /\ size(v)' = size(v)
      /\ \A v : By(v)' = By(v)
      /\ \A s : Of(s)' = Of(s) /\ StreamLength(s)' = StreamLength(s)
  BY DEF Saving, On, stream, mode, size, By, Of, StreamLength
<1>4. SaveShape' /\ LogSound'
  BY <1>1, <1>2, <1>3 DEF SaveShape, LogSound, DistinctIds
<1>5. Gapless'
  BY <1>1, <1>3 DEF Gapless, DistinctPositions
<1>6. SaverSound(w)'
  <2>1. PendingSound(w)'
    <3>1. pending[w] = {}
      BY <1>1 DEF SaverSound, PendingSound
    <3> QED BY <3>1, NothingPending
  <2>2. BatchSound(w)'
    BY <1>1, <1>2, <1>3 DEF SaverSound, BatchSound, BatchAt
  <2> QED BY <2>1, <2>2 DEF SaverSound
<1>7. ASSUME NEW v \in Saving, v # w PROVE SaverSound(v)'
  <2>1. Untouched(v)
    BY <1>2, <1>7 DEF Untouched
  <2> QED BY <1>1, <1>3, <1>7, <2>1, OtherSound
<1> QED BY <1>3, <1>4, <1>5, <1>6, <1>7 DEF SaveInv

\* Only the program counter moves.
LEMMA OnlyMoves ==
    ASSUME SaveInv, NEW w \in Saving, pc[w] \notin {"inserting", "done"},
           NEW q \in PCs \ {"done"}, pc' = [pc EXCEPT ![w] = q],
           UNCHANGED <<setup, table, nextId, currentVersion, nextVersion, pending, outcome, grpc>>,
           LocksHeld', q \in {"checked", "inserting"} => pc[w] = "checked",
           q \in {"idle", "called"} => pc[w] \in {"idle", "called"}
    PROVE  SaveInv'
<1>1. SaveShape /\ SaverSound(w) /\ pc'[w] = q
  BY DEF SaveInv, SaveShape
<1>2. /\ \A b : On(b)' <=> On(b)
      /\ stream(w)' = stream(w) /\ mode(w)' = mode(w) /\ By(w)' = By(w)
      /\ \A s : StreamLength(s)' = StreamLength(s)
  BY DEF On, stream, mode, By, Of, StreamLength
<1>3. VersionRead(w)'
  BY <1>1, <1>2 DEF SaverSound, VersionRead
<1>4. AttemptsSound(w)'
  BY <1>1, <1>2 DEF SaverSound, AttemptsSound
<1>5. /\ currentVersion' \in [Saving -> Nat]
      /\ grpc' \in [Saving -> [attempt : Nat, flying : SUBSET Nat,
                               answer : {"none", "written", "wrong"}]]
  BY <1>1 DEF SaveShape
<1> QED BY <1>3, <1>4, <1>5, SaveMoves

\* The version is read and as it must be.
LEMMA VersionChecked ==
    ASSUME SaveInv, NEW w \in Saving, ~On("kurrentdb"), pc[w] \notin {"inserting", "done"},
           NEW q \in {"checked", "inserting"}, pc' = [pc EXCEPT ![w] = q],
           currentVersion' = [currentVersion EXCEPT ![w] = StreamLength(stream(w))],
           Expected(mode(w), StreamLength(stream(w))),
           UNCHANGED <<setup, table, nextId, nextVersion, pending, outcome, grpc>>,
           LocksHeld'
    PROVE  SaveInv'
<1>1. /\ SaveShape /\ pc'[w] = q /\ q \in PCs \ {"done"}
      /\ StreamLength(stream(w)) \in Nat
  BY LengthFacts DEF SaveInv, SaveShape, PCs
<1>2. /\ \A b : On(b)' <=> On(b)
      /\ stream(w)' = stream(w) /\ mode(w)' = mode(w)
      /\ \A s : StreamLength(s)' = StreamLength(s)
  BY DEF On, stream, mode, Of, StreamLength
<1>3. /\ currentVersion' \in [Saving -> Nat]
      /\ currentVersion'[w] = StreamLength(stream(w))
      /\ \A v \in Saving : v # w => currentVersion'[v] = currentVersion[v]
      /\ grpc' \in [Saving -> [attempt : Nat, flying : SUBSET Nat,
                               answer : {"none", "written", "wrong"}]]
  BY <1>1 DEF SaveShape
<1>4. VersionRead(w)' /\ AttemptsSound(w)'
  BY <1>2, <1>3 DEF VersionRead, AttemptsSound
<1> QED BY <1>1, <1>3, <1>4, SaveMoves

\* A row is inserted behind the rows there are.
LEMMA RowInserted ==
    ASSUME SaveInv, NEW w \in Saving, ~On("kurrentdb"), pc[w] = "inserting",
           NEW row, row.id \in Nat \ {0}, row.by = w, row.stream = stream(w), row \in Rows,
           row.position = currentVersion[w] + Cardinality(pending[w]) + 1,
           \A x \in table \cup pending[w] : x.id < row.id,
           pending' = [pending EXCEPT ![w] = pending[w] \cup {row}],
           nextId' \in Nat, nextId' >= nextId, ~On("sqlite") => row.id < nextId',
           UNCHANGED <<setup, table, pc, currentVersion, nextVersion, outcome, grpc>>
    PROVE  SaveInv'
<1>1. /\ SaveShape /\ LogSound /\ LocksHeld /\ Gapless /\ SaverSound(w)
      /\ nextId \in Nat \ {0} /\ currentVersion[w] \in Nat
      /\ \A x \in table \cup pending[w] : x.id \in Nat
  BY DEF SaveInv, SaveShape, Rows
<1>2. /\ Saving' = Saving /\ \A b : On(b)' <=> On(b)
      /\ \A v : stream(v)' = stream(v) /\ mode(v)' = mode(v) /\ size(v)' = size(v)
      /\ \A v : By(v)' = By(v)
      /\ \A s : Of(s)' = Of(s) /\ StreamLength(s)' = StreamLength(s)
  BY DEF Saving, On, stream, mode, size, By, Of, StreamLength
<1>3. /\ pending' \in [Saving -> SUBSET Rows] /\ pending'[w] = pending[w] \cup {row}
      /\ \A v \in Saving : v # w => pending'[v] = pending[v]
  BY <1>1 DEF SaveShape
<1>4. SaveShape' /\ LogSound'
  BY <1>1, <1>2, <1>3 DEF SaveShape, LogSound, DistinctIds
<1>5. LocksHeld' /\ Gapless'
  BY <1>1, <1>2 DEF LocksHeld, Gapless, DistinctPositions
<1>6. PendingSound(w)'
  <2> DEFINE P == pending[w]
             c == Cardinality(P)
  <2>1. PendingSound(w) /\ IsFiniteSet(P) /\ c \in Nat /\ row \notin P
    BY <1>1, FS_CardinalityType DEF SaverSound, PendingSound
  <2>2. IsFiniteSet(P \cup {row}) /\ Cardinality(P \cup {row}) = c + 1
    BY <2>1, FS_AddElement
  <2>3. DistinctIds(P \cup {row})
    BY <1>1, <2>1 DEF PendingSound, DistinctIds
  <2>4. {x.position : x \in P} = currentVersion[w] + 1 .. currentVersion[w] + c
    BY <2>1 DEF PendingSound
  <2>5. {x.position : x \in P \cup {row}}
           = currentVersion[w] + 1 .. currentVersion[w] + (c + 1)
    <3>1. {x.position : x \in P \cup {row}} = {x.position : x \in P} \cup {row.position}
      OBVIOUS
    <3>2. row.position = currentVersion[w] + c + 1
      OBVIOUS
    <3> HIDE DEF c, P
    <3> QED BY <1>1, <2>1, <2>4, <3>1, <3>2
  <2>6. DistinctPositions(P \cup {row})
    <3>1. \A x \in P : x.position # row.position
      <4>1. \A x \in P : x.position \in currentVersion[w] + 1 .. currentVersion[w] + c
        BY <2>4
      <4> HIDE DEF c
      <4> QED BY <1>1, <2>1, <4>1 DEF c
    <3>2. DistinctPositions(P)
      BY <2>1 DEF PendingSound
    <3> QED BY <3>1, <3>2 DEF DistinctPositions
  <2>7. \A x \in P \cup {row} :
          /\ x.by = w /\ x.stream = stream(w)
          /\ \A y \in table : y.id < x.id
          /\ ~On("sqlite") => x.id < nextId'
    BY <1>1, <2>1 DEF PendingSound
  <2> QED BY <1>2, <1>3, <2>2, <2>3, <2>5, <2>6, <2>7 DEF PendingSound, DistinctIds,
          DistinctPositions
<1>7. SaverSound(w)'
  <2>1. VersionRead(w)'
    BY <1>1, <1>2 DEF SaverSound, VersionRead
  <2>2. BatchSound(w)'
    BY <1>1, <1>2 DEF SaverSound, BatchSound, BatchAt
  <2>3. AttemptsSound(w)'
    BY <1>2 DEF AttemptsSound
  <2> QED BY <1>6, <2>1, <2>2, <2>3 DEF SaverSound
<1>8. ASSUME NEW v \in Saving, v # w PROVE SaverSound(v)'
  <2>1. Untouched(v)
    BY <1>3, <1>8 DEF Untouched
  <2> QED BY <1>1, <1>2, <1>8, <2>1, OtherSound
<1> QED BY <1>2, <1>4, <1>5, <1>7, <1>8 DEF SaveInv

-----------------------------------------------------------------------------
(***************************************************************************)
(* The steps of a Save, store by store.                                      *)
(***************************************************************************)
LEMMA Rejected ==
    ASSUME NEW w
    PROVE  Rejection(w) \in {"conflict", "refused"}
BY DEF Rejection

LEMMA CallSaveKeeps ==
    ASSUME IInv, NEW w \in Saving, CallSave(w)
    PROVE  IInv'
<1>1. /\ pc[w] = "idle" /\ pc' = [pc EXCEPT ![w] = "called"] /\ "called" \in PCs \ {"done"}
      /\ UNCHANGED <<setup, table, nextId, currentVersion, nextVersion, pending, outcome, grpc>>
      /\ UNCHANGED <<readVars, load>>
  BY DEF CallSave, PCs
<1>2. /\ Saving' = Saving /\ \A b : On(b)' <=> On(b)
      /\ \A v : stream(v)' = stream(v)
  BY <1>1 DEF Saving, On, stream
<1>3. /\ SaveInv /\ pc'[w] = "called" /\ \A v \in Saving : v # w => pc'[v] = pc[v]
  BY <1>1 DEF IInv, SaveInv, SaveShape
<1>4. LocksHeld'
  BY <1>2, <1>3 DEF SaveInv, LocksHeld
<1>5. SaveInv'
  BY <1>1, <1>3, <1>4, OnlyMoves
<1>6. ReadInv' /\ LoadInv'
  BY <1>1, LogStays
<1> QED BY <1>5, <1>6 DEF IInv

\* What a transaction about to commit is sure of.
LEMMA CommitFacts ==
    ASSUME SaveInv, NEW w \in Saving, On("sqlite") \/ On("postgres"), pc[w] = "inserting",
           Cardinality(pending[w]) = size(w)
    PROVE  /\ BatchRows(pending[w], w, StreamLength(stream(w)))
           /\ currentVersion[w] = StreamLength(stream(w))
           /\ Expected(mode(w), StreamLength(stream(w)))
           /\ \A v \in Saving : v # w =>
                 pc[v] # "inserting" /\ (pc[v] = "checked" => stream(v) # stream(w))
           /\ ~On("sqlite") => \A x \in pending[w] : x.id < nextId
<1>1. PendingSound(w) /\ VersionRead(w) /\ pending[w] \in SUBSET Rows
  BY DEF SaveInv, SaverSound, SaveShape
<1>2. /\ currentVersion[w] = StreamLength(stream(w))
      /\ Expected(mode(w), StreamLength(stream(w)))
  BY <1>1 DEF VersionRead
<1>3. BatchRows(pending[w], w, StreamLength(stream(w)))
  BY <1>1, <1>2 DEF PendingSound, BatchRows
<1>4. ASSUME NEW v \in Saving, v # w
      PROVE  pc[v] # "inserting" /\ (pc[v] = "checked" => stream(v) # stream(w))
  BY <1>4 DEF SaveInv, LocksHeld, On
<1> QED BY <1>1, <1>2, <1>3, <1>4 DEF PendingSound

LEMMA BatchWritten ==
    ASSUME IInv, NEW w \in Saving, On("sqlite") \/ On("postgres"), pc[w] = "inserting",
           Cardinality(pending[w]) = size(w), table' = table \cup pending[w],
           NEW how \in {"saved", "failed"}, Ended(w, how),
           nextVersion' \in [Saving -> Nat],
           \A v \in Saving : v # w => nextVersion'[v] = nextVersion[v],
           how = "saved" => nextVersion'[w] = currentVersion[w] + size(w),
           UNCHANGED <<setup, nextId, currentVersion, grpc, readVars, load>>
    PROVE  IInv'
<1>1. /\ SaveInv /\ ~On("kurrentdb") /\ nextId \in Nat /\ currentVersion \in [Saving -> Nat]
      /\ setup' = setup /\ nextId' = nextId /\ currentVersion' = currentVersion /\ grpc' = grpc
  BY DEF IInv, SaveInv, SaveShape, On
<1> DEFINE n == StreamLength(stream(w))
           N == pending[w]
<1>2. /\ BatchRows(N, w, n) /\ currentVersion[w] = n /\ Expected(mode(w), n)
      /\ \A v \in Saving : v # w =>
            pc[v] # "inserting" /\ (pc[v] = "checked" => stream(v) # stream(w))
      /\ ~On("sqlite") => \A x \in N : x.id < nextId
  BY <1>1, CommitFacts
<1> HIDE DEF n, N
<1>3. SaveInv'
  BY <1>1, <1>2, SaveCommitted DEF n, N
<1>4. ReadInv' /\ LoadInv'
  BY <1>2, LogGrows DEF BatchRows, N
<1> QED BY <1>3, <1>4 DEF IInv

LEMMA LiteKeeps ==
    ASSUME IInv, NEW w \in Saving, On("sqlite"), Lite!SaveStep(w) \/ Lite!Fail(w)
    PROVE  IInv'
<1>1. /\ SaveInv /\ SaveShape /\ SaverSound(w) /\ nextId \in Nat /\ nextId >= nextId
      /\ currentVersion \in [Saving -> Nat] /\ ~On("kurrentdb") /\ ~On("postgres") /\ ~On("memory")
  BY DEF IInv, SaveInv, SaveShape, On
<1>2. \A how : Lite!Ended(w, how) => Ended(w, how)
  BY DEF Lite!Ended, Ended
<1>3. CASE Lite!Begin(w)
  <2>1. /\ pc[w] = "called" /\ pc' = [pc EXCEPT ![w] = "begun"] /\ "begun" \in PCs \ {"done"}
        /\ \A v \in Saving : pc[v] \notin {"begun", "inserting"}
        /\ UNCHANGED <<setup, table, nextId, currentVersion, nextVersion, pending, outcome, grpc>>
        /\ UNCHANGED <<readVars, load>>
    BY <1>3, LiteSame DEF Lite!Begin, Lite!Transactions, PCs, Lite!readVars, readVars
  <2>2. /\ Saving' = Saving /\ \A b : On(b)' <=> On(b)
        /\ \A v : stream(v)' = stream(v)
        /\ pc'[w] = "begun" /\ \A v \in Saving : v # w => pc'[v] = pc[v]
    BY <1>1, <2>1 DEF Saving, On, stream, SaveShape
  <2>3. LocksHeld'
    BY <1>1, <2>1, <2>2 DEF SaveInv, LocksHeld
  <2>4. SaveInv'
    BY <1>1, <2>1, <2>3, OnlyMoves
  <2> QED BY <2>1, <2>4, LogStays DEF IInv
<1>4. CASE Lite!CheckRevision(w)
  <2> DEFINE n == StreamLength(stream(w))
  <2>1. /\ pc[w] = "begun" /\ currentVersion' = [currentVersion EXCEPT ![w] = n]
        /\ \/ Expected(mode(w), n) /\ pc' = [pc EXCEPT ![w] = "inserting"]
              /\ UNCHANGED <<outcome, pending>>
           \/ Lite!Ended(w, Rejection(w))
        /\ UNCHANGED <<setup, table, nextId, nextVersion, grpc>>
        /\ UNCHANGED <<readVars, load>>
    BY <1>4, LiteSame DEF Lite!CheckRevision, Lite!readVars, readVars
  <2>2. /\ currentVersion' \in [Saving -> Nat]
        /\ \A v \in Saving : v # w => currentVersion'[v] = currentVersion[v]
    <3>1. n \in Nat
      BY <1>1, LengthFacts
    <3> QED BY <1>1, <2>1, <3>1
  <2>3. CASE Lite!Ended(w, Rejection(w))
    <3>1. Ended(w, Rejection(w)) /\ Rejection(w) \in {"conflict", "refused", "failed"}
      BY <1>2, <2>3, Rejected
    <3>2. SaveInv'
      BY <1>1, <2>1, <2>2, <3>1, SaveReleased
    <3> QED BY <2>1, <3>2, LogStays DEF IInv
  <2>4. CASE Expected(mode(w), n) /\ pc' = [pc EXCEPT ![w] = "inserting"]
             /\ UNCHANGED <<outcome, pending>>
    <3>1. /\ Saving' = Saving /\ \A b : On(b)' <=> On(b)
          /\ \A v : stream(v)' = stream(v)
          /\ pc'[w] = "inserting" /\ \A v \in Saving : v # w => pc'[v] = pc[v]
      BY <1>1, <2>1, <2>4 DEF Saving, On, stream, SaveShape
    <3>2. LocksHeld'
      BY <1>1, <2>1, <3>1 DEF SaveInv, LocksHeld
    <3>3. SaveInv'
      BY <1>1, <2>1, <2>4, <3>2, VersionChecked
    <3> QED BY <2>1, <3>3, LogStays DEF IInv
  <2> QED BY <2>1, <2>3, <2>4
<1>5. CASE Lite!Insert(w)
  <2> DEFINE row == [id |-> MaxOr0(Ids(table \cup pending[w])) + 1, stream |-> stream(w),
                     position |-> currentVersion[w] + Cardinality(pending[w]) + 1, by |-> w]
  <2>1. /\ pc[w] = "inserting"
        /\ \/ Lite!Ended(w, "conflict")
           \/ pending' = [pending EXCEPT ![w] = pending[w] \cup {row}] /\ UNCHANGED <<pc, outcome>>
        /\ UNCHANGED <<setup, table, nextId, currentVersion, nextVersion, grpc>>
        /\ UNCHANGED <<readVars, load>>
    BY <1>5, LiteSame DEF Lite!Insert, Lite!readVars, readVars
  <2>2. CASE Lite!Ended(w, "conflict")
    <3>1. Ended(w, "conflict")
      BY <1>2, <2>2
    <3>2. SaveInv'
      BY <1>1, <2>1, <3>1, SaveReleased
    <3> QED BY <2>1, <3>2, LogStays DEF IInv
  <2>3. CASE pending' = [pending EXCEPT ![w] = pending[w] \cup {row}] /\ UNCHANGED <<pc, outcome>>
    <3>1. IsFiniteSet(Ids(table \cup pending[w])) /\ Ids(table \cup pending[w]) \subseteq Nat
      <4>1. /\ IsFiniteSet(table \cup pending[w])
            /\ \A x \in table \cup pending[w] : x.id \in Nat
        <5>1. IsFiniteSet(table) /\ IsFiniteSet(pending[w])
          BY <1>1 DEF SaverSound, PendingSound, SaveShape
        <5>2. table \subseteq Rows /\ pending[w] \subseteq Rows
          BY <1>1 DEF SaveShape
        <5>3. \A x \in Rows : x.id \in Nat
          BY DEF Rows
        <5> QED BY <5>1, <5>2, <5>3, FS_Union
      <4> QED BY <4>1, IdsFinite
    <3>2. /\ MaxOr0(Ids(table \cup pending[w])) \in Nat
          /\ \A x \in table \cup pending[w] : x.id <= MaxOr0(Ids(table \cup pending[w]))
      BY <3>1, MaxOr0Facts DEF Ids
    <3>3. /\ Cardinality(pending[w]) \in Nat /\ w \in Savers /\ stream(w) \in Streams
          /\ currentVersion[w] \in Nat
      BY <1>1, FS_CardinalityType, CallFacts DEF SaverSound, PendingSound
    <3>4. /\ row.id \in Nat \ {0} /\ row.by = w /\ row.stream = stream(w) /\ row \in Rows
          /\ row.position = currentVersion[w] + Cardinality(pending[w]) + 1
      BY <3>2, <3>3 DEF Rows
    <3>5. \A x \in table \cup pending[w] : x.id < row.id
      <4>1. \A x \in table \cup pending[w] : x.id \in Nat
        BY <3>1 DEF Ids
      <4> DEFINE m == MaxOr0(Ids(table \cup pending[w]))
      <4>2. row.id = m + 1 /\ m \in Nat /\ \A x \in table \cup pending[w] : x.id <= m
        BY <3>2
      <4> HIDE DEF row, m
      <4> QED BY <4>1, <4>2
    <3> HIDE DEF row
    <3>6. SaveInv'
      BY <1>1, <2>1, <2>3, <3>4, <3>5, RowInserted
    <3> QED BY <2>1, <3>6, LogStays DEF IInv
  <2> QED BY <2>1, <2>2, <2>3
<1>6. CASE Lite!Commit(w)
  <2>1. /\ pc[w] = "inserting" /\ Cardinality(pending[w]) = size(w)
        /\ table' = table \cup pending[w]
        /\ nextVersion' = [nextVersion EXCEPT ![w] = currentVersion[w] + size(w)]
        /\ Lite!Ended(w, "saved")
        /\ UNCHANGED <<setup, nextId, currentVersion, grpc, readVars, load>>
    BY <1>6, LiteSame DEF Lite!Commit, Lite!readVars, readVars
  <2>2. size(w) \in Nat
    BY <1>1, CallFacts
  <2>3. /\ nextVersion' \in [Saving -> Nat] /\ nextVersion'[w] = currentVersion[w] + size(w)
        /\ \A v \in Saving : v # w => nextVersion'[v] = nextVersion[v]
    BY <1>1, <2>1, <2>2 DEF SaveShape
  <2>4. Ended(w, "saved")
    BY <1>2, <2>1
  <2> QED BY <2>1, <2>3, <2>4, BatchWritten
<1>7. CASE Lite!Fail(w)
  <2>1. /\ pc[w] # "done" /\ Lite!Ended(w, "failed")
        /\ \/ table' = table
           \/ /\ pc[w] = "inserting" /\ Cardinality(pending[w]) = size(w)
              /\ table' = table \cup pending[w]
        /\ UNCHANGED <<setup, nextId, currentVersion, nextVersion, grpc>>
        /\ UNCHANGED <<readVars, load>>
    BY <1>7, LiteSame DEF Lite!Fail, Lite!readVars, readVars
  <2>2. Ended(w, "failed")
    BY <1>2, <2>1
  <2>3. CASE table' = table
    <3>1. SaveInv'
      BY <1>1, <2>1, <2>2, <2>3, SaveReleased
    <3> QED BY <2>1, <2>3, <3>1, LogStays DEF IInv
  <2>4. CASE /\ pc[w] = "inserting" /\ Cardinality(pending[w]) = size(w)
             /\ table' = table \cup pending[w]
    <3>1. nextVersion' \in [Saving -> Nat] /\ nextVersion' = nextVersion
      BY <1>1, <2>1 DEF SaveShape
    <3> QED BY <2>1, <2>2, <2>4, <3>1, BatchWritten
  <2> QED BY <2>1, <2>3, <2>4
<1> QED BY <1>3, <1>4, <1>5, <1>6, <1>7 DEF Lite!SaveStep

LEMMA PgKeeps ==
    ASSUME IInv, NEW w \in Saving, On("postgres"), Pg!SaveStep(w) \/ Pg!Fail(w)
    PROVE  IInv'
<1>1. /\ SaveInv /\ SaveShape /\ SaverSound(w) /\ nextId \in Nat \ {0} /\ nextId >= nextId
      /\ currentVersion \in [Saving -> Nat] /\ ~On("kurrentdb") /\ ~On("sqlite") /\ ~On("memory")
  BY DEF IInv, SaveInv, SaveShape, On
<1>2. \A how : Pg!Ended(w, how) => Ended(w, how)
  BY DEF Pg!Ended, Ended
<1>3. ASSUME NEW from, NEW to, Pg!Step(w, from, to), from \notin {"inserting", "done"},
             to \in PCs \ {"done", "idle", "called", "waiting"},
             to = "inserting" => \A v \in Saving : pc[v] # "inserting",
             to \in {"checked", "inserting"} => from = "checked",
             to = "locked" => \A v \in Saving :
                 ~(hashtext[stream(v)] = hashtext[stream(w)]
                      /\ pc[v] \in {"locked", "checked", "inserting"})
      PROVE  IInv'
  <2>1. /\ pc[w] = from /\ pc' = [pc EXCEPT ![w] = to]
        /\ UNCHANGED <<setup, table, nextId, currentVersion, nextVersion, pending, outcome, grpc>>
        /\ UNCHANGED <<readVars, load>>
    BY <1>3 DEF Pg!Step, Pg!readVars, readVars
  <2>2. /\ Saving' = Saving /\ \A b : On(b)' <=> On(b)
        /\ \A v : stream(v)' = stream(v)
        /\ pc'[w] = to /\ \A v \in Saving : v # w => pc'[v] = pc[v]
    BY <1>1, <2>1 DEF Saving, On, stream, SaveShape
  <2>3. LocksHeld'
    BY <1>1, <1>3, <2>1, <2>2 DEF SaveInv, LocksHeld
  <2>4. SaveInv'
    BY <1>1, <1>3, <2>1, <2>3, OnlyMoves
  <2> QED BY <2>1, <2>4, LogStays DEF IInv
<1>4. CASE Pg!Begin(w)
  <2>1. Pg!Step(w, "called", "begun")
    BY <1>4 DEF Pg!Begin
  <2> QED BY <1>3, <2>1 DEF PCs
<1>5. CASE Pg!LockStream(w)
  <2>1. /\ Pg!Step(w, "begun", "locked")
        /\ \A v \in Saving : ~(hashtext[stream(v)] = hashtext[stream(w)]
                                  /\ pc[v] \in {"locked", "checked", "inserting"})
    BY <1>5, PgSame DEF Pg!LockStream, Pg!HoldsStreamLock
  <2> QED BY <1>3, <2>1 DEF PCs
<1>6. CASE Pg!LockAppend(w)
  <2>1. /\ Pg!Step(w, "checked", "inserting") /\ \A v \in Saving : pc[v] # "inserting"
    BY <1>6, PgSame DEF Pg!LockAppend, Pg!HoldsAppendLock
  <2> QED BY <1>3, <2>1 DEF PCs
<1>7. CASE Pg!CheckRevision(w)
  <2> DEFINE n == StreamLength(stream(w))
  <2>1. /\ pc[w] = "locked" /\ currentVersion' = [currentVersion EXCEPT ![w] = n]
        /\ \/ Expected(mode(w), n) /\ pc' = [pc EXCEPT ![w] = "checked"]
              /\ UNCHANGED <<outcome, pending>>
           \/ Pg!Ended(w, Rejection(w))
        /\ UNCHANGED <<setup, table, nextId, nextVersion, grpc>>
        /\ UNCHANGED <<readVars, load>>
    BY <1>7, PgSame DEF Pg!CheckRevision, Pg!readVars, readVars
  <2>2. /\ currentVersion' \in [Saving -> Nat]
        /\ \A v \in Saving : v # w => currentVersion'[v] = currentVersion[v]
    <3>1. n \in Nat
      BY <1>1, LengthFacts
    <3> QED BY <1>1, <2>1, <3>1
  <2>3. CASE Pg!Ended(w, Rejection(w))
    <3>1. Ended(w, Rejection(w)) /\ Rejection(w) \in {"conflict", "refused", "failed"}
      BY <1>2, <2>3, Rejected
    <3>2. SaveInv'
      BY <1>1, <2>1, <2>2, <3>1, SaveReleased
    <3> QED BY <2>1, <3>2, LogStays DEF IInv
  <2>4. CASE Expected(mode(w), n) /\ pc' = [pc EXCEPT ![w] = "checked"]
             /\ UNCHANGED <<outcome, pending>>
    <3>1. /\ Saving' = Saving /\ \A b : On(b)' <=> On(b)
          /\ \A v : stream(v)' = stream(v)
          /\ pc'[w] = "checked" /\ \A v \in Saving : v # w => pc'[v] = pc[v]
      BY <1>1, <2>1, <2>4 DEF Saving, On, stream, SaveShape
    <3>2. LocksHeld'
      BY <1>1, <2>1, <3>1 DEF SaveInv, LocksHeld
    <3>3. SaveInv'
      BY <1>1, <2>1, <2>4, <3>2, VersionChecked
    <3> QED BY <2>1, <3>3, LogStays DEF IInv
  <2> QED BY <2>1, <2>3, <2>4
<1>8. CASE Pg!Insert(w)
  <2> DEFINE row == [id |-> nextId, stream |-> stream(w), by |-> w,
                     position |-> currentVersion[w] + Cardinality(pending[w]) + 1]
  <2>1. /\ pc[w] = "inserting" /\ nextId' = nextId + 1
        /\ \/ Pg!Ended(w, "conflict")
           \/ pending' = [pending EXCEPT ![w] = pending[w] \cup {row}] /\ UNCHANGED <<pc, outcome>>
        /\ UNCHANGED <<setup, table, currentVersion, nextVersion, grpc>>
        /\ UNCHANGED <<readVars, load>>
    BY <1>8, PgSame DEF Pg!Insert, Pg!readVars, readVars
  <2>2. nextId' \in Nat /\ nextId' >= nextId /\ nextId < nextId'
    BY <1>1, <2>1
  <2>3. CASE Pg!Ended(w, "conflict")
    <3>1. Ended(w, "conflict")
      BY <1>2, <2>3
    <3>2. SaveInv'
      BY <1>1, <2>1, <2>2, <3>1, SaveReleased
    <3> QED BY <2>1, <3>2, LogStays DEF IInv
  <2>4. CASE pending' = [pending EXCEPT ![w] = pending[w] \cup {row}] /\ UNCHANGED <<pc, outcome>>
    <3>1. /\ Cardinality(pending[w]) \in Nat /\ w \in Savers /\ stream(w) \in Streams
          /\ currentVersion[w] \in Nat
      BY <1>1, FS_CardinalityType, CallFacts DEF SaverSound, PendingSound
    <3>2. /\ row.id \in Nat \ {0} /\ row.by = w /\ row.stream = stream(w) /\ row \in Rows
          /\ row.position = currentVersion[w] + Cardinality(pending[w]) + 1 /\ row.id = nextId
      BY <1>1, <3>1 DEF Rows
    <3>3. \A x \in table \cup pending[w] : x.id < row.id
      BY <1>1, <3>2 DEF SaveInv, LogSound, SaverSound, PendingSound
    <3> HIDE DEF row
    <3>4. SaveInv'
      BY <1>1, <2>1, <2>2, <2>4, <3>2, <3>3, RowInserted
    <3> QED BY <2>1, <3>4, LogStays DEF IInv
  <2> QED BY <2>1, <2>3, <2>4
<1>9. CASE Pg!Commit(w)
  <2>1. /\ pc[w] = "inserting" /\ Cardinality(pending[w]) = size(w)
        /\ table' = table \cup pending[w]
        /\ nextVersion' = [nextVersion EXCEPT ![w] = currentVersion[w] + size(w)]
        /\ Pg!Ended(w, "saved")
        /\ UNCHANGED <<setup, nextId, currentVersion, grpc, readVars, load>>
    BY <1>9, PgSame DEF Pg!Commit, Pg!readVars, readVars
  <2>2. size(w) \in Nat
    BY <1>1, CallFacts
  <2>3. /\ nextVersion' \in [Saving -> Nat] /\ nextVersion'[w] = currentVersion[w] + size(w)
        /\ \A v \in Saving : v # w => nextVersion'[v] = nextVersion[v]
    BY <1>1, <2>1, <2>2 DEF SaveShape
  <2>4. Ended(w, "saved")
    BY <1>2, <2>1
  <2> QED BY <2>1, <2>3, <2>4, BatchWritten
<1>10. CASE Pg!Fail(w)
  <2>1. /\ pc[w] # "done" /\ Pg!Ended(w, "failed")
        /\ \/ table' = table
           \/ /\ pc[w] = "inserting" /\ Cardinality(pending[w]) = size(w)
              /\ table' = table \cup pending[w]
        /\ UNCHANGED <<setup, nextId, currentVersion, nextVersion, grpc>>
        /\ UNCHANGED <<readVars, load>>
    BY <1>10, PgSame DEF Pg!Fail, Pg!InTransaction, Pg!readVars, readVars
  <2>2. Ended(w, "failed")
    BY <1>2, <2>1
  <2>3. CASE table' = table
    <3>1. SaveInv'
      BY <1>1, <2>1, <2>2, <2>3, SaveReleased
    <3> QED BY <2>1, <2>3, <3>1, LogStays DEF IInv
  <2>4. CASE /\ pc[w] = "inserting" /\ Cardinality(pending[w]) = size(w)
             /\ table' = table \cup pending[w]
    <3>1. nextVersion' \in [Saving -> Nat] /\ nextVersion' = nextVersion
      BY <1>1, <2>1 DEF SaveShape
    <3> QED BY <2>1, <2>2, <2>4, <3>1, BatchWritten
  <2> QED BY <2>1, <2>3, <2>4
<1> QED BY <1>4, <1>5, <1>6, <1>7, <1>8, <1>9, <1>10 DEF Pg!SaveStep

\* A batch written at once, by the in-memory store and by KurrentDB.
LEMMA BatchFacts ==
    ASSUME SaveInv, NEW w \in Saving, ~On("sqlite"), NEW n, n = StreamLength(stream(w))
    PROVE  /\ BatchRows(Batch(w, n), w, n)
           /\ \A x \in Batch(w, n) : x.id < nextId + size(w)
<1>1. /\ nextId \in Nat \ {0} /\ n \in Nat /\ size(w) \in Nat \ {0}
      /\ stream(w) \in Streams /\ w \in Savers
      /\ \A x \in table : x.id \in Nat /\ x.id < nextId
  BY CallFacts, LengthFacts, TableFacts DEF SaveInv, SaveShape, LogSound
<1> DEFINE k == size(w)
           N == Batch(w, n)
           row == [i \in 0 .. k - 1 |-> [id |-> nextId + i, stream |-> stream(w),
                                         position |-> n + i + 1, by |-> w]]
<1>2. /\ \A i \in 0 .. k - 1 : row[i] \in N
      /\ \A x \in N : \E i \in 0 .. k - 1 : x = row[i]
  BY DEF Batch
<1>3. \A i \in 0 .. k - 1 :
        /\ row[i] \in Rows /\ row[i].id = nextId + i /\ row[i].position = n + i + 1
        /\ row[i].by = w /\ row[i].stream = stream(w)
  BY <1>1 DEF Rows
<1>4. ExistsBijection(0 .. k - 1, N)
  <2>1. row \in [0 .. k - 1 -> N]
    BY <1>2
  <2>2. \A i, j \in 0 .. k - 1 : row[i] = row[j] => i = j
    <3> SUFFICES ASSUME NEW i \in 0 .. k - 1, NEW j \in 0 .. k - 1, row[i] = row[j]
                 PROVE  i = j
      OBVIOUS
    <3>1. nextId + i = nextId + j
      BY <1>3
    <3> QED BY <1>1, <3>1
  <2>3. DOMAIN row = 0 .. k - 1
    OBVIOUS
  <2> HIDE DEF row, N
  <2>4. row \in Injection(0 .. k - 1, N)
    BY <2>1, <2>2, <2>3, Zenon DEF Injection, IsInjective
  <2>5. row \in Surjection(0 .. k - 1, N)
    BY <1>2, <2>1, Zenon DEF Surjection
  <2> QED BY <2>4, <2>5, Zenon DEF Bijection, ExistsBijection
<1> HIDE DEF row, N
<1>5. IsFiniteSet(N) /\ Cardinality(N) = k
  <2>1. IsFiniteSet(0 .. k - 1) /\ Cardinality(0 .. k - 1) = k
    <3>1. 0 \in Int /\ k - 1 \in Int
      BY <1>1
    <3>2. IsFiniteSet(0 .. k - 1)
          /\ Cardinality(0 .. k - 1) = IF 0 > k - 1 THEN 0 ELSE (k - 1) - 0 + 1
      BY <3>1, FS_Interval, Zenon
    <3> QED BY <1>1, <3>2
  <2> QED BY <1>4, <2>1, FS_Bijection, Zenon
<1>6. N \in SUBSET Rows
  BY <1>2, <1>3
<1>7. \A x \in N : /\ x.by = w /\ x.stream = stream(w) /\ x.id < nextId + k
                   /\ \A y \in table : y.id < x.id
  BY <1>1, <1>2, <1>3
<1>8. DistinctIds(N) /\ DistinctPositions(N)
  <2> SUFFICES ASSUME NEW i \in 0 .. k - 1, NEW j \in 0 .. k - 1,
                      row[i].id = row[j].id \/ row[i].position = row[j].position
               PROVE  i = j
    BY <1>2 DEF DistinctIds, DistinctPositions
  <2> QED BY <1>1, <1>3
<1>9. {x.position : x \in N} = n + 1 .. n + k
  <2>1. ASSUME NEW x \in N PROVE x.position \in n + 1 .. n + k
    BY <1>1, <1>2, <1>3
  <2>2. ASSUME NEW p \in n + 1 .. n + k PROVE \E x \in N : x.position = p
    <3>1. p - n - 1 \in 0 .. k - 1 /\ n + (p - n - 1) + 1 = p
      BY <1>1
    <3> QED BY <1>2, <1>3, <3>1
  <2> QED BY <2>1, <2>2
<1> QED BY <1>5, <1>6, <1>7, <1>8, <1>9 DEF BatchRows, N

LEMMA MemKeeps ==
    ASSUME IInv, NEW w \in Saving, On("memory"), Mem!Save(w)
    PROVE  IInv'
<1>1. /\ SaveInv /\ SaveShape /\ LocksHeld /\ nextId \in Nat \ {0} /\ nextId >= nextId
      /\ currentVersion \in [Saving -> Nat] /\ nextVersion \in [Saving -> Nat]
      /\ ~On("kurrentdb") /\ ~On("sqlite") /\ size(w) \in Nat \ {0}
      /\ StreamLength(stream(w)) \in Nat
  BY CallFacts, LengthFacts DEF IInv, SaveInv, SaveShape, On
<1>2. \A how : Mem!Ended(w, how) => Ended(w, how)
  BY DEF Mem!Ended, Ended
<1> DEFINE n == StreamLength(stream(w))
           N == Batch(w, n)
<1>3. /\ pc[w] = "called" /\ currentVersion' = [currentVersion EXCEPT ![w] = n]
      /\ \/ /\ Expected(mode(w), n) /\ table' = table \cup N /\ nextId' = nextId + size(w)
            /\ nextVersion' = [nextVersion EXCEPT ![w] = n + size(w)] /\ Mem!Ended(w, "saved")
         \/ Mem!Ended(w, Rejection(w)) /\ UNCHANGED <<table, nextId, nextVersion>>
      /\ UNCHANGED <<setup, grpc>> /\ UNCHANGED <<readVars, load>>
  BY MemSame DEF Mem!Save, Mem!readVars, readVars
<1>4. BatchRows(N, w, n) /\ \A x \in N : x.id < nextId + size(w)
  BY <1>1, BatchFacts
<1> HIDE DEF n, N
<1>5. /\ currentVersion' \in [Saving -> Nat]
      /\ \A v \in Saving : v # w => currentVersion'[v] = currentVersion[v]
  BY <1>1, <1>3 DEF n
<1>6. CASE Mem!Ended(w, Rejection(w)) /\ UNCHANGED <<table, nextId, nextVersion>>
  <2>1. Ended(w, Rejection(w)) /\ Rejection(w) \in {"conflict", "refused", "failed"}
    BY <1>2, <1>6, Rejected
  <2>2. SaveInv'
    BY <1>1, <1>3, <1>5, <1>6, <2>1, SaveReleased
  <2> QED BY <1>3, <1>6, <2>2, LogStays DEF IInv
<1>7. CASE /\ Expected(mode(w), n) /\ table' = table \cup N /\ nextId' = nextId + size(w)
           /\ nextVersion' = [nextVersion EXCEPT ![w] = n + size(w)] /\ Mem!Ended(w, "saved")
  <2>1. Ended(w, "saved")
    BY <1>2, <1>7
  <2>2. /\ nextVersion' \in [Saving -> Nat] /\ nextVersion'[w] = n + size(w)
        /\ \A v \in Saving : v # w => nextVersion'[v] = nextVersion[v]
        /\ nextId' \in Nat /\ nextId' >= nextId
    BY <1>1, <1>7 DEF n
  <2>3. \A v \in Saving : pc[v] \notin {"inserting", "checked"}
    BY <1>1 DEF LocksHeld
  <2>4. SaveInv'
    BY <1>1, <1>3, <1>4, <1>5, <1>7, <2>1, <2>2, <2>3, SaveCommitted DEF n
  <2>5. ReadInv' /\ LoadInv'
    BY <1>3, <1>4, <1>7, LogGrows DEF BatchRows
  <2> QED BY <2>4, <2>5 DEF IInv
<1> QED BY <1>3, <1>6, <1>7

GrpcRecords ==
    [attempt : Nat, flying : SUBSET Nat, answer : {"none", "written", "wrong"}]

LEMMA KurrentKeeps ==
    ASSUME IInv, NEW w \in Saving, On("kurrentdb"), Kurrent!SaveStep(w)
    PROVE  IInv'
<1>1. /\ SaveInv /\ SaveShape /\ LocksHeld /\ SaverSound(w) /\ nextId \in Nat \ {0}
      /\ nextId >= nextId /\ grpc \in [Saving -> GrpcRecords]
      /\ currentVersion \in [Saving -> Nat] /\ nextVersion \in [Saving -> Nat]
      /\ ~On("postgres") /\ ~On("sqlite") /\ ~On("memory")
  BY DEF IInv, SaveInv, SaveShape, GrpcRecords, On
<1>2. \A how : Kurrent!Ended(w, how) => Ended(w, how)
  BY DEF Kurrent!Ended, Ended
<1>3. AttemptsSound(w) /\ BatchSound(w)
  BY <1>1 DEF SaverSound
<1>4. ASSUME NEW n \in Nat \ {0}, Kurrent!Send(w, n)
      PROVE  /\ grpc' \in [Saving -> GrpcRecords]
             /\ grpc'[w].attempt = n /\ grpc'[w].flying = grpc[w].flying \cup {n}
             /\ grpc'[w].answer = grpc[w].answer
             /\ \A v \in Saving : v # w => grpc'[v] = grpc[v]
  BY <1>1, <1>4 DEF Kurrent!Send, GrpcRecords
<1>5. CASE Kurrent!Append1(w)
  <2>1. /\ pc[w] = "called" /\ pc' = [pc EXCEPT ![w] = "waiting"] /\ Kurrent!Send(w, 1)
        /\ "waiting" \in PCs \ {"done"}
        /\ UNCHANGED <<setup, table, nextId, currentVersion, nextVersion, pending, outcome>>
        /\ UNCHANGED <<readVars, load>>
    BY <1>5 DEF Kurrent!Append1, PCs, Kurrent!readVars, readVars
  <2>2. /\ Saving' = Saving /\ \A b : On(b)' <=> On(b)
        /\ \A v : stream(v)' = stream(v) /\ By(v)' = By(v)
        /\ pc'[w] = "waiting" /\ \A v \in Saving : v # w => pc'[v] = pc[v]
    BY <1>1, <2>1 DEF Saving, On, stream, By, SaveShape
  <2>3. LocksHeld' /\ VersionRead(w)'
    BY <1>1, <2>1, <2>2 DEF LocksHeld, VersionRead
  <2>4. AttemptsSound(w)'
    BY <1>3, <1>4, <2>1, <2>2 DEF AttemptsSound, BatchSound
  <2>5. SaveInv'
    <3>1. /\ grpc' \in [Saving -> GrpcRecords]
          /\ \A v \in Saving : v # w => grpc'[v] = grpc[v]
      BY <1>4, <2>1
    <3>2. /\ pc[w] \notin {"inserting", "done"} /\ currentVersion' \in [Saving -> Nat]
          /\ \A v \in Saving : v # w => currentVersion'[v] = currentVersion[v]
      BY <1>1, <2>1
    <3> QED BY <1>1, <2>1, <2>3, <2>4, <3>1, <3>2, SaveMoves DEF GrpcRecords
  <2> QED BY <2>1, <2>5, LogStays DEF IInv
<1>6. CASE Kurrent!Retry(w)
  <2> DEFINE n == grpc[w].attempt + 1
  <2>1. /\ pc[w] = "waiting" /\ grpc[w].answer = "none" /\ Kurrent!Send(w, n)
        /\ UNCHANGED <<setup, table, nextId, pc, currentVersion, nextVersion, pending, outcome>>
        /\ UNCHANGED <<readVars, load>>
    BY <1>6 DEF Kurrent!Retry, Kurrent!readVars, readVars
  <2>2. /\ Saving' = Saving /\ \A b : On(b)' <=> On(b)
        /\ \A v : stream(v)' = stream(v) /\ By(v)' = By(v)
        /\ pc' = [pc EXCEPT ![w] = "waiting"] /\ "waiting" \in PCs \ {"done"}
    BY <1>1, <2>1 DEF Saving, On, stream, By, SaveShape, PCs
  <2>3. n \in Nat \ {0} /\ grpc[w].attempt \in Nat
    BY <1>1 DEF GrpcRecords
  <2>4. LocksHeld' /\ VersionRead(w)'
    BY <1>1, <2>1, <2>2 DEF LocksHeld, VersionRead
  <2>5. /\ grpc' \in [Saving -> GrpcRecords]
        /\ grpc'[w].attempt = n /\ grpc'[w].flying = grpc[w].flying \cup {n}
        /\ grpc'[w].answer = grpc[w].answer
        /\ \A v \in Saving : v # w => grpc'[v] = grpc[v]
    BY <1>4, <2>1, <2>3
  <2>6. AttemptsSound(w)'
    <3>1. grpc[w].flying \cup {n} \subseteq 1 .. n
      BY <1>3, <2>3 DEF AttemptsSound
    <3> QED BY <1>3, <2>1, <2>2, <2>3, <2>5, <3>1 DEF AttemptsSound, BatchSound
  <2>7. SaveInv'
    BY <1>1, <2>1, <2>2, <2>4, <2>5, <2>6, SaveMoves DEF GrpcRecords
  <2> QED BY <2>1, <2>7, LogStays DEF IInv
<1>7. CASE Kurrent!GiveUp(w)
  <2>1. /\ pc[w] = "waiting" /\ Kurrent!Ended(w, "failed")
        /\ UNCHANGED <<setup, table, nextId, currentVersion, nextVersion, grpc>>
        /\ UNCHANGED <<readVars, load>>
    BY <1>7 DEF Kurrent!GiveUp, Kurrent!readVars, readVars
  <2>2. Ended(w, "failed")
    BY <1>2, <2>1
  <2>3. SaveInv'
    BY <1>1, <2>1, <2>2, SaveReleased
  <2> QED BY <2>1, <2>3, LogStays DEF IInv
<1>8. CASE Kurrent!Answered(w)
  <2> DEFINE last == Max({x.position - 1 : x \in By(w)})
  <2>1. /\ pc[w] = "waiting"
        /\ \/ /\ grpc[w].answer = "written" /\ nextVersion' = [nextVersion EXCEPT ![w] = last + 1]
              /\ Kurrent!Ended(w, "saved")
           \/ /\ grpc[w].answer = "wrong" /\ nextVersion' = nextVersion
              /\ Kurrent!Ended(w, Rejection(w))
        /\ UNCHANGED <<setup, table, nextId, currentVersion, grpc>>
        /\ UNCHANGED <<readVars, load>>
    <3>1. grpc[w].answer \in {"none", "written", "wrong"}
      BY <1>1 DEF GrpcRecords
    <3>2. Kurrent!Max({x.position - 1 : x \in Kurrent!By(w)}) = last
      BY KurrentSame
    <3> HIDE DEF last
    <3> QED BY <1>8, <3>1, <3>2, KurrentSame DEF Kurrent!Answered, Kurrent!readVars, readVars
  <2>2. CASE /\ grpc[w].answer = "wrong" /\ nextVersion' = nextVersion
             /\ Kurrent!Ended(w, Rejection(w))
    <3>1. Ended(w, Rejection(w)) /\ Rejection(w) \in {"conflict", "refused", "failed"}
      BY <1>2, <2>2, Rejected
    <3>2. SaveInv'
      BY <1>1, <2>1, <2>2, <3>1, SaveReleased
    <3> QED BY <2>1, <3>2, LogStays DEF IInv
  <2>3. CASE /\ grpc[w].answer = "written" /\ nextVersion' = [nextVersion EXCEPT ![w] = last + 1]
             /\ Kurrent!Ended(w, "saved")
    <3>1. By(w) # {}
      BY <1>3, <2>3 DEF AttemptsSound
    <3>2. PICK n \in Nat : BatchAt(w, n)
      BY <1>3, <3>1 DEF BatchSound
    <3>3. size(w) \in Nat \ {0} /\ \A x \in By(w) : x.position \in Nat \ {0}
      BY <1>1, CallFacts, TableFacts DEF By
    <3>4. last + 1 = n + size(w)
      <4> DEFINE D == {x.position - 1 : x \in By(w)}
                 P == {x.position : x \in By(w)}
      <4>1. P = n + 1 .. n + size(w)
        BY <3>2 DEF BatchAt
      <4>2. \A d \in D : d + 1 \in P /\ d \in Nat
        BY <3>3
      <4>3. \A p \in P : p - 1 \in D
        OBVIOUS
      <4> HIDE DEF D, P
      <4>4. D = n .. n + size(w) - 1
        <5>1. \A d \in D : d \in n .. n + size(w) - 1
          BY <3>3, <4>1, <4>2
        <5>2. ASSUME NEW d \in n .. n + size(w) - 1 PROVE d \in D
          <6>1. d + 1 \in P /\ (d + 1) - 1 = d
            BY <3>3, <4>1
          <6> QED BY <4>3, <6>1
        <5> QED BY <5>1, <5>2
      <4>5. n + size(w) - 1 \in Int /\ n \in Int
        BY <3>3
      <4>6. IsFiniteSet(n .. n + size(w) - 1)
        BY <4>5, FS_Interval, Zenon
      <4>7. IsFiniteSet(D) /\ D \subseteq Nat /\ D # {}
        <5>1. n \in D
          BY <3>3, <4>4
        <5>2. D \subseteq Nat
          BY <4>2
        <5> QED BY <4>4, <4>6, <5>1, <5>2
      <4>8. Max(D) \in D /\ Max(D) \in Nat /\ \A y \in D : y <= Max(D)
        BY <4>7, MaxFacts
      <4>9. Max(D) + 1 = n + size(w)
        BY <3>3, <4>4, <4>8
      <4> QED BY <4>9 DEF D
    <3> HIDE DEF last
    <3>5. /\ Ended(w, "saved") /\ "saved" \in {"saved", "conflict", "refused", "failed"}
      BY <1>2, <2>3
    <3>6. /\ pc' \in [Saving -> PCs] /\ pending' \in [Saving -> SUBSET Rows]
          /\ outcome' \in [Saving -> {"none", "saved", "conflict", "refused", "failed"}]
          /\ pc'[w] = "done" /\ outcome'[w] = "saved" /\ pending'[w] = {}
          /\ \A v \in Saving : v # w =>
                pc'[v] = pc[v] /\ outcome'[v] = outcome[v] /\ pending'[v] = pending[v]
      BY <1>1, <3>5, EndedFacts
    <3>7. /\ nextVersion' \in [Saving -> Nat] /\ nextVersion'[w] = n + size(w)
          /\ \A v \in Saving : v # w => nextVersion'[v] = nextVersion[v]
      BY <1>1, <2>3, <3>3, <3>4
    <3>8. /\ Saving' = Saving /\ \A b : On(b)' <=> On(b)
          /\ \A v : stream(v)' = stream(v) /\ mode(v)' = mode(v) /\ size(v)' = size(v)
          /\ \A v : By(v)' = By(v)
          /\ \A s : Of(s)' = Of(s) /\ StreamLength(s)' = StreamLength(s)
      BY <2>1 DEF Saving, On, stream, mode, size, By, Of, StreamLength
    <3>9. SaveShape' /\ LogSound'
      BY <1>1, <2>1, <3>6, <3>7, <3>8 DEF SaveInv, SaveShape, LogSound, DistinctIds
    <3>10. LocksHeld'
      BY <1>1, <2>1, <3>6, LocksReleased
    <3>11. Gapless'
      BY <1>1, <3>8 DEF SaveInv, Gapless, DistinctPositions
    <3>12. SaverSound(w)'
      <4>1. PendingSound(w)'
        BY <1>1, <2>1, <3>6, NothingPending
      <4>2. VersionRead(w)'
        BY <3>6 DEF VersionRead
      <4>3. BatchAt(w, n)'
        BY <3>2, <3>6, <3>7, <3>8 DEF BatchAt
      <4>4. BatchSound(w)'
        BY <1>1, <1>3, <3>1, <3>6, <3>8, <4>3 DEF BatchSound
      <4>5. AttemptsSound(w)'
        BY <1>3, <2>1, <3>6, <3>8 DEF AttemptsSound
      <4> QED BY <4>1, <4>2, <4>4, <4>5 DEF SaverSound
    <3>13. ASSUME NEW v \in Saving, v # w PROVE SaverSound(v)'
      <4>1. Untouched(v)
        BY <2>1, <3>6, <3>7, <3>13 DEF Untouched
      <4> QED BY <1>1, <2>1, <3>8, <3>13, <4>1, OtherSound
    <3>14. SaveInv'
      BY <3>8, <3>9, <3>10, <3>11, <3>12, <3>13 DEF SaveInv
    <3> QED BY <2>1, <3>14, LogStays DEF IInv
  <2> QED BY <2>1, <2>2, <2>3
<1> QED BY <1>5, <1>6, <1>7, <1>8 DEF Kurrent!SaveStep

\* KurrentDB never sees the package's own stream states: it compares with the
\* last event number, and accepts just what the package expects.
LEMMA ServerExpectsIt ==
    ASSUME SaveShape, NEW w \in Saving, NEW n \in Nat,
           Kurrent!ServerExpects(Kurrent!ToStreamState(w), n)
    PROVE  Expected(mode(w), n)
<1>1. mode(w) \in StreamStates /\ Kurrent!mode(w) = mode(w)
  BY CallFacts, KurrentSame
<1>2. /\ mode(w).kind \in {"Any", "NoStream", "StreamExists", "Revision"}
      /\ mode(w).rev \in Nat
  BY <1>1 DEF StreamStates
<1>3. CASE mode(w).kind # "Revision"
  <2>1. Kurrent!ToStreamState(w) = mode(w)
    BY <1>1, <1>3 DEF Kurrent!ToStreamState
  <2> QED BY <1>3, <2>1 DEF Kurrent!ServerExpects, Expected
<1>4. CASE mode(w).kind = "Revision" /\ mode(w).rev = 0
  <2>1. Kurrent!ToStreamState(w) = [kind |-> "NoStream", rev |-> 0]
    BY <1>1, <1>4 DEF Kurrent!ToStreamState, Kurrent!NoStream
  <2> QED BY <1>4, <2>1 DEF Kurrent!ServerExpects, Expected
<1>5. CASE mode(w).kind = "Revision" /\ mode(w).rev # 0
  <2>1. Kurrent!ToStreamState(w) = [kind |-> "Revision", rev |-> mode(w).rev - 1]
    BY <1>1, <1>5 DEF Kurrent!ToStreamState, Kurrent!Revision
  <2>2. n - 1 = mode(w).rev - 1
    BY <2>1 DEF Kurrent!ServerExpects
  <2> QED BY <1>2, <1>5, <2>2 DEF Expected
<1> QED BY <1>3, <1>4, <1>5

LEMMA ServeKeeps ==
    ASSUME IInv, NEW w \in Saving, On("kurrentdb"), NEW a \in grpc[w].flying,
           Kurrent!Serve(w, a)
    PROVE  IInv'
<1>1. /\ SaveInv /\ SaveShape /\ LogSound /\ LocksHeld /\ Gapless /\ SaverSound(w)
      /\ nextId \in Nat \ {0} /\ nextId >= nextId /\ grpc \in [Saving -> GrpcRecords]
      /\ ~On("postgres") /\ ~On("sqlite") /\ ~On("memory")
      /\ size(w) \in Nat \ {0} /\ StreamLength(stream(w)) \in Nat
  BY CallFacts, LengthFacts DEF IInv, SaveInv, SaveShape, GrpcRecords, On
<1> DEFINE n == StreamLength(stream(w))
           N == Batch(w, n)
           Accepted == By(w) # {} \/ Kurrent!ServerExpects(Kurrent!ToStreamState(w), n)
           Heard == pc[w] = "waiting" /\ a = grpc[w].attempt
           answer == IF Accepted THEN "written" ELSE "wrong"
<1>2. /\ \/ Accepted /\ By(w) = {} /\ table' = table \cup N /\ nextId' = nextId + size(w)
         \/ ~(Accepted /\ By(w) = {}) /\ UNCHANGED <<table, nextId>>
      /\ \/ /\ Heard
            /\ grpc' = [grpc EXCEPT ![w].flying = @ \ {a}, ![w].answer = answer]
         \/ grpc' = [grpc EXCEPT ![w].flying = @ \ {a}]
      /\ UNCHANGED <<setup, pc, currentVersion, nextVersion, pending, outcome>>
      /\ UNCHANGED <<readVars, load>>
  BY KurrentSame DEF Kurrent!Serve, Kurrent!readVars, readVars
<1>3. Accepted /\ By(w) = {} => Expected(mode(w), n)
  BY <1>1, ServerExpectsIt
<1>4. answer \in {"written", "wrong"} /\ (answer = "written" <=> Accepted)
  OBVIOUS
<1>5. BatchRows(N, w, n) /\ \A x \in N : x.id < nextId + size(w)
  BY <1>1, BatchFacts
<1> HIDE DEF n, N, Accepted, Heard, answer
<1>6. /\ grpc' \in [Saving -> GrpcRecords]
      /\ grpc'[w].attempt = grpc[w].attempt /\ grpc'[w].flying = grpc[w].flying \ {a}
      /\ grpc'[w].answer = grpc[w].answer \/ (Heard /\ grpc'[w].answer = answer)
      /\ \A v \in Saving : v # w => grpc'[v] = grpc[v]
  BY <1>1, <1>2, <1>4 DEF GrpcRecords
<1>7. /\ Saving' = Saving /\ \A b : On(b)' <=> On(b)
      /\ \A v : stream(v)' = stream(v) /\ mode(v)' = mode(v) /\ size(v)' = size(v)
  BY <1>2 DEF Saving, On, stream, mode, size
<1>8. LocksHeld' /\ VersionRead(w)'
  BY <1>1, <1>2, <1>7 DEF LocksHeld, VersionRead
<1>9. ASSUME NEW v \in Saving PROVE pending[v] = {} /\ pc[v] \notin {"checked", "inserting"}
  BY <1>1 DEF LocksHeld, SaveInv, SaverSound, PendingSound
<1>10. PendingSound(w)'
  <2>1. pending'[w] = {} /\ currentVersion'[w] \in Nat
    BY <1>1, <1>2, <1>9 DEF SaveShape
  <2> QED BY <1>1, <2>1, NothingPending
<1>11. AttemptsSound(w) /\ BatchSound(w) /\ grpc[w].attempt \in Nat
       /\ grpc[w].flying \in SUBSET Nat
  BY <1>1 DEF SaverSound, GrpcRecords
<1>12. /\ a \in 1 .. grpc[w].attempt /\ grpc[w].attempt # 0
       /\ pc[w] \notin {"idle", "called"}
       /\ grpc[w].attempt < 2 => grpc[w].flying \ {a} = {} /\ grpc[w].answer # "wrong"
  BY <1>1, <1>11 DEF AttemptsSound
<1>13. CASE ~(Accepted /\ By(w) = {}) /\ UNCHANGED <<table, nextId>>
  <2>1. /\ \A v : By(v)' = By(v)
        /\ \A s : Of(s)' = Of(s) /\ StreamLength(s)' = StreamLength(s)
    BY <1>13 DEF By, Of, StreamLength
  <2>2. SaveShape' /\ LogSound' /\ Gapless'
    BY <1>1, <1>2, <1>6, <1>7, <1>13, <2>1 DEF SaveShape, LogSound, Gapless, DistinctIds,
       DistinctPositions, GrpcRecords
  <2>3. BatchSound(w)'
    BY <1>2, <1>7, <1>11, <2>1 DEF BatchSound, BatchAt
  <2>4. (answer = "written" => By(w) # {}) /\ (answer = "wrong" => By(w) = {})
    BY <1>4, <1>13 DEF Accepted
  <2>5. AttemptsSound(w)'
    <3>1. outcome[w] \in {"conflict", "refused"} => pc[w] = "done"
      BY <1>11 DEF BatchSound
    <3> QED BY <1>2, <1>4, <1>6, <1>7, <1>11, <1>12, <2>1, <2>4, <3>1 DEF AttemptsSound, Heard
  <2>6. SaverSound(w)'
    BY <1>8, <1>10, <2>3, <2>5 DEF SaverSound
  <2>7. ASSUME NEW v \in Saving, v # w PROVE SaverSound(v)'
    <3>1. Untouched(v)
      BY <1>2, <1>6, <2>7 DEF Untouched
    <3>2. nextId' \in Nat /\ nextId' >= nextId /\ table' = table
      BY <1>1, <1>13
    <3>3. By(v)' = By(v) /\ StreamLength(stream(v))' = StreamLength(stream(v))
      BY <1>7, <2>1
    <3> QED BY <1>1, <1>2, <3>1, <3>2, <3>3, OtherSound
  <2>8. SaveInv'
    BY <1>7, <1>8, <2>2, <2>6, <2>7 DEF SaveInv
  <2> QED BY <1>2, <1>13, <2>8, LogStays DEF IInv
<1>14. CASE Accepted /\ By(w) = {} /\ table' = table \cup N /\ nextId' = nextId + size(w)
  <2>1. /\ table' \in SUBSET Rows /\ IsFiniteSet(table') /\ DistinctIds(table)'
        /\ Gapless' /\ By(w)' = N /\ N # {}
        /\ \A v \in Saving : v # w => By(v)' = By(v)
        /\ \A s : s # stream(w) => StreamLength(s)' = StreamLength(s)
    BY <1>1, <1>2, <1>5, <1>14, Appended DEF n
  <2>2. SaveShape'
    BY <1>1, <1>2, <1>6, <1>7, <1>14, <2>1 DEF SaveShape, GrpcRecords
  <2>3. LogSound'
    <3>1. \A x \in table : x.id \in Nat
      BY <1>1, TableFacts
    <3>2. \A x \in table \cup N : x.id < nextId'
      BY <1>1, <1>5, <1>14, <3>1 DEF LogSound
    <3> QED BY <1>14, <2>1, <3>2 DEF LogSound
  <2>4. BatchSound(w)'
    <3>1. outcome[w] # "saved"
      BY <1>11, <1>14 DEF BatchSound
    <3>2. \E m \in Nat : BatchAt(w, m)'
      <4>1. PICK m \in Nat : m = n
        BY <1>1 DEF n
      <4>2. Cardinality(N) = size(w) /\ {x.position : x \in N} = m + 1 .. m + size(w)
        BY <1>5, <4>1 DEF BatchRows
      <4>3. Expected(mode(w), m) /\ outcome' = outcome /\ By(w)' = N
        BY <1>2, <1>3, <1>14, <2>1, <4>1
      <4>4. BatchAt(w, m)'
        BY <1>7, <3>1, <4>2, <4>3 DEF BatchAt
      <4> QED BY <4>4
    <3>3. \A x \in By(w)' : x.stream = stream(w)
      BY <1>5, <2>1 DEF BatchRows
    <3>4. outcome' = outcome /\ pc' = pc /\ By(w)' # {} /\ stream(w)' = stream(w)
      BY <1>2, <1>7, <2>1
    <3> QED BY <1>1, <1>7, <1>11, <3>1, <3>2, <3>3, <3>4 DEF BatchSound
  <2>5. AttemptsSound(w)'
    <3>1. outcome[w] \in {"conflict", "refused"} => pc[w] = "done"
      BY <1>11 DEF BatchSound
    <3>2. answer = "written"
      BY <1>4, <1>14
    <3> QED BY <1>2, <1>6, <1>7, <1>11, <1>12, <2>1, <3>1, <3>2 DEF AttemptsSound, Heard
  <2>6. SaverSound(w)'
    BY <1>8, <1>10, <2>4, <2>5 DEF SaverSound
  <2>7. ASSUME NEW v \in Saving, v # w PROVE SaverSound(v)'
    <3>1. Untouched(v)
      BY <1>2, <1>6, <2>7 DEF Untouched
    <3>2. nextId' \in Nat /\ nextId' >= nextId
      BY <1>1, <1>14
    <3> QED BY <1>1, <1>2, <1>9, <2>1, <2>7, <3>1, <3>2, OtherSound
  <2>8. SaveInv'
    BY <1>7, <1>8, <2>1, <2>2, <2>3, <2>6, <2>7 DEF SaveInv
  <2>9. ReadInv' /\ LoadInv'
    BY <1>2, <1>5, <1>14, LogGrows DEF BatchRows
  <2> QED BY <2>8, <2>9 DEF IInv
<1> QED BY <1>2, <1>13, <1>14

LEMMA SystemRecordKeeps ==
    ASSUME IInv, On("kurrentdb"), Kurrent!SystemRecord
    PROVE  IInv'
<1>1. /\ SaveInv /\ SaveShape /\ LogSound /\ LocksHeld /\ Gapless
      /\ nextId \in Nat \ {0} /\ ~On("sqlite") /\ System \notin Streams
      /\ \A x \in table : x.id \in Nat /\ x.id < nextId
  BY TableFacts, EventLogAssumption DEF IInv, SaveInv, SaveShape, LogSound, On
<1> DEFINE row == [id |-> nextId, stream |-> System, by |-> System,
                   position |-> Cardinality(By(System)) + 1]
           N == {row}
<1>2. /\ table' = table \cup N /\ nextId' = nextId + 1
      /\ UNCHANGED <<setup, pc, currentVersion, nextVersion, pending, outcome, grpc>>
      /\ UNCHANGED <<readVars, load>>
  BY KurrentSame DEF Kurrent!SystemRecord, Kurrent!readVars, readVars
<1>3. Cardinality(By(System)) \in Nat
  <2>1. By(System) \in SUBSET table
    BY DEF By
  <2> QED BY <1>1, <2>1, TableFacts, FS_CardinalityType
<1>4. /\ N \in SUBSET Rows /\ IsFiniteSet(N) /\ row.id = nextId
      /\ row.stream = System /\ row.by = System
  <2>1. row \in Rows
    BY <1>1, <1>3 DEF Rows
  <2>2. IsFiniteSet(N)
    BY FS_Singleton
  <2> QED BY <2>1, <2>2
<1>5. \A x \in N : x = row
  OBVIOUS
<1> HIDE DEF row, N
<1>6. \A x \in N, y \in table : y.id < x.id
  BY <1>1, <1>4, <1>5
<1>7. /\ Saving' = Saving /\ \A b : On(b)' <=> On(b)
      /\ \A v : stream(v)' = stream(v)
  BY <1>2 DEF Saving, On, stream
<1>8. SaveShape'
  <2>1. table' \in SUBSET Rows /\ IsFiniteSet(table')
    BY <1>1, <1>2, <1>4, FS_Union DEF SaveShape
  <2> QED BY <1>1, <1>2, <1>7, <2>1 DEF SaveShape
<1>9. LogSound'
  <2>1. \A x \in table \cup N : x.id < nextId'
    BY <1>1, <1>2, <1>4, <1>5
  <2>2. DistinctIds(table)'
    BY <1>1, <1>2, <1>4, <1>5, <1>6 DEF LogSound, DistinctIds
  <2> QED BY <1>2, <2>1, <2>2 DEF LogSound
<1>10. LocksHeld'
  BY <1>1, <1>2, <1>7 DEF LocksHeld
<1>11. \A s \in Streams : Of(s)' = Of(s) /\ StreamLength(s)' = StreamLength(s)
  <2>1. \A s \in Streams : Of(s)' = Of(s)
    BY <1>1, <1>2, <1>4, <1>5 DEF Of
  <2> QED BY <2>1 DEF StreamLength
<1>12. Gapless'
  BY <1>1, <1>11 DEF Gapless, DistinctPositions
<1>13. ASSUME NEW v \in Saving PROVE SaverSound(v)'
  <2>1. stream(v) \in Streams /\ v # System
    BY <1>1, CallFacts
  <2>2. By(v)' = By(v)
    BY <1>2, <1>4, <1>5, <2>1 DEF By
  <2>3. pending[v] = {} /\ pc[v] \notin {"checked", "inserting"}
    BY <1>1 DEF LocksHeld, SaveInv, SaverSound, PendingSound
  <2>4. Untouched(v)
    BY <1>2 DEF Untouched
  <2>5. nextId' \in Nat /\ nextId' >= nextId
    BY <1>1, <1>2
  <2> QED BY <1>1, <1>2, <2>2, <2>3, <2>4, <2>5, OtherSound
<1>14. SaveInv'
  BY <1>7, <1>8, <1>9, <1>10, <1>12, <1>13 DEF SaveInv
<1>15. ReadInv' /\ LoadInv'
  BY <1>2, <1>4, <1>6, LogGrows
<1> QED BY <1>14, <1>15 DEF IInv

-----------------------------------------------------------------------------
(***************************************************************************)
(* The steps of a load.                                                      *)
(***************************************************************************)
LoadFrame == UNCHANGED <<setup, table, saveVars, readVars>>

\* A load that moves leaves the others as they are.
LEMMA LoadMoves ==
    ASSUME IInv, NEW l \in Loading, NEW rec \in LoadRecords, LoadSound(l, rec),
           load' = [load EXCEPT ![l] = rec], UNCHANGED <<setup, table>>
    PROVE  LoadInv'
<1>1. load \in [Loading -> LoadRecords] /\ \A k \in Loading : LoadSound(k, load[k])
  BY DEF IInv, LoadInv
<1>2. /\ Loading' = Loading /\ load' \in [Loading -> LoadRecords] /\ load'[l] = rec
      /\ \A k \in Loading : k # l => load'[k] = load[k]
  BY <1>1 DEF Loading
<1>3. /\ \A b : On(b)' <=> On(b)
      /\ \A k : Asked(k)' = Asked(k) /\ From(k)' = From(k)
  BY DEF On, Asked, From, Of, Hits
<1>4. ASSUME NEW k \in Loading PROVE LoadSound(k, load[k])'
  <2>1. PICK r \in LoadRecords : r = load'[k]
    BY <1>2
  <2>2. LoadSound(k, r)
    BY <1>1, <1>2, <2>1
  <2>3. LoadSound(k, r)'
    BY <1>3, <2>2 DEF LoadSound, Whole, InOrder, Given, Ids
  <2> QED BY <2>1, <2>3
<1> QED BY <1>2, <1>4 DEF LoadInv

\* The events given so far are whole by themselves.
LEMMA GivenIsWhole ==
    ASSUME IInv, NEW l \in Loading
    PROVE  /\ Whole(l, Given(load[l])) /\ LoadSound(l, load[l]) /\ load[l] \in LoadRecords
           /\ Given(load[l]) \subseteq Nat
           /\ \A x \in Asked(l) : x \in Rows /\ x.id \in Nat \ {0} /\ x.position \in Nat \ {0}
<1>1. LoadSound(l, load[l]) /\ load[l] \in LoadRecords /\ SaveInv
  BY DEF IInv, LoadInv
<1>2. Asked(l) \subseteq table
  BY DEF Asked, Of, Hits
<1>3. \A x \in Asked(l) : x \in Rows /\ x.id \in Nat \ {0} /\ x.position \in Nat \ {0}
  BY <1>1, <1>2 DEF SaveInv, SaveShape, Rows
<1>4. Whole(l, Given(load[l]) \cup Ids(load[l].rest))
  BY <1>1 DEF LoadSound
<1>5. Given(load[l]) \subseteq Nat
  BY <1>3, <1>4 DEF Whole, Ids
<1>6. ASSUME NEW x \in Asked(l), NEW m \in Given(load[l]), x.id <= m
      PROVE  x.id \in Given(load[l])
  <2>1. x.id \in Given(load[l]) \cup Ids(load[l].rest)
    BY <1>4, <1>6 DEF Whole
  <2>2. \A y \in load[l].rest : m < y.id
    BY <1>1 DEF LoadSound
  <2>3. x.id \notin Ids(load[l].rest)
    BY <1>3, <1>5, <1>6, <2>2 DEF Ids
  <2> QED BY <2>1, <2>3
<1>7. Whole(l, Given(load[l]))
  BY <1>4, <1>6 DEF Whole
<1> QED BY <1>1, <1>3, <1>5, <1>7

LEMMA NoneIsWhole ==
    ASSUME NEW l
    PROVE  /\ Whole(l, {} \cup Ids({})) /\ InOrder(<<>>) /\ Ids({}) = {}
           /\ \A rec : rec.got = <<>> => Given(rec) = {}
           /\ IsFiniteSet({})
<1>1. Ids({}) = {}
  BY DEF Ids
<1> QED BY <1>1, FS_EmptySet DEF Whole, InOrder, Given

\* A snapshot of all that is asked for is opened.
LEMMA SnapshotOpened ==
    ASSUME IInv, NEW l \in Loading, load[l].pc \in {"idle", "checked"}, ~On("kurrentdb"),
           From(l).kind = "NoStream" => Asked(l) = {},
           From(l).kind = "StreamExists" => Asked(l) # {},
           OpenSnapshot(l, Asked(l)), UNCHANGED <<setup, table>>
    PROVE  LoadInv'
<1>1. LoadSound(l, load[l]) /\ load[l] \in LoadRecords
      /\ \A x \in Asked(l) : x \in Rows /\ x.id \in Nat \ {0}
  BY GivenIsWhole
<1>2. load \in [Loading -> LoadRecords] /\ load[l].got = <<>>
  BY <1>1 DEF IInv, LoadInv, LoadSound
<1> DEFINE rec == [load[l] EXCEPT !.pc = "open", !.rest = Asked(l),
                      !.atCall = IF load[l].pc = "idle" THEN Ids(Asked(l)) ELSE load[l].atCall]
<1>3. load' = [load EXCEPT ![l] = rec]
  BY <1>1, <1>2 DEF OpenSnapshot, LoadRecords
<1>4. Ids(Asked(l)) \subseteq Nat /\ (Asked(l) # {} => Ids(Asked(l)) # {})
  BY <1>1 DEF Ids
<1>5. rec \in LoadRecords
  BY <1>1, <1>4 DEF LoadRecords
<1>6. /\ rec.pc = "open" /\ rec.rest = Asked(l) /\ rec.got = <<>>
      /\ rec.atCall \subseteq Ids(Asked(l))
  BY <1>1, <1>2 DEF LoadRecords, LoadSound
<1> HIDE DEF rec
<1>7. Given(rec) = {} /\ IsFiniteSet({}) /\ InOrder(<<>>)
  BY <1>6, NoneIsWhole
<1>8. Whole(l, {} \cup Ids(Asked(l)))
  BY DEF Whole, Ids
<1>9. LoadSound(l, rec)
  BY <1>4, <1>6, <1>7, <1>8 DEF LoadSound
<1> QED BY <1>3, <1>5, <1>9, LoadMoves

LEMMA LoadRefused ==
    ASSUME IInv, NEW l \in Loading, load[l].pc = "idle", Refuse(l), UNCHANGED <<setup, table>>
    PROVE  LoadInv'
<1>1. LoadSound(l, load[l]) /\ load[l] \in LoadRecords
  BY GivenIsWhole
<1>2. load \in [Loading -> LoadRecords]
  BY DEF IInv, LoadInv
<1> DEFINE rec == [load[l] EXCEPT !.pc = "done", !.err = "refused"]
<1>3. load' = [load EXCEPT ![l] = rec] /\ rec \in LoadRecords
  BY <1>1, <1>2 DEF Refuse, LoadRecords
<1>4. /\ rec.pc = "done" /\ rec.err = "refused" /\ rec.rest = load[l].rest
      /\ rec.got = load[l].got
  BY <1>1 DEF LoadRecords
<1> HIDE DEF rec
<1>5. LoadSound(l, rec)
  BY <1>1, <1>4 DEF LoadSound, Given
<1> QED BY <1>3, <1>5, LoadMoves

\* Finish keeps the error that ended the iteration, wrapped or not.
LEMMA FinishKeepsErr ==
    ASSUME NEW l, NEW err \in {"nil", "failed", "refused"}, Finish(l, err)
    PROVE  load' = [load EXCEPT ![l].pc = "done", ![l].rest = {}, ![l].err = err]
<1>1. (IF setup.wrapped THEN IterErr("nil", WrapClose(err)) ELSE IterErr(err, "nil")) = err
  BY DEF IterErr, WrapClose
<1> QED BY <1>1 DEF Finish

\* Iteration ends, or the caller stops: what has been given stays whole.
LEMMA LoadStopped ==
    ASSUME IInv, NEW l \in Loading, load[l].pc \in {"checked", "open"},
           NEW err \in {"nil", "failed", "refused"}, NEW to \in {"done", "closed"},
           \/ to = "done" /\ load' = [load EXCEPT ![l].pc = "done", ![l].rest = {}, ![l].err = err]
           \/ to = "closed" /\ load' = [load EXCEPT ![l].pc = "closed", ![l].rest = {}],
           to = "done" /\ err = "nil" =>
               /\ load[l].atCall \subseteq Given(load[l])
               /\ From(l).kind = "StreamExists" => Given(load[l]) # {},
           UNCHANGED <<setup, table>>
    PROVE  LoadInv'
<1>1. LoadSound(l, load[l]) /\ load[l] \in LoadRecords /\ Whole(l, Given(load[l]))
  BY GivenIsWhole
<1>2. load \in [Loading -> LoadRecords]
  BY DEF IInv, LoadInv
<1> DEFINE rec == [load[l] EXCEPT !.pc = to, !.rest = {},
                                  !.err = IF to = "done" THEN err ELSE load[l].err]
<1>3. load' = [load EXCEPT ![l] = rec]
  BY <1>1, <1>2 DEF LoadRecords
<1>4. rec \in LoadRecords
  BY <1>1 DEF LoadRecords
<1>5. /\ rec.pc = to /\ rec.rest = {} /\ rec.got = load[l].got /\ rec.atCall = load[l].atCall
      /\ to = "done" => rec.err = err
  BY <1>1 DEF LoadRecords
<1> HIDE DEF rec
<1>6. Given(rec) = Given(load[l]) /\ Ids({}) = {}
  BY <1>5, NoneIsWhole DEF Given
<1>7. LoadSound(l, rec)
  BY <1>1, <1>5, <1>6 DEF LoadSound
<1> QED BY <1>3, <1>4, <1>7, LoadMoves

\* The next event is given.
LEMMA EventGiven ==
    ASSUME IInv, NEW l \in Loading, load[l].pc = "open", NEW row \in Asked(l), Yield(l, row),
           From(l).kind # "NoStream",
           \A m \in Given(load[l]) : m < row.id,
           \A x \in Asked(l) : x.id \in Given(load[l]) \/ x.id >= row.id,
           ~On("kurrentdb") => row \in load[l].rest,
           UNCHANGED <<setup, table>>
    PROVE  LoadInv'
<1>1. /\ LoadSound(l, load[l]) /\ load[l] \in LoadRecords /\ Whole(l, Given(load[l]))
      /\ Given(load[l]) \subseteq Nat
      /\ \A x \in Asked(l) : x \in Rows /\ x.id \in Nat \ {0}
  BY GivenIsWhole
<1>2. load \in [Loading -> LoadRecords] /\ DistinctIds(table) /\ Asked(l) \subseteq table
  BY TableFacts DEF IInv, LoadInv, Asked, Of, Hits
<1> DEFINE old == load[l]
           rec == [old EXCEPT !.rest = old.rest \ {row}, !.got = Append(old.got, row.id)]
<1>3. old.got \in Seq(Nat) /\ row.id \in Nat
  BY <1>1 DEF LoadRecords
<1>4. load' = [load EXCEPT ![l] = rec]
  BY <1>1, <1>2 DEF Yield, LoadRecords
<1>5. /\ rec.pc = "open" /\ rec.rest = old.rest \ {row} /\ rec.got = Append(old.got, row.id)
      /\ rec.atCall = old.atCall /\ rec \in LoadRecords
  <2> DEFINE longer == Append(old.got, row.id)
             fewer == old.rest \ {row}
  <2>1. longer \in Seq(Nat)
    BY <1>3
  <2>2. fewer \in SUBSET Rows
    BY <1>1 DEF LoadRecords
  <2>3. rec = [old EXCEPT !.rest = fewer, !.got = longer]
    OBVIOUS
  <2> HIDE DEF longer, fewer, rec
  <2>4. rec \in LoadRecords /\ rec.rest = fewer /\ rec.got = longer
        /\ rec.pc = old.pc /\ rec.atCall = old.atCall
    BY <1>1, <2>1, <2>2, <2>3 DEF LoadRecords
  <2> QED BY <2>4 DEF longer, fewer
<1> HIDE DEF rec
<1>6. /\ Given(rec) = Given(old) \cup {row.id} /\ InOrder(rec.got)
  <2> DEFINE s == old.got
             n == Len(s)
  <2>1. n \in Nat /\ DOMAIN s = 1 .. n /\ DOMAIN rec.got = 1 .. n + 1
    BY <1>3, <1>5
  <2>2. rec.got[n + 1] = row.id /\ \A i \in 1 .. n : rec.got[i] = s[i] /\ s[i] \in Nat
    BY <1>3, <1>5
  <2>3. \A i \in 1 .. n : s[i] \in Given(old)
    BY <2>1 DEF Given
  <2>4. \A i \in 1 .. n : s[i] < row.id
    BY <2>3
  <2>5. InOrder(s)
    BY <1>1 DEF LoadSound
  <2> HIDE DEF s, n
  <2>6. InOrder(rec.got)
    BY <2>1, <2>2, <2>4, <2>5 DEF InOrder
  <2>7. Given(rec) = Given(old) \cup {row.id}
    <3>1. \A i \in 1 .. n + 1 : i = n + 1 \/ i \in 1 .. n
      BY <2>1
    <3>2. \A i \in 1 .. n : i \in 1 .. n + 1
      BY <2>1
    <3>3. n + 1 \in 1 .. n + 1
      BY <2>1
    <3>4. Given(old) = {s[i] : i \in 1 .. n}
      BY <2>1 DEF Given, s
    <3>5. Given(rec) = {rec.got[i] : i \in 1 .. n + 1}
      BY <2>1 DEF Given
    <3> QED BY <2>2, <3>1, <3>2, <3>3, <3>4, <3>5
  <2> QED BY <2>6, <2>7
<1>7. IsFiniteSet(Given(rec))
  BY <1>1, <1>6, FS_AddElement DEF LoadSound
<1>8. /\ rec.rest \subseteq Asked(l)
      /\ \A x \in rec.rest : x.id \in Nat /\ x.id # row.id
  BY <1>1, <1>2, <1>5 DEF LoadSound, DistinctIds
<1>9. \A m \in Given(rec), x \in rec.rest : m < x.id
  <2>1. \A x \in rec.rest : x.id > row.id
    <3> SUFFICES ASSUME NEW x \in rec.rest PROVE x.id > row.id
      OBVIOUS
    <3>1. x \in old.rest /\ x \in Asked(l)
      BY <1>5, <1>8
    <3>2. \A m \in Given(old) : m < x.id
      BY <1>1, <3>1 DEF LoadSound
    <3>3. x.id \notin Given(old)
      BY <1>8, <3>2
    <3> QED BY <1>3, <1>8, <3>1, <3>3
  <2> QED BY <1>1, <1>3, <1>5, <1>6, <1>8, <2>1 DEF LoadSound
<1>10. /\ Given(rec) \cup Ids(rec.rest) \subseteq Ids(Asked(l))
       /\ ~On("kurrentdb") => Given(rec) \cup Ids(rec.rest) = Given(old) \cup Ids(old.rest)
  <2>1. Ids(rec.rest) \subseteq Ids(Asked(l)) /\ row.id \in Ids(Asked(l))
    BY <1>8 DEF Ids
  <2>2. ~On("kurrentdb") => Ids(old.rest) = Ids(rec.rest) \cup {row.id}
    BY <1>5 DEF Ids
  <2>3. Given(old) \subseteq Ids(Asked(l))
    BY <1>1 DEF Whole
  <2> QED BY <1>6, <2>1, <2>2, <2>3
<1>11. Whole(l, Given(rec) \cup Ids(rec.rest))
  <2>1. CASE ~On("kurrentdb")
    <3>1. Whole(l, Given(old) \cup Ids(old.rest))
      BY <1>1 DEF LoadSound
    <3> QED BY <1>10, <2>1, <3>1
  <2>2. CASE On("kurrentdb")
    <3>1. rec.rest = {} /\ Ids({}) = {}
      BY <1>1, <1>5, <2>2 DEF LoadSound, Ids
    <3>2. ASSUME NEW x \in Asked(l), NEW m \in Given(rec), x.id <= m
          PROVE  x.id \in Given(rec)
      <4>1. CASE m \in Given(old)
        BY <1>1, <1>6, <3>2, <4>1 DEF Whole
      <4>2. CASE m = row.id
        <5>1. x.id \in Given(old) \/ x.id >= row.id
          OBVIOUS
        <5> QED BY <1>1, <1>3, <1>6, <3>2, <4>2, <5>1
      <4> QED BY <1>6, <4>1, <4>2
    <3> QED BY <1>10, <3>1, <3>2 DEF Whole
  <2> QED BY <2>1, <2>2
<1>12. LoadSound(l, rec)
  <2>1. /\ ~On("kurrentdb") => rec.atCall \subseteq Given(rec) \cup Ids(rec.rest)
        /\ Given(rec) # {}
    BY <1>1, <1>5, <1>6, <1>10 DEF LoadSound
  <2>2. On("kurrentdb") => rec.rest = {}
    BY <1>1, <1>5 DEF LoadSound
  <2> QED BY <1>5, <1>6, <1>7, <1>8, <1>9, <1>11, <2>1, <2>2 DEF LoadSound
<1> QED BY <1>4, <1>5, <1>12, LoadMoves

LEMMA NextOfKeeps ==
    ASSUME IInv, NEW l \in Loading, ~On("kurrentdb"), NextOf(l)
    PROVE  LoadInv' /\ LoadFrame
<1>1. /\ LoadSound(l, load[l]) /\ load[l].pc = "open" /\ UNCHANGED <<setup, table>> /\ LoadFrame
      /\ Given(load[l]) \subseteq Nat /\ \A x \in Asked(l) : x.id \in Nat
  BY GivenIsWhole DEF NextOf, LoadFrame
<1>2. CASE load[l].rest = {} /\ Finish(l, "nil")
  <2>1. load' = [load EXCEPT ![l].pc = "done", ![l].rest = {}, ![l].err = "nil"]
    BY <1>2, FinishKeepsErr
  <2>2. Ids(load[l].rest) = {}
    BY <1>2 DEF Ids
  <2>3. /\ load[l].atCall \subseteq Given(load[l])
        /\ From(l).kind = "StreamExists" => Given(load[l]) # {}
    BY <1>1, <2>2 DEF LoadSound
  <2> QED BY <1>1, <2>1, <2>3, LoadStopped
<1>3. ASSUME NEW row \in load[l].rest, Yield(l, row),
             \A other \in load[l].rest : row.id <= other.id
      PROVE  LoadInv'
  <2>1. row \in Asked(l) /\ From(l).kind # "NoStream" /\ \A m \in Given(load[l]) : m < row.id
    BY <1>1 DEF LoadSound
  <2>2. ASSUME NEW x \in Asked(l) PROVE x.id \in Given(load[l]) \/ x.id >= row.id
    <3>1. row.id \in Ids(load[l].rest) /\ \A m \in Ids(load[l].rest) : row.id <= m
      BY <1>3 DEF Ids
    <3>2. x.id <= row.id => x.id \in Given(load[l]) \cup Ids(load[l].rest)
      BY <1>1, <3>1 DEF LoadSound, Whole
    <3> QED BY <1>1, <2>1, <3>1, <3>2
  <2> QED BY <1>1, <1>3, <2>1, <2>2, EventGiven
<1> QED BY <1>1, <1>2, <1>3 DEF NextOf

\* What a load may require of its stream.
LEMMA AskedFacts ==
    ASSUME IInv, NEW l \in Loading
    PROVE  /\ From(l).kind = "NoStream" /\ Missing(l) => Asked(l) = {}
           /\ From(l).kind = "StreamExists" /\ ~Missing(l) => Asked(l) # {}
           /\ setup.loads[l].chain => From(l).kind = "Any"
           /\ From(l).kind \in {"Any", "NoStream", "StreamExists", "Revision"}
<1>1. setup.loads \in [Loading -> Loads]
  BY EventLogAssumption DEF IInv, SaveInv, SaveShape, Loading
<1>2. setup.loads[l].from \in StreamStates /\ setup.loads[l].chain \in BOOLEAN
  BY <1>1 DEF Loads
<1>3. \A x \in table : x.position \in Nat \ {0}
  BY TableFacts DEF IInv
<1>4. CASE setup.loads[l].chain
  BY <1>4 DEF From, AnyState
<1>5. CASE ~setup.loads[l].chain
  <2> DEFINE call == setup.loads[l]
  <2>1. From(l) = call.from /\ (Missing(l) <=> Of(call.stream) = {})
    BY <1>5 DEF From, Missing
  <2>2. Asked(l) = {x \in Of(call.stream) :
                      x.position > IF call.from.kind = "Revision" THEN call.from.rev ELSE 0}
    BY <1>5 DEF Asked
  <2>3. \A x \in Of(call.stream) : x.position > 0
    BY <1>3 DEF Of
  <2>4. call.from.kind # "Revision" => Asked(l) = Of(call.stream)
    BY <2>2, <2>3
  <2> QED BY <1>2, <1>5, <2>1, <2>4 DEF StreamStates
<1> QED BY <1>2, <1>4, <1>5

LEMMA MemLoadSame ==
    ASSUME NEW l
    PROVE  /\ \A rows : Mem!OpenSnapshot(l, rows) => OpenSnapshot(l, rows)
           /\ Mem!Refuse(l) => Refuse(l)
           /\ \A err : Mem!Finish(l, err) => Finish(l, err)
           /\ \A row : Mem!Yield(l, row) => Yield(l, row)
           /\ Mem!NextOf(l) => NextOf(l)
<1>1. \A rows : Mem!OpenSnapshot(l, rows) => OpenSnapshot(l, rows)
  BY MemSame DEF Mem!OpenSnapshot, OpenSnapshot
<1>2. Mem!Refuse(l) => Refuse(l)
  BY DEF Mem!Refuse, Refuse
<1>3. \A err : Mem!Finish(l, err) => Finish(l, err)
  BY DEF Mem!Finish, Finish, Mem!IterErr, IterErr, Mem!WrapClose, WrapClose
<1>4. \A row : Mem!Yield(l, row) => Yield(l, row)
  BY DEF Mem!Yield, Yield
<1>5. Mem!NextOf(l) => NextOf(l)
  BY <1>3, <1>4 DEF Mem!NextOf, NextOf, Mem!saveVars, saveVars, Mem!readVars, readVars
<1> QED BY <1>1, <1>2, <1>3, <1>4, <1>5

LEMMA LiteLoadSame ==
    ASSUME NEW l
    PROVE  /\ \A rows : Lite!OpenSnapshot(l, rows) => OpenSnapshot(l, rows)
           /\ Lite!Refuse(l) => Refuse(l)
           /\ \A err : Lite!Finish(l, err) => Finish(l, err)
           /\ \A row : Lite!Yield(l, row) => Yield(l, row)
           /\ Lite!NextOf(l) => NextOf(l)
<1>1. \A rows : Lite!OpenSnapshot(l, rows) => OpenSnapshot(l, rows)
  BY LiteSame DEF Lite!OpenSnapshot, OpenSnapshot
<1>2. Lite!Refuse(l) => Refuse(l)
  BY DEF Lite!Refuse, Refuse
<1>3. \A err : Lite!Finish(l, err) => Finish(l, err)
  BY DEF Lite!Finish, Finish, Lite!IterErr, IterErr, Lite!WrapClose, WrapClose
<1>4. \A row : Lite!Yield(l, row) => Yield(l, row)
  BY DEF Lite!Yield, Yield
<1>5. Lite!NextOf(l) => NextOf(l)
  BY <1>3, <1>4 DEF Lite!NextOf, NextOf, Lite!saveVars, saveVars, Lite!readVars, readVars
<1> QED BY <1>1, <1>2, <1>3, <1>4, <1>5

LEMMA PgLoadSame ==
    ASSUME NEW l
    PROVE  /\ \A rows : Pg!OpenSnapshot(l, rows) => OpenSnapshot(l, rows)
           /\ Pg!Refuse(l) => Refuse(l)
           /\ \A err : Pg!Finish(l, err) => Finish(l, err)
           /\ \A row : Pg!Yield(l, row) => Yield(l, row)
           /\ Pg!NextOf(l) => NextOf(l)
<1>1. \A rows : Pg!OpenSnapshot(l, rows) => OpenSnapshot(l, rows)
  BY PgSame DEF Pg!OpenSnapshot, OpenSnapshot
<1>2. Pg!Refuse(l) => Refuse(l)
  BY DEF Pg!Refuse, Refuse
<1>3. \A err : Pg!Finish(l, err) => Finish(l, err)
  BY DEF Pg!Finish, Finish, Pg!IterErr, IterErr, Pg!WrapClose, WrapClose
<1>4. \A row : Pg!Yield(l, row) => Yield(l, row)
  BY DEF Pg!Yield, Yield
<1>5. Pg!NextOf(l) => NextOf(l)
  BY <1>3, <1>4 DEF Pg!NextOf, NextOf, Pg!saveVars, saveVars, Pg!readVars, readVars
<1> QED BY <1>1, <1>2, <1>3, <1>4, <1>5

LEMMA KurrentLoadSame ==
    ASSUME NEW l
    PROVE  /\ \A rows : Kurrent!OpenSnapshot(l, rows) => OpenSnapshot(l, rows)
           /\ Kurrent!Refuse(l) => Refuse(l)
           /\ \A err : Kurrent!Finish(l, err) => Finish(l, err)
           /\ \A row : Kurrent!Yield(l, row) => Yield(l, row)
<1>1. \A rows : Kurrent!OpenSnapshot(l, rows) => OpenSnapshot(l, rows)
  BY KurrentSame DEF Kurrent!OpenSnapshot, OpenSnapshot
<1>2. Kurrent!Refuse(l) => Refuse(l)
  BY DEF Kurrent!Refuse, Refuse
<1>3. \A err : Kurrent!Finish(l, err) => Finish(l, err)
  BY DEF Kurrent!Finish, Finish, Kurrent!IterErr, IterErr, Kurrent!WrapClose, WrapClose
<1>4. \A row : Kurrent!Yield(l, row) => Yield(l, row)
  BY DEF Kurrent!Yield, Yield
<1> QED BY <1>1, <1>2, <1>3, <1>4

LEMMA MemLoadKeeps ==
    ASSUME IInv, NEW l \in Loading, On("memory"), Mem!LoadStep(l)
    PROVE  LoadInv' /\ LoadFrame
<1>1. ~On("kurrentdb")
  BY DEF On
<1>2. CASE Mem!NextOf(l)
  BY <1>1, <1>2, MemLoadSame, NextOfKeeps
<1>3. CASE Mem!LoadStreamFrom(l)
  <2>1. /\ load[l].pc = "idle" /\ LoadFrame
        /\ \/ Mem!Refuse(l)
           \/ /\ Mem!OpenSnapshot(l, Asked(l))
              /\ From(l).kind = "NoStream" => Missing(l)
              /\ From(l).kind = "StreamExists" => ~Missing(l)
    BY <1>3, MemSame DEF Mem!LoadStreamFrom, LoadFrame, Mem!saveVars, saveVars,
       Mem!readVars, readVars
  <2>2. setup' = setup /\ table' = table
    BY <2>1 DEF LoadFrame
  <2>3. CASE Mem!Refuse(l)
    BY <2>1, <2>2, <2>3, MemLoadSame, LoadRefused
  <2>4. CASE /\ Mem!OpenSnapshot(l, Asked(l))
             /\ From(l).kind = "NoStream" => Missing(l)
             /\ From(l).kind = "StreamExists" => ~Missing(l)
    <3>1. /\ From(l).kind = "NoStream" => Asked(l) = {}
          /\ From(l).kind = "StreamExists" => Asked(l) # {}
          /\ OpenSnapshot(l, Asked(l))
      BY <2>4, AskedFacts, MemLoadSame
    <3> QED BY <1>1, <2>1, <2>2, <3>1, SnapshotOpened
  <2> QED BY <2>1, <2>3, <2>4
<1>4. CASE Mem!LoadCorrelation(l)
  <2>1. /\ load[l].pc = "idle" /\ LoadFrame /\ Mem!OpenSnapshot(l, Asked(l))
        /\ setup.loads[l].chain
    BY <1>4, MemSame DEF Mem!LoadCorrelation, LoadFrame, Mem!saveVars, saveVars,
       Mem!readVars, readVars
  <2>2. setup' = setup /\ table' = table /\ From(l).kind = "Any" /\ OpenSnapshot(l, Asked(l))
    BY <2>1, AskedFacts, MemLoadSame DEF LoadFrame
  <2> QED BY <1>1, <2>1, <2>2, SnapshotOpened
<1> QED BY <1>2, <1>3, <1>4 DEF Mem!LoadStep

LEMMA LiteLoadKeeps ==
    ASSUME IInv, NEW l \in Loading, On("sqlite"), Lite!LoadStep(l)
    PROVE  LoadInv' /\ LoadFrame
<1>1. ~On("kurrentdb")
  BY DEF On
<1>2. CASE Lite!NextOf(l)
  BY <1>1, <1>2, LiteLoadSame, NextOfKeeps
<1>3. CASE Lite!LoadStreamFrom(l)
  <2>1. /\ load[l].pc = "idle" /\ LoadFrame
        /\ \/ Lite!Refuse(l)
           \/ /\ Lite!OpenSnapshot(l, Asked(l))
              /\ From(l).kind = "NoStream" => Missing(l)
              /\ From(l).kind = "StreamExists" => ~Missing(l)
    BY <1>3, LiteSame DEF Lite!LoadStreamFrom, LoadFrame, Lite!saveVars, saveVars,
       Lite!readVars, readVars
  <2>2. setup' = setup /\ table' = table
    BY <2>1 DEF LoadFrame
  <2>3. CASE Lite!Refuse(l)
    BY <2>1, <2>2, <2>3, LiteLoadSame, LoadRefused
  <2>4. CASE /\ Lite!OpenSnapshot(l, Asked(l))
             /\ From(l).kind = "NoStream" => Missing(l)
             /\ From(l).kind = "StreamExists" => ~Missing(l)
    <3>1. /\ From(l).kind = "NoStream" => Asked(l) = {}
          /\ From(l).kind = "StreamExists" => Asked(l) # {}
          /\ OpenSnapshot(l, Asked(l))
      BY <2>4, AskedFacts, LiteLoadSame
    <3> QED BY <1>1, <2>1, <2>2, <3>1, SnapshotOpened
  <2> QED BY <2>1, <2>3, <2>4
<1>4. CASE Lite!LoadCorrelation(l)
  <2>1. /\ load[l].pc = "idle" /\ LoadFrame /\ Lite!OpenSnapshot(l, Asked(l))
        /\ setup.loads[l].chain
    BY <1>4, LiteSame DEF Lite!LoadCorrelation, LoadFrame, Lite!saveVars, saveVars,
       Lite!readVars, readVars
  <2>2. setup' = setup /\ table' = table /\ From(l).kind = "Any" /\ OpenSnapshot(l, Asked(l))
    BY <2>1, AskedFacts, LiteLoadSame DEF LoadFrame
  <2> QED BY <1>1, <2>1, <2>2, SnapshotOpened
<1> QED BY <1>2, <1>3, <1>4 DEF Lite!LoadStep

LEMMA PgLoadKeeps ==
    ASSUME IInv, NEW l \in Loading, On("postgres"), Pg!LoadStep(l)
    PROVE  LoadInv' /\ LoadFrame
<1>1. ~On("kurrentdb") /\ LoadSound(l, load[l]) /\ load[l] \in LoadRecords
  BY GivenIsWhole DEF On
<1>2. CASE Pg!NextOf(l)
  BY <1>1, <1>2, PgLoadSame, NextOfKeeps
<1>3. CASE Pg!CheckExists(l)
  <2>1. /\ load[l].pc = "idle" /\ LoadFrame
        /\ \/ Pg!Refuse(l)
           \/ /\ From(l).kind = "NoStream" /\ Missing(l) /\ Pg!OpenSnapshot(l, {})
           \/ /\ From(l).kind = "StreamExists" /\ ~Missing(l)
              /\ load' = [load EXCEPT ![l].pc = "checked", ![l].atCall = Ids(Asked(l))]
    <3>1. /\ From(l).kind \in {"NoStream", "StreamExists"}
          /\ load[l].pc = "idle" /\ LoadFrame
      BY <1>3, PgSame DEF Pg!CheckExists, LoadFrame, Pg!saveVars, saveVars, Pg!readVars, readVars
    <3>2. CASE ~(Missing(l) <=> From(l).kind = "NoStream")
      <4>1. Pg!Refuse(l)
        BY <1>3, <3>1, <3>2, PgSame DEF Pg!CheckExists
      <4> QED BY <3>1, <4>1
    <3>3. CASE From(l).kind = "NoStream" /\ Missing(l)
      <4>1. Pg!OpenSnapshot(l, {})
        BY <1>3, <3>3, PgSame DEF Pg!CheckExists
      <4> QED BY <3>1, <3>3, <4>1
    <3>4. CASE From(l).kind = "StreamExists" /\ ~Missing(l)
      <4>1. load' = [load EXCEPT ![l].pc = "checked", ![l].atCall = Ids(Asked(l))]
        BY <1>3, <3>4, PgSame DEF Pg!CheckExists
      <4> QED BY <3>1, <3>4, <4>1
    <3>5. Missing(l) \in BOOLEAN
      BY DEF Missing
    <3> QED BY <3>1, <3>2, <3>3, <3>4, <3>5
  <2>2. setup' = setup /\ table' = table
    BY <2>1 DEF LoadFrame
  <2>3. CASE Pg!Refuse(l)
    BY <2>1, <2>2, <2>3, PgLoadSame, LoadRefused
  <2>4. CASE From(l).kind = "NoStream" /\ Missing(l) /\ Pg!OpenSnapshot(l, {})
    <3>1. Asked(l) = {} /\ OpenSnapshot(l, {})
      BY <2>4, AskedFacts, PgLoadSame
    <3>2. OpenSnapshot(l, Asked(l)) /\ From(l).kind # "StreamExists"
      BY <2>4, <3>1
    <3> QED BY <1>1, <2>1, <2>2, <3>1, <3>2, SnapshotOpened
  <2>5. CASE /\ From(l).kind = "StreamExists" /\ ~Missing(l)
             /\ load' = [load EXCEPT ![l].pc = "checked", ![l].atCall = Ids(Asked(l))]
    <3> DEFINE rec == [load[l] EXCEPT !.pc = "checked", !.atCall = Ids(Asked(l))]
    <3>1. Asked(l) # {} /\ Ids(Asked(l)) \subseteq Nat /\ load \in [Loading -> LoadRecords]
      BY <2>5, AskedFacts, GivenIsWhole DEF Ids, IInv, LoadInv
    <3>2. load' = [load EXCEPT ![l] = rec] /\ rec \in LoadRecords
      BY <1>1, <2>5, <3>1 DEF LoadRecords
    <3>3. /\ rec.pc = "checked" /\ rec.atCall = Ids(Asked(l)) /\ rec.rest = load[l].rest
          /\ rec.got = load[l].got
      BY <1>1 DEF LoadRecords
    <3> HIDE DEF rec
    <3>4. Given(rec) = Given(load[l])
      BY <3>3 DEF Given
    <3>5. LoadSound(l, rec)
      BY <1>1, <2>1, <2>5, <3>1, <3>3, <3>4 DEF LoadSound
    <3> QED BY <2>1, <2>2, <3>2, <3>5, LoadMoves
  <2> QED BY <2>1, <2>3, <2>4, <2>5
<1>4. CASE Pg!LoadStreamFrom(l)
  <2>1. /\ \/ load[l].pc = "idle" /\ From(l).kind \in {"Any", "Revision"}
           \/ load[l].pc = "checked"
        /\ LoadFrame /\ Pg!OpenSnapshot(l, Asked(l))
    BY <1>4, PgSame DEF Pg!LoadStreamFrom, LoadFrame, Pg!saveVars, saveVars, Pg!readVars, readVars
  <2>2. setup' = setup /\ table' = table /\ OpenSnapshot(l, Asked(l))
    BY <2>1, PgLoadSame DEF LoadFrame
  <2>3. /\ From(l).kind = "NoStream" => Asked(l) = {}
        /\ From(l).kind = "StreamExists" => Asked(l) # {}
        /\ load[l].pc \in {"idle", "checked"}
    BY <1>1, <2>1 DEF LoadSound
  <2> QED BY <1>1, <2>1, <2>2, <2>3, SnapshotOpened
<1>5. CASE Pg!LoadCorrelation(l)
  <2>1. /\ load[l].pc = "idle" /\ LoadFrame /\ Pg!OpenSnapshot(l, Asked(l))
        /\ setup.loads[l].chain
    BY <1>5, PgSame DEF Pg!LoadCorrelation, LoadFrame, Pg!saveVars, saveVars, Pg!readVars, readVars
  <2>2. setup' = setup /\ table' = table /\ From(l).kind = "Any" /\ OpenSnapshot(l, Asked(l))
    BY <2>1, AskedFacts, PgLoadSame DEF LoadFrame
  <2> QED BY <1>1, <2>1, <2>2, SnapshotOpened
<1> QED BY <1>2, <1>3, <1>4, <1>5 DEF Pg!LoadStep

LEMMA KurrentLoadKeeps ==
    ASSUME IInv, NEW l \in Loading, On("kurrentdb"), Kurrent!LoadStep(l)
    PROVE  LoadInv' /\ LoadFrame
<1>1. /\ LoadSound(l, load[l]) /\ load[l] \in LoadRecords /\ Whole(l, Given(load[l]))
      /\ Given(load[l]) \subseteq Nat /\ load \in [Loading -> LoadRecords]
      /\ \A x \in Asked(l) : x.id \in Nat \ {0}
  BY GivenIsWhole DEF IInv, LoadInv
<1>2. CASE Kurrent!LoadStreamFrom(l)
  <2>1. load[l].pc = "idle" /\ LoadFrame /\ OpenSnapshot(l, {})
    BY <1>2, KurrentLoadSame DEF Kurrent!LoadStreamFrom, LoadFrame, Kurrent!saveVars, saveVars,
       Kurrent!readVars, readVars
  <2> DEFINE rec == [load[l] EXCEPT !.pc = "open", !.rest = {}, !.atCall = Ids(Asked(l))]
  <2>2. Ids(Asked(l)) \subseteq Nat
    BY <1>1 DEF Ids
  <2>3. load' = [load EXCEPT ![l] = rec] /\ rec \in LoadRecords
    BY <1>1, <2>1, <2>2 DEF OpenSnapshot, LoadRecords
  <2>4. rec.pc = "open" /\ rec.rest = {} /\ rec.got = <<>>
    BY <1>1, <2>1 DEF LoadRecords, LoadSound
  <2> HIDE DEF rec
  <2>5. /\ Given(rec) = {} /\ InOrder(<<>>) /\ Whole(l, {} \cup Ids({})) /\ IsFiniteSet({})
    BY <2>4, NoneIsWhole
  <2>6. LoadSound(l, rec)
    BY <2>4, <2>5 DEF LoadSound
  <2>7. setup' = setup /\ table' = table
    BY <2>1 DEF LoadFrame
  <2> QED BY <2>1, <2>3, <2>6, <2>7, LoadMoves
<1>3. CASE Kurrent!Recv(l)
  <2> DEFINE top == MaxOr0(Given(load[l]))
             Left == {x \in Asked(l) : x.id > top}
             Ending == IF Given(load[l]) = {} /\ From(l).kind = "StreamExists"
                       THEN "refused" ELSE "nil"
  <2>1. /\ top \in Given(load[l]) \cup {0} /\ top \in Nat
        /\ \A m \in Given(load[l]) : m <= top
    BY <1>1, MaxOr0Facts DEF LoadSound
  <2>2. load[l].pc = "open" /\ LoadFrame
    BY <1>3 DEF Kurrent!Recv, LoadFrame, Kurrent!saveVars, saveVars, Kurrent!readVars, readVars
  <2>3. \/ \E row \in Left :
              /\ \A other \in Left : row.id <= other.id
              /\ \/ Finish(l, "refused")
                 \/ From(l).kind # "NoStream" /\ Yield(l, row)
        \/ load[l].atCall \subseteq Given(load[l]) /\ Finish(l, Ending)
    <3>1. {x \in Kurrent!Asked(l) :
              x.id > Kurrent!MaxOr0({load[l].got[i] : i \in DOMAIN load[l].got})} = Left
      BY KurrentSame DEF Given
    <3> HIDE DEF Left, Ending
    <3>2. \/ \E row \in Left :
                /\ \A other \in Left : row.id <= other.id
                /\ IF Kurrent!mustNotExist(l) THEN Kurrent!Finish(l, "refused")
                                              ELSE Kurrent!Yield(l, row)
          \/ /\ load[l].atCall \subseteq Given(load[l])
             /\ Kurrent!Finish(l, IF Given(load[l]) = {} /\ ~Kurrent!missingIsEmpty(l)
                                  THEN "refused" ELSE "nil")
      BY <1>3, <3>1 DEF Kurrent!Recv, Given
    <3>3. /\ Kurrent!mustNotExist(l) <=> From(l).kind = "NoStream"
          /\ ~Kurrent!missingIsEmpty(l) <=> From(l).kind = "StreamExists"
      BY KurrentSame DEF Kurrent!mustNotExist, Kurrent!missingIsEmpty
    <3> QED BY <3>2, <3>3, KurrentLoadSame DEF Ending
  <2>4. setup' = setup /\ table' = table
    BY <2>2 DEF LoadFrame
  <2>5. ASSUME NEW row \in Left, \A other \in Left : row.id <= other.id,
               From(l).kind # "NoStream", Yield(l, row)
        PROVE  LoadInv'
    <3>1. row \in Asked(l) /\ row.id > top /\ row.id \in Nat
      BY <1>1
    <3>2. \A m \in Given(load[l]) : m < row.id
      BY <1>1, <2>1, <3>1
    <3>3. ASSUME NEW x \in Asked(l) PROVE x.id \in Given(load[l]) \/ x.id >= row.id
      <4>1. CASE x.id > top
        BY <1>1, <2>5, <3>1, <4>1
      <4>2. CASE ~(x.id > top)
        <5>1. x.id <= top /\ top # 0
          BY <1>1, <2>1, <4>2
        <5>2. top \in Given(load[l])
          BY <2>1, <5>1
        <5> QED BY <1>1, <5>1, <5>2 DEF Whole
      <4> QED BY <4>1, <4>2
    <3> QED BY <2>2, <2>4, <2>5, <3>1, <3>2, <3>3, EventGiven
  <2>6. ASSUME Finish(l, "refused") PROVE LoadInv'
    <3>1. load' = [load EXCEPT ![l].pc = "done", ![l].rest = {}, ![l].err = "refused"]
      BY <2>6, FinishKeepsErr
    <3> QED BY <2>2, <2>4, <3>1, LoadStopped
  <2>7. ASSUME load[l].atCall \subseteq Given(load[l]), Finish(l, Ending) PROVE LoadInv'
    <3>1. Ending \in {"nil", "failed", "refused"}
      OBVIOUS
    <3>2. Ending = "nil" => (From(l).kind = "StreamExists" => Given(load[l]) # {})
      OBVIOUS
    <3> HIDE DEF Ending
    <3>3. load' = [load EXCEPT ![l].pc = "done", ![l].rest = {}, ![l].err = Ending]
      BY <2>7, <3>1, FinishKeepsErr
    <3> QED BY <2>2, <2>4, <2>7, <3>1, <3>2, <3>3, LoadStopped
  <2> QED BY <2>2, <2>3, <2>5, <2>6, <2>7
<1> QED BY <1>2, <1>3 DEF Kurrent!LoadStep

LEMMA LoadSteps ==
    ASSUME IInv, NEW l \in Loading, LoadStep(l) \/ NextFails(l) \/ Close(l)
    PROVE  LoadInv' /\ LoadFrame
<1>1. CASE LoadStep(l)
  BY <1>1, MemLoadKeeps, LiteLoadKeeps, PgLoadKeeps, KurrentLoadKeeps DEF LoadStep
<1>2. CASE NextFails(l)
  <2>1. load[l].pc \in {"checked", "open"} /\ Finish(l, "failed") /\ LoadFrame
    BY <1>2 DEF NextFails, LoadFrame
  <2>2. load' = [load EXCEPT ![l].pc = "done", ![l].rest = {}, ![l].err = "failed"]
    BY <2>1, FinishKeepsErr
  <2>3. setup' = setup /\ table' = table
    BY <2>1 DEF LoadFrame
  <2> QED BY <2>1, <2>2, <2>3, LoadStopped
<1>3. CASE Close(l)
  <2>1. /\ load[l].pc = "open" /\ LoadFrame /\ setup' = setup /\ table' = table
        /\ load' = [load EXCEPT ![l].pc = "closed", ![l].rest = {}]
    BY <1>3 DEF Close, LoadFrame
  <2> QED BY <2>1, LoadStopped
<1> QED BY <1>1, <1>2, <1>3

-----------------------------------------------------------------------------
(***************************************************************************)
(* The theorems.                                                             *)
(***************************************************************************)
LEMMA Initially ==
    ASSUME Init
    PROVE  IInv
<1>1. /\ setup \in Setups /\ table = {} /\ nextId = 1 /\ load = [l \in Loading |->
            [pc |-> "idle", atCall |-> {}, rest |-> {}, got |-> <<>>, err |-> "nil"]]
      /\ pc = [w \in Saving |-> "idle"] /\ outcome = [w \in Saving |-> "none"]
      /\ currentVersion = [w \in Saving |-> 0] /\ nextVersion = [w \in Saving |-> 0]
      /\ pending = [w \in Saving |-> {}]
      /\ grpc = [w \in Saving |-> [attempt |-> 0, flying |-> {}, answer |-> "none"]]
      /\ after = [r \in setup.readers |-> 0] /\ pinned = [r \in setup.readers |-> 0]
      /\ got = [r \in setup.readers |-> {}]
  BY DEF Init
<1>2. /\ \A w : By(w) = {}
      /\ \A s : Of(s) = {}
      /\ Hits(table) = {}
  BY <1>1 DEF By, Of, Hits
<1>3. IsFiniteSet({}) /\ Cardinality({}) = 0 /\ 0 + 1 .. 0 + 0 = {}
  BY FS_EmptySet
<1>4. SaveInv
  <2>1. SaveShape /\ LogSound
    BY <1>1, <1>3 DEF SaveShape, LogSound, DistinctIds, PCs
  <2>2. LocksHeld /\ Gapless
    BY <1>1, <1>2 DEF LocksHeld, Gapless, DistinctPositions
  <2>3. ASSUME NEW w \in Saving PROVE SaverSound(w)
    <3>1. /\ pc[w] = "idle" /\ outcome[w] = "none" /\ pending[w] = {} /\ currentVersion[w] = 0
          /\ grpc[w] = [attempt |-> 0, flying |-> {}, answer |-> "none"]
      BY <1>1
    <3>2. PendingSound(w)
      BY <1>3, <3>1 DEF PendingSound, DistinctIds, DistinctPositions
    <3>3. VersionRead(w) /\ BatchSound(w) /\ AttemptsSound(w)
      BY <1>2, <3>1 DEF VersionRead, BatchSound, AttemptsSound
    <3> QED BY <3>2, <3>3 DEF SaverSound
  <2> QED BY <2>1, <2>2, <2>3 DEF SaveInv
<1>5. ReadInv
  BY <1>1, <1>2 DEF ReadInv, NothingSkipped, Ids
<1>6. LoadInv
  <2>1. load \in [Loading -> LoadRecords]
    <3>1. [pc |-> "idle", atCall |-> {}, rest |-> {}, got |-> <<>>, err |-> "nil"] \in LoadRecords
      BY DEF LoadRecords
    <3> QED BY <1>1, <3>1
  <2>2. ASSUME NEW l \in Loading PROVE LoadSound(l, load[l])
    <3>1. load[l].pc = "idle" /\ load[l].rest = {} /\ load[l].got = <<>>
      BY <1>1
    <3>2. /\ Given(load[l]) = {} /\ InOrder(<<>>) /\ Whole(l, {} \cup Ids({})) /\ IsFiniteSet({})
      BY <3>1, NoneIsWhole
    <3> QED BY <3>1, <3>2 DEF LoadSound
  <2> QED BY <2>1, <2>2 DEF LoadInv
<1> QED BY <1>4, <1>5, <1>6 DEF IInv

(***************************************************************************)
(* The invariant is inductive: every step of every store keeps it.           *)
(***************************************************************************)
THEOREM Inductive == Spec => []IInv
<1>1. Init => IInv
  BY Initially
<1>2. IInv /\ [Next]_vars => IInv'
  <2> SUFFICES ASSUME IInv, [Next]_vars PROVE IInv'
    OBVIOUS
  <2>1. CASE UNCHANGED vars
    <3>1. UNCHANGED <<setup, table, saveVars>> /\ UNCHANGED <<readVars, load>>
      BY <2>1 DEF vars
    <3>2. SaveInv'
      BY <3>1, SavesStay DEF IInv
    <3> QED BY <3>1, <3>2, LogStays DEF IInv
  <2>2. ASSUME NEW w \in Saving, CallSave(w) PROVE IInv'
    BY <2>2, CallSaveKeeps
  <2>3. ASSUME NEW w \in Saving, SaveStep(w) PROVE IInv'
    BY <2>3, MemKeeps, LiteKeeps, PgKeeps, KurrentKeeps DEF SaveStep
  <2>4. ASSUME NEW w \in Saving, FailStep(w) PROVE IInv'
    BY <2>4, LiteKeeps, PgKeeps DEF FailStep
  <2>5. ASSUME NEW r \in setup.readers, ReadStep(r) PROVE IInv'
    <3>1. ReadInv' /\ UNCHANGED <<setup, table, saveVars, load>>
      BY <2>5, ReadSteps DEF ReadFrame
    <3>2. SaveInv'
      BY <3>1, SavesStay DEF IInv
    <3>3. LoadInv'
      <4>1. /\ setup' = setup /\ load' = load
            /\ \A b : On(b)' <=> On(b)
            /\ \A k : Asked(k)' = Asked(k) /\ From(k)' = From(k)
        BY <3>1 DEF On, Asked, From, Of, Hits
      <4>2. Loading' = Loading
        BY <4>1 DEF Loading
      <4>3. ASSUME NEW l \in Loading PROVE LoadSound(l, load[l])'
        <5>1. PICK rec \in LoadRecords : rec = load[l] /\ rec = load'[l]
          BY <4>1 DEF IInv, LoadInv
        <5>2. LoadSound(l, rec)
          BY <5>1 DEF IInv, LoadInv
        <5>3. LoadSound(l, rec)'
          BY <4>1, <5>2 DEF LoadSound, Whole, InOrder, Given, Ids
        <5> QED BY <5>1, <5>3
      <4> QED BY <4>1, <4>2, <4>3 DEF IInv, LoadInv
    <3> QED BY <3>1, <3>2, <3>3 DEF IInv
  <2>6. ASSUME NEW l \in Loading, LoadStep(l) \/ NextFails(l) \/ Close(l) PROVE IInv'
    <3>1. LoadInv' /\ UNCHANGED <<setup, table, saveVars, readVars>>
      BY <2>6, LoadSteps DEF LoadFrame
    <3> QED BY <3>1, SavesStay, ReadStays DEF IInv
  <2>7. ASSUME NEW b \in setup.browsers, BrowseStep(b) PROVE IInv'
    <3>1. UNCHANGED <<setup, table, saveVars, readVars, load>>
      BY <2>7 DEF BrowseStep, RequestPage, ReadRange, PageFails
    <3>2. SaveInv'
      BY <3>1, SavesStay DEF IInv
    <3> QED BY <3>1, <3>2, LogStays DEF IInv
  <2>8. ASSUME ServerStep PROVE IInv'
    BY <2>8, SystemRecordKeeps, ServeKeeps DEF ServerStep
  <2> QED BY <2>1, <2>2, <2>3, <2>4, <2>5, <2>6, <2>7, <2>8 DEF Next
<1> QED BY <1>1, <1>2, PTL DEF Spec

(***************************************************************************)
(* Whatever commits while it reads, a reader that resumes at Next has been    *)
(* given exactly the wanted events up to its position (ReadAll and Save of    *)
(* the four stores).                                                         *)
(***************************************************************************)
THEOREM ReadersMissNothing == Spec => []NothingSkipped
<1>1. IInv => NothingSkipped
  BY DEF IInv, ReadInv
<1> QED BY Inductive, <1>1, PTL

(***************************************************************************)
(* Every stream of every store is numbered from 1 on, without a gap and      *)
(* without two events at one position, and no two events share a global      *)
(* position (Save of the four stores).                                       *)
(***************************************************************************)
THEOREM StreamsAreGapless == Spec => [](Gapless /\ DistinctIds(table))
<1>1. IInv => Gapless /\ DistinctIds(table)
  BY DEF IInv, SaveInv, LogSound
<1> QED BY Inductive, <1>1, PTL

(***************************************************************************)
(* A batch is in its stream once, whole and on the revision its Save gave,    *)
(* and a Save returns what it did (Save of the four stores).                 *)
(***************************************************************************)
THEOREM SavesAreExpected == Spec => []SavedOnExpectation
<1>1. IInv => SavedOnExpectation
  <2> SUFFICES ASSUME IInv, NEW w \in Saving
      PROVE  /\ By(w) # {} =>
                   LET found == Min({x.position : x \in By(w)}) - 1 IN
                   /\ Cardinality(By(w)) = size(w)
                   /\ {x.position : x \in By(w)} = found + 1 .. found + size(w)
                   /\ Expected(mode(w), found)
                   /\ outcome[w] = "saved" => nextVersion[w] = found + size(w)
             /\ outcome[w] = "saved" => By(w) # {}
             /\ outcome[w] \in {"conflict", "refused"} /\ grpc[w].attempt < 2 => By(w) = {}
    BY DEF SavedOnExpectation
  <2>1. BatchSound(w) /\ AttemptsSound(w) /\ size(w) \in Nat \ {0}
    BY CallFacts DEF IInv, SaveInv, SaverSound
  <2>2. ASSUME By(w) # {}
        PROVE  LET found == Min({x.position : x \in By(w)}) - 1 IN
               /\ Cardinality(By(w)) = size(w)
               /\ {x.position : x \in By(w)} = found + 1 .. found + size(w)
               /\ Expected(mode(w), found)
               /\ outcome[w] = "saved" => nextVersion[w] = found + size(w)
    <3> DEFINE P == {x.position : x \in By(w)}
    <3>1. PICK n \in Nat : BatchAt(w, n)
      BY <2>1, <2>2 DEF BatchSound
    <3>2. /\ P = n + 1 .. n + size(w) /\ Cardinality(By(w)) = size(w)
          /\ Expected(mode(w), n) /\ (outcome[w] = "saved" => nextVersion[w] = n + size(w))
      BY <3>1 DEF BatchAt
    <3> HIDE DEF P
    <3>3. n + 1 \in P /\ \A y \in P : n + 1 <= y /\ y \in Int
      BY <2>1, <3>2
    <3>4. Min(P) \in P /\ \A y \in P : Min(P) <= y
      BY <3>3 DEF Min
    <3>5. Min(P) - 1 = n
      BY <3>3, <3>4
    <3> QED BY <3>2, <3>5 DEF P
  <2>3. outcome[w] \in {"conflict", "refused"} /\ grpc[w].attempt < 2 => By(w) = {}
    BY <2>1 DEF BatchSound, AttemptsSound
  <2> QED BY <2>1, <2>2, <2>3 DEF BatchSound
<1> QED BY Inductive, <1>1, PTL

(***************************************************************************)
(* A load that ends with a nil Err is whole: a broken read never looks like  *)
(* a short stream (LoadStreamFrom, LoadCorrelation, Iterator and Wrap).       *)
(***************************************************************************)
THEOREM LoadsAreWhole == Spec => []LoadIsWhole
<1>1. IInv => LoadIsWhole
  <2> SUFFICES ASSUME IInv, NEW l \in Loading, load[l].pc = "done", load[l].err = "nil"
      PROVE  /\ load[l].atCall \subseteq Given(load[l])
             /\ Given(load[l]) = {id \in Ids(Asked(l)) : id <= MaxOr0(Given(load[l]))}
             /\ InOrder(load[l].got)
             /\ From(l).kind = "NoStream" => Given(load[l]) = {}
             /\ From(l).kind = "StreamExists" => Given(load[l]) # {}
    BY DEF LoadIsWhole, Given, InOrder
  <2>1. /\ LoadSound(l, load[l]) /\ Whole(l, Given(load[l])) /\ Given(load[l]) \subseteq Nat
        /\ \A x \in Asked(l) : x.id \in Nat \ {0}
    BY GivenIsWhole
  <2> DEFINE given == Given(load[l])
             top == MaxOr0(given)
  <2>2. top \in given \cup {0} /\ top \in Nat /\ \A m \in given : m <= top
    BY <2>1, MaxOr0Facts DEF LoadSound
  <2>3. given \subseteq Ids(Asked(l))
    BY <2>1 DEF Whole
  <2>4. ASSUME NEW id \in Ids(Asked(l)), id <= top PROVE id \in given
    <3>1. PICK x \in Asked(l) : x.id = id
      BY DEF Ids
    <3>2. top \in given
      BY <2>1, <2>2, <2>4, <3>1
    <3> QED BY <2>1, <2>4, <3>1, <3>2 DEF Whole
  <2>5. given = {id \in Ids(Asked(l)) : id <= top}
    BY <2>2, <2>3, <2>4
  <2> QED BY <2>1, <2>5 DEF LoadSound
<1> QED BY Inductive, <1>1, PTL

-----------------------------------------------------------------------------
(***************************************************************************)
(* The dashboard's walk backwards.  A walk has shown everything from where   *)
(* it has got to up to the head it began at; while it reads, what it has      *)
(* found is all there is between the start of its window and its cursor, and  *)
(* nothing wanted lies between the end of the page and what is shown.         *)
(***************************************************************************)
BrowseRecords ==
    [pc : {"idle", "range"}, before : Nat, first : Nat, end : Nat, start : Nat,
     cursor : Nat, found : SUBSET Nat, shown : SUBSET Nat, ended : BOOLEAN]

\* A walk has shown what lies from here to the head it began at.
Reached(page) ==
    IF page.ended THEN 1 ELSE IF page.before = 0 THEN page.first + 1 ELSE page.before

PageSound(page) ==
    /\ page.first = 0 \/ \E x \in table : page.first <= x.id
    /\ page.before <= page.first
    /\ page.shown = {id \in Ids(Hits(table)) : Reached(page) <= id /\ id <= page.first}
    /\ page.pc = "range" =>
          /\ ~page.ended
          /\ page.start <= page.cursor /\ page.cursor < page.end
          /\ page.end <= page.first /\ page.end < Reached(page)
          /\ \A x \in Hits(table) : x.id < Reached(page) => x.id <= page.end
          /\ page.found = {id \in Ids(Hits(table)) : page.start < id /\ id <= page.cursor}

\* The in-memory store numbers its events without a hole.
MemDense ==
    On("memory") => Ids(table) = 1 .. nextId - 1 /\ Cardinality(table) = nextId - 1

BrowseInv ==
    /\ MemDense
    /\ browse \in [setup.browsers -> BrowseRecords]
    /\ \A b \in setup.browsers : PageSound(browse[b])

-----------------------------------------------------------------------------
(***************************************************************************)
(* What the dashboard reads of each store.                                   *)
(***************************************************************************)
PageOf(res, from) ==
    /\ res.next \in Nat /\ res.next >= from
    /\ res.events = Between(from, res.next)
    /\ res.atEnd \/ res.next = from => \A x \in Hits(table) : x.id <= res.next

HeadOf(head) ==
    /\ head \in Nat
    /\ \A x \in Hits(table) : x.id <= head
    /\ head = 0 \/ \E x \in table : head <= x.id

LEMMA HeadFacts ==
    ASSUME IInv, MemDense
    PROVE  HeadOf(LogHead)
<1>1. /\ SaveInv /\ nextId \in Nat \ {0} /\ \A x \in table : x.id \in Nat \ {0}
      /\ setup.backend \in {"memory", "sqlite", "postgres", "kurrentdb"}
  BY TableFacts, EventLogAssumption DEF IInv, SaveInv, SaveShape
<1>2. HeadOf(MaxOr0(Ids(table)))
  <2>1. IsFiniteSet(Ids(table)) /\ Ids(table) \subseteq Nat
    BY <1>1, TableFacts
  <2>2. /\ MaxOr0(Ids(table)) \in Ids(table) \cup {0} /\ MaxOr0(Ids(table)) \in Nat
        /\ \A y \in Ids(table) : y <= MaxOr0(Ids(table))
    BY <2>1, MaxOr0Facts
  <2> DEFINE m == MaxOr0(Ids(table))
  <2> HIDE DEF m
  <2>3. m \in Nat /\ m \in Ids(table) \cup {0} /\ \A y \in Ids(table) : y <= m
    BY <2>2 DEF m
  <2>4. \A x \in table : x.id \in Ids(table)
    BY DEF Ids
  <2>5. m = 0 \/ \E x \in table : m <= x.id
    BY <1>1, <2>3 DEF Ids
  <2>6. \A x \in Hits(table) : x.id <= m
    BY <2>3, <2>4 DEF Hits
  <2> QED BY <2>3, <2>5, <2>6 DEF HeadOf, m
<1>3. CASE On("memory")
  <2>1. LogHead = Cardinality(table)
    BY <1>3, MemSame DEF LogHead, On, Mem!LogHead
  <2>2. LogHead = nextId - 1 /\ Ids(table) = 1 .. nextId - 1
    BY <1>3, <2>1 DEF MemDense
  <2>3. \A x \in table : x.id \in 1 .. nextId - 1
    BY <2>2 DEF Ids
  <2>4. \A x \in Hits(table) : x.id <= LogHead
    BY <1>1, <2>2, <2>3 DEF Hits
  <2>5. LogHead = 0 \/ \E x \in table : LogHead <= x.id
    <3> SUFFICES ASSUME LogHead # 0 PROVE \E x \in table : LogHead <= x.id
      OBVIOUS
    <3>1. nextId - 1 \in Ids(table)
      BY <1>1, <2>2
    <3>2. PICK x \in table : x.id = nextId - 1
      BY <3>1 DEF Ids
    <3> QED BY <1>1, <2>2, <3>2
  <2> QED BY <1>1, <2>2, <2>4, <2>5 DEF HeadOf
<1>4. CASE On("sqlite")
  <2>1. LogHead = MaxOr0(Ids(table))
    BY <1>4, LiteSame DEF LogHead, On, Lite!LogHead
  <2> QED BY <1>2, <2>1
<1>5. CASE On("postgres")
  <2>1. LogHead = MaxOr0(Ids(table))
    BY <1>5, PgSame DEF LogHead, On, Pg!LogHead
  <2> QED BY <1>2, <2>1
<1>6. CASE On("kurrentdb")
  <2> DEFINE R == table \ By(System)
             m == MaxOr0(Ids(R))
  <2>1. LogHead = m
    BY <1>6, KurrentSame DEF LogHead, On, Kurrent!LogHead
  <2>2. R \in SUBSET table /\ \A x \in Hits(table) : x \in R
    BY EventLogAssumption DEF Hits, By
  <2>3. IsFiniteSet(Ids(R)) /\ Ids(R) \subseteq Nat
    BY <1>1, <2>2, TableFacts
  <2>4. m \in Ids(R) \cup {0} /\ m \in Nat /\ \A y \in Ids(R) : y <= m
    BY <2>3, MaxOr0Facts
  <2> HIDE DEF R, m
  <2>5. \A x \in R : x.id \in Ids(R)
    BY DEF Ids
  <2>6. \A x \in Hits(table) : x.id <= m
    BY <2>2, <2>4, <2>5
  <2>7. m = 0 \/ \E x \in table : m <= x.id
    BY <1>1, <2>2, <2>4 DEF Ids
  <2> QED BY <2>1, <2>4, <2>6, <2>7 DEF HeadOf
<1> QED BY <1>1, <1>3, <1>4, <1>5, <1>6 DEF On

LEMMA ReadAllFacts ==
    ASSUME IInv, MemDense, NEW from \in Nat, NEW limit \in Nat \ {0}
    PROVE  PageOf(ReadAll(from, limit), from)
<1>1. /\ SaveInv /\ ScanLimit \in Nat \ {0} /\ \A x \in table : x.id \in Nat
      /\ setup.backend \in {"memory", "sqlite", "postgres", "kurrentdb"}
  BY TableFacts, EventLogAssumption DEF IInv, SaveInv, SaveShape
<1>2. HeadOf(LogHead)
  BY HeadFacts
<1>3. CASE On("memory")
  <2> DEFINE rows == {x \in table : x.id > from}
             hits == FirstN(Hits(rows), limit)
             next == IF Cardinality(hits) = limit THEN Max(Ids(hits))
                     ELSE Max(Ids(rows) \cup {from})
  <2>1. ReadAll(from, limit) = [events |-> hits, next |-> next, atEnd |-> next >= LogHead]
    <3>1. /\ Mem!FirstN(Mem!Hits(rows), limit) = hits
          /\ Mem!Cardinality(hits) = Cardinality(hits)
          /\ Mem!Max(Mem!Ids(hits)) = Max(Ids(hits))
          /\ Mem!Max(Mem!Ids(rows) \cup {from}) = Max(Ids(rows) \cup {from})
      BY MemSame
    <3>2. Mem!ReadAll(from, limit)
             = [events |-> hits, next |-> next, atEnd |-> next >= Mem!LogHead]
      BY <3>1, Zenon DEF Mem!ReadAll
    <3> HIDE DEF hits, next
    <3>3. ReadAll(from, limit) = Mem!ReadAll(from, limit) /\ LogHead = Mem!LogHead
      BY <1>3 DEF ReadAll, LogHead, On
    <3> QED BY <3>2, <3>3
  <2> HIDE DEF rows, hits, next
  <2>2. PageIsWhole(hits, from, next) /\ (next = from => rows = {})
    BY <1>1, PageFrom, ZenonT(60) DEF hits, next, rows
  <2>3. rows = {} => \A x \in Hits(table) : x.id <= from
    BY <1>1 DEF rows, Hits
  <2>4. next >= LogHead => \A x \in Hits(table) : x.id <= next
    BY <1>1, <1>2, <2>2 DEF HeadOf, Hits, PageIsWhole
  <2>5. ASSUME NEW res, res = [events |-> hits, next |-> next, atEnd |-> next >= LogHead]
        PROVE  PageOf(res, from)
    BY <2>2, <2>3, <2>4, <2>5 DEF PageOf, PageIsWhole
  <2> QED BY <2>1, <2>5
<1>4. ASSUME NEW res, NEW hits, NEW next, hits = FirstN(Between(from, LogHead), limit),
             next = IF Cardinality(hits) = limit THEN Max(Ids(hits)) ELSE Max({from, LogHead}),
             LogHead \in Ids(table) \cup {0},
             res = [events |-> hits, next |-> next, atEnd |-> next >= LogHead]
      PROVE  PageOf(res, from)
  <2>1. PageIsWhole(hits, from, next) /\ (next = from => LogHead <= from)
    BY <1>1, <1>4, PageUpTo
  <2>2. next >= LogHead => \A x \in Hits(table) : x.id <= next
    BY <1>1, <1>2, <2>1 DEF HeadOf, Hits, PageIsWhole
  <2>3. next = from => next >= LogHead
    BY <1>2, <2>1 DEF HeadOf, PageIsWhole
  <2> QED BY <1>4, <2>1, <2>2, <2>3 DEF PageOf, PageIsWhole
<1>5. MaxOr0(Ids(table)) \in Ids(table) \cup {0}
  BY <1>1, HeadIsRow
<1>6. CASE On("sqlite")
  <2> DEFINE hits == FirstN(Between(from, LogHead), limit)
             next == IF Cardinality(hits) = limit THEN Max(Ids(hits)) ELSE Max({from, LogHead})
  <2>1. LogHead = Lite!LogHead /\ LogHead = MaxOr0(Ids(table))
    BY <1>6, LiteSame DEF LogHead, On, Lite!LogHead
  <2>2. Lite!ReadUpTo(from, LogHead, limit)
           = [events |-> hits, next |-> next, atEnd |-> next >= LogHead]
    <3>1. /\ Lite!FirstN({x \in Lite!Hits(table) : from < x.id /\ x.id <= LogHead}, limit) = hits
          /\ Lite!Cardinality(hits) = Cardinality(hits)
          /\ Lite!Max(Lite!Ids(hits)) = Max(Ids(hits))
          /\ Lite!Max({from, LogHead}) = Max({from, LogHead})
      BY LiteSame DEF Between
    <3> QED BY <3>1, Zenon DEF Lite!ReadUpTo
  <2>3. ReadAll(from, limit) = Lite!ReadUpTo(from, LogHead, limit)
    BY <1>6, <2>1 DEF ReadAll, On
  <2> QED BY <1>4, <1>5, <2>1, <2>2, <2>3
<1>7. CASE On("postgres")
  <2> DEFINE hits == FirstN(Between(from, LogHead), limit)
             next == IF Cardinality(hits) = limit THEN Max(Ids(hits)) ELSE Max({from, LogHead})
  <2>1. LogHead = Pg!LogHead /\ LogHead = MaxOr0(Ids(table))
    BY <1>7, PgSame DEF LogHead, On, Pg!LogHead
  <2>2. Pg!ReadUpTo(from, LogHead, limit)
           = [events |-> hits, next |-> next, atEnd |-> next >= LogHead]
    <3>1. /\ Pg!FirstN({x \in Pg!Hits(table) : from < x.id /\ x.id <= LogHead}, limit) = hits
          /\ Pg!Cardinality(hits) = Cardinality(hits)
          /\ Pg!Max(Pg!Ids(hits)) = Max(Ids(hits))
          /\ Pg!Max({from, LogHead}) = Max({from, LogHead})
      BY PgSame DEF Between
    <3> QED BY <3>1, Zenon DEF Pg!ReadUpTo, Pg!PageNext
  <2>3. ReadAll(from, limit) = Pg!ReadUpTo(from, LogHead, limit)
    BY <1>7, <2>1 DEF ReadAll, On
  <2> QED BY <1>4, <1>5, <2>1, <2>2, <2>3
<1>8. CASE On("kurrentdb")
  <2> DEFINE rows == {x \in table : x.id > from}
             budget == Max({limit, ScanLimit})
             scanned == {x \in FirstN(rows, budget) :
                           Cardinality({y \in Hits(rows) : y.id < x.id}) < limit}
             next == Max(Ids(scanned) \cup {from})
  <2>1. ReadAll(from, limit)
           = [events |-> Hits(scanned), next |-> next, atEnd |-> scanned = rows]
    <3>1. {x \in Kurrent!FirstN(rows, Kurrent!Max({limit, ScanLimit})) :
               Kurrent!Cardinality({y \in Kurrent!Hits(rows) : y.id < x.id}) < limit} = scanned
      BY KurrentSame
    <3>2. /\ Kurrent!Hits(scanned) = Hits(scanned)
          /\ Kurrent!Max(Kurrent!Ids(scanned) \cup {from}) = next
      BY KurrentSame
    <3>3. Kurrent!ReadAll(from, limit)
             = [events |-> Hits(scanned), next |-> next, atEnd |-> scanned = rows]
      BY <3>1, <3>2, Zenon DEF Kurrent!ReadAll
    <3> HIDE DEF scanned, next
    <3>4. ReadAll(from, limit) = Kurrent!ReadAll(from, limit)
      BY <1>8 DEF ReadAll, On
    <3> QED BY <3>3, <3>4
  <2>2. budget \in Nat \ {0}
    <3>1. IsFiniteSet({limit, ScanLimit})
      <4>1. IsFiniteSet({limit}) /\ {limit, ScanLimit} = {limit} \cup {ScanLimit}
        BY FS_Singleton
      <4> QED BY <4>1, FS_AddElement
    <3>2. budget \in {limit, ScanLimit}
      BY <1>1, <3>1, MaxFacts
    <3> QED BY <1>1, <3>2
  <2> HIDE DEF rows, budget, scanned, next
  <2>3. PageIsWhole(Hits(scanned), from, next) /\ (next = from => rows = {})
    <3>1. /\ scanned = Scanned(from, budget, limit) /\ rows = Behind(from)
          /\ next = ScannedTo(from, budget, limit)
      BY DEF rows, scanned, next, Scanned, ScannedTo, Behind
    <3> QED BY <1>1, <2>2, <3>1, PageScanned
  <2>4. scanned = rows => \A x \in Hits(table) : x.id <= next
    <3> SUFFICES ASSUME scanned = rows, NEW x \in Hits(table) PROVE x.id <= next
      OBVIOUS
    <3>1. x.id \in Nat /\ next \in Nat /\ next >= from
      BY <1>1, <2>3 DEF Hits, PageIsWhole
    <3>2. x.id > from => x \in Between(from, next)
      BY <2>3 DEF PageIsWhole, rows, Hits
    <3> QED BY <3>1, <3>2 DEF Between
  <2>5. rows = {} => \A x \in Hits(table) : x.id <= from
    BY <1>1 DEF rows, Hits
  <2>6. ASSUME NEW res,
               res = [events |-> Hits(scanned), next |-> next, atEnd |-> scanned = rows]
        PROVE  PageOf(res, from)
    BY <2>3, <2>4, <2>5, <2>6 DEF PageOf, PageIsWhole
  <2> QED BY <2>1, <2>6
<1> QED BY <1>1, <1>3, <1>6, <1>7, <1>8 DEF On

-----------------------------------------------------------------------------
(***************************************************************************)
(* The log grows behind every walk.                                          *)
(***************************************************************************)
LEMMA WalksStay ==
    ASSUME IInv, BrowseInv, NEW N \in SUBSET Rows, table' = table \cup N,
           \A x \in N, y \in table : y.id < x.id, MemDense',
           UNCHANGED <<setup, browse>>
    PROVE  BrowseInv'
<1>1. \A x \in table \cup N : x.id \in Nat \ {0}
  BY TableFacts DEF IInv, Rows
<1>2. ASSUME NEW b \in setup.browsers PROVE PageSound(browse[b])'
  <2>1. PICK p \in BrowseRecords : p = browse[b] /\ p = browse'[b]
    BY DEF BrowseInv
  <2>2. PageSound(p) /\ p.first \in Nat /\ p.before \in Nat /\ p.cursor \in Nat /\ p.end \in Nat
    BY <2>1 DEF BrowseInv, BrowseRecords
  <2>3. \A x \in N : p.first < x.id
    BY <1>1, <2>2 DEF PageSound
  <2>4. Hits(table)' = Hits(table) \cup Hits(N) /\ Hits(N) \subseteq N
    BY DEF Hits
  <2>5. \A k \in Nat : k <= p.first =>
          \A j : {id \in Ids(Hits(table))' : j <= id /\ id <= k}
                   = {id \in Ids(Hits(table)) : j <= id /\ id <= k}
    <3> SUFFICES ASSUME NEW k \in Nat, k <= p.first, NEW x \in N, x.id <= k PROVE FALSE
      BY <2>4 DEF Ids
    <3> QED BY <1>1, <2>2, <2>3
  <2>6. \A k \in Nat : k <= p.first =>
          \A j : {id \in Ids(Hits(table))' : j < id /\ id <= k}
                   = {id \in Ids(Hits(table)) : j < id /\ id <= k}
    <3> SUFFICES ASSUME NEW k \in Nat, k <= p.first, NEW x \in N, x.id <= k PROVE FALSE
      BY <2>4 DEF Ids
    <3> QED BY <1>1, <2>2, <2>3
  <2>7. Reached(p)' = Reached(p)
    BY DEF Reached
  <2>8. p.pc = "range" =>
          /\ p.found = {id \in Ids(Hits(table))' : p.start < id /\ id <= p.cursor}
          /\ \A x \in Hits(table)' : x.id < Reached(p) => x.id <= p.end
    <3> SUFFICES ASSUME p.pc = "range"
                 PROVE  /\ p.found = {id \in Ids(Hits(table))' : p.start < id /\ id <= p.cursor}
                        /\ \A x \in Hits(table)' : x.id < Reached(p) => x.id <= p.end
      OBVIOUS
    <3>1. /\ ~p.ended /\ p.cursor < p.end /\ p.end <= p.first
          /\ \A x \in Hits(table) : x.id < Reached(p) => x.id <= p.end
          /\ p.found = {id \in Ids(Hits(table)) : p.start < id /\ id <= p.cursor}
          /\ p.before <= p.first
      BY <2>2 DEF PageSound
    <3>2. p.cursor <= p.first
      BY <2>2, <3>1
    <3>3. p.found = {id \in Ids(Hits(table))' : p.start < id /\ id <= p.cursor}
      BY <2>2, <2>6, <3>1, <3>2
    <3>4. \A x \in N : ~(x.id < Reached(p))
      BY <1>1, <2>2, <2>3, <3>1 DEF Reached
    <3> QED BY <2>4, <3>1, <3>3, <3>4
  <2>9. p.shown = {id \in Ids(Hits(table))' : Reached(p) <= id /\ id <= p.first}
    BY <2>2, <2>5 DEF PageSound
  <2>10. PageSound(p)'
    BY <2>2, <2>7, <2>8, <2>9 DEF PageSound
  <2> QED BY <2>1, <2>10
<1> QED BY <1>2 DEF BrowseInv

\* No step of anything but a walk touches a walk, and the log only grows.
Grown ==
    /\ UNCHANGED <<setup, browse>> /\ MemDense'
    /\ \E N \in SUBSET Rows : table' = table \cup N /\ \A x \in N, y \in table : y.id < x.id

LEMMA GrownKeeps ==
    ASSUME IInv, BrowseInv, Grown PROVE BrowseInv'
<1>1. PICK N \in SUBSET Rows : table' = table \cup N /\ \A x \in N, y \in table : y.id < x.id
  BY DEF Grown
<1> QED BY <1>1, WalksStay DEF Grown

LEMMA NotGrown ==
    ASSUME BrowseInv, UNCHANGED <<setup, browse, table>>, On("memory") => nextId' = nextId
    PROVE  Grown
<1>1. MemDense'
  BY DEF BrowseInv, MemDense, On, Ids
<1> DEFINE N == {}
<1>2. N \in SUBSET Rows /\ table' = table \cup N /\ \A x \in N, y \in table : y.id < x.id
  OBVIOUS
<1> HIDE DEF N
<1> QED BY <1>1, <1>2 DEF Grown

LEMMA PendingGrown ==
    ASSUME IInv, ~On("memory"), NEW w \in Saving, table' = table \cup pending[w],
           UNCHANGED <<setup, browse>>
    PROVE  Grown
<1>1. pending[w] \in SUBSET Rows /\ \A x \in pending[w], y \in table : y.id < x.id
  BY DEF IInv, SaveInv, SaveShape, SaverSound, PendingSound
<1>2. MemDense'
  BY DEF MemDense, On
<1> QED BY <1>1, <1>2 DEF Grown

LEMMA BatchGrown ==
    ASSUME IInv, MemDense, ~On("sqlite"), NEW w \in Saving,
           table' = table \cup Batch(w, StreamLength(stream(w))), nextId' = nextId + size(w),
           UNCHANGED <<setup, browse>>
    PROVE  Grown
<1> DEFINE n == StreamLength(stream(w))
           N == Batch(w, n)
<1>1. SaveInv /\ nextId \in Nat \ {0} /\ size(w) \in Nat \ {0} /\ n \in Nat
  BY CallFacts, LengthFacts DEF IInv, SaveInv, SaveShape
<1>2. BatchRows(N, w, n)
  BY <1>1, BatchFacts
<1>3. N \in SUBSET Rows /\ \A x \in N, y \in table : y.id < x.id
  BY <1>2 DEF BatchRows
<1>4. Ids(N) = nextId .. nextId + size(w) - 1
  <2>1. ASSUME NEW k \in nextId .. nextId + size(w) - 1 PROVE \E x \in N : x.id = k
    <3>1. k - nextId \in 0 .. size(w) - 1 /\ nextId + (k - nextId) = k
      BY <1>1
    <3> DEFINE i == k - nextId
               x == [id |-> nextId + i, stream |-> stream(w), position |-> n + i + 1, by |-> w]
    <3>2. x \in N /\ x.id = nextId + i
      BY <3>1 DEF Batch
    <3> QED BY <3>1, <3>2
  <2>2. \A x \in N : x.id \in nextId .. nextId + size(w) - 1
    BY <1>1 DEF Batch
  <2> HIDE DEF N
  <2> QED BY <2>1, <2>2 DEF Ids
<1> HIDE DEF N, n
<1>5. On("memory") => Ids(table') = 1 .. nextId' - 1 /\ Cardinality(table') = nextId' - 1
  <2> SUFFICES ASSUME On("memory")
               PROVE  Ids(table') = 1 .. nextId' - 1 /\ Cardinality(table') = nextId' - 1
    OBVIOUS
  <2>1. Ids(table) = 1 .. nextId - 1 /\ Cardinality(table) = nextId - 1
    BY DEF MemDense
  <2>2. table' = table \cup N
    BY DEF N, n
  <2>3. Ids(table \cup N) = Ids(table) \cup Ids(N)
    BY DEF Ids
  <2>4. Ids(table') = 1 .. nextId' - 1
    <3>1. Ids(table') = (1 .. nextId - 1) \cup (nextId .. nextId + size(w) - 1)
      BY <1>4, <2>1, <2>2, <2>3
    <3>2. PICK m \in Nat \ {0}, k \in Nat \ {0} : m = nextId /\ k = size(w)
      BY <1>1
    <3>3. (1 .. m - 1) \cup (m .. m + k - 1) = 1 .. (m + k) - 1
      OBVIOUS
    <3> QED BY <3>1, <3>2, <3>3
  <2>5. IsFiniteSet(table) /\ IsFiniteSet(N) /\ Cardinality(N) = size(w)
    BY <1>1, <1>2, TableFacts DEF BatchRows
  <2>6. table \cap N = {}
    <3> SUFFICES ASSUME NEW x \in table, x \in N PROVE FALSE
      OBVIOUS
    <3>1. x.id < x.id /\ x.id \in Nat
      BY <1>1, <1>3, TableFacts
    <3> QED BY <3>1
  <2>7. Cardinality(table \cup N) = Cardinality(table) + Cardinality(N)
    <3>1. Cardinality(table \cup N)
             = Cardinality(table) + Cardinality(N) - Cardinality(table \cap N)
      BY <2>5, FS_Union
    <3>2. Cardinality(table \cap N) = 0
      BY <2>6, FS_EmptySet
    <3>3. Cardinality(table) \in Nat /\ Cardinality(N) \in Nat
      BY <2>5, FS_CardinalityType
    <3> QED BY <3>1, <3>2, <3>3
  <2>8. Cardinality(table') = (nextId - 1) + size(w)
    BY <2>1, <2>2, <2>5, <2>7
  <2> QED BY <1>1, <2>4, <2>8
<1>6. MemDense'
  BY <1>5 DEF MemDense, On, Ids
<1>7. table' = table \cup N
  BY DEF N, n
<1> QED BY <1>3, <1>6, <1>7 DEF Grown

LEMMA LogOnlyGrows ==
    ASSUME IInv, BrowseInv,
           \/ \E w \in Saving : CallSave(w) \/ SaveStep(w) \/ FailStep(w)
           \/ \E r \in setup.readers : ReadStep(r)
           \/ \E l \in Loading : LoadStep(l) \/ NextFails(l) \/ Close(l)
           \/ ServerStep
           \/ UNCHANGED vars
    PROVE  Grown
<1>1. MemDense /\ (On("memory") => ~On("sqlite") /\ ~On("postgres") /\ ~On("kurrentdb"))
  BY DEF BrowseInv, On
<1>2. ASSUME NEW w \in Saving, CallSave(w) PROVE Grown
  BY <1>2, NotGrown DEF CallSave
<1>3. ASSUME NEW w \in Saving, On("memory"), Mem!Save(w) PROVE Grown
  <2>1. \/ UNCHANGED <<setup, browse, table, nextId>>
        \/ /\ UNCHANGED <<setup, browse>> /\ nextId' = nextId + size(w)
           /\ table' = table \cup Batch(w, StreamLength(stream(w)))
    BY <1>3, MemSame DEF Mem!Save
  <2> QED BY <1>1, <1>3, <2>1, NotGrown, BatchGrown
<1>4. ASSUME NEW w \in Saving, On("sqlite"), Lite!SaveStep(w) \/ Lite!Fail(w) PROVE Grown
  <2>1. UNCHANGED <<setup, browse>> /\ (table' = table \/ table' = table \cup pending[w])
    BY <1>4 DEF Lite!SaveStep, Lite!Begin, Lite!CheckRevision, Lite!Insert, Lite!Commit, Lite!Fail
  <2> QED BY <1>1, <1>4, <2>1, NotGrown, PendingGrown
<1>5. ASSUME NEW w \in Saving, On("postgres"), Pg!SaveStep(w) \/ Pg!Fail(w) PROVE Grown
  <2>1. UNCHANGED <<setup, browse>> /\ (table' = table \/ table' = table \cup pending[w])
    BY <1>5 DEF Pg!SaveStep, Pg!Begin, Pg!LockStream, Pg!CheckRevision, Pg!LockAppend,
                Pg!Insert, Pg!Commit, Pg!Fail, Pg!Step
  <2> QED BY <1>1, <1>5, <2>1, NotGrown, PendingGrown
<1>6. ASSUME NEW w \in Saving, On("kurrentdb"), Kurrent!SaveStep(w) PROVE Grown
  <2>1. UNCHANGED <<setup, browse, table>>
    BY <1>6 DEF Kurrent!SaveStep, Kurrent!Append1, Kurrent!Retry, Kurrent!GiveUp, Kurrent!Answered
  <2> QED BY <1>1, <1>6, <2>1, NotGrown
<1>7. ASSUME NEW r \in setup.readers, ReadStep(r) PROVE Grown
  <2>1. UNCHANGED <<setup, browse, table, nextId>>
    BY <1>7 DEF ReadStep, Mem!ReadPage, Lite!ReadStep, Lite!PinHead, Lite!ReadPage,
                Pg!ReadStep, Pg!PinHead, Pg!ReadPage, Kurrent!ReadPage, Mem!saveVars,
                Lite!saveVars, Pg!saveVars, Kurrent!saveVars
  <2> QED BY <2>1, NotGrown
<1>8. ASSUME NEW l \in Loading, LoadStep(l) \/ NextFails(l) \/ Close(l) PROVE Grown
  <2>1. UNCHANGED <<setup, browse, table, nextId>>
    <3>1. LoadFrame /\ nextId' = nextId
      BY <1>8, LoadSteps DEF LoadFrame, saveVars
    <3>2. ASSUME NextFails(l) \/ Close(l) PROVE browse' = browse
      BY <3>2 DEF NextFails, Close
    <3>3. ASSUME On("memory") /\ Mem!LoadStep(l) PROVE browse' = browse
      BY <3>3 DEF Mem!LoadStep, Mem!LoadStreamFrom, Mem!LoadCorrelation, Mem!NextOf
    <3>4. ASSUME On("sqlite") /\ Lite!LoadStep(l) PROVE browse' = browse
      BY <3>4 DEF Lite!LoadStep, Lite!LoadStreamFrom, Lite!LoadCorrelation, Lite!NextOf
    <3>5. ASSUME On("postgres") /\ Pg!LoadStep(l) PROVE browse' = browse
      BY <3>5 DEF Pg!LoadStep, Pg!CheckExists, Pg!LoadStreamFrom, Pg!LoadCorrelation, Pg!NextOf
    <3>6. ASSUME On("kurrentdb") /\ Kurrent!LoadStep(l) PROVE browse' = browse
      BY <3>6 DEF Kurrent!LoadStep, Kurrent!LoadStreamFrom, Kurrent!Recv
    <3> QED BY <1>8, <3>1, <3>2, <3>3, <3>4, <3>5, <3>6 DEF LoadStep, LoadFrame
  <2> QED BY <2>1, NotGrown
<1>9. ASSUME ServerStep PROVE Grown
  <2>1. ~On("sqlite") /\ ~On("memory")
    BY <1>9 DEF ServerStep, On
  <2>2. ASSUME NEW w \in Saving, NEW a \in grpc[w].flying, Kurrent!Serve(w, a) PROVE Grown
    <3>1. \/ UNCHANGED <<setup, browse, table>>
          \/ /\ UNCHANGED <<setup, browse>> /\ nextId' = nextId + size(w)
             /\ table' = table \cup Batch(w, StreamLength(stream(w)))
      BY <2>2, KurrentSame DEF Kurrent!Serve
    <3> QED BY <1>1, <2>1, <3>1, NotGrown, BatchGrown
  <2>3. CASE Kurrent!SystemRecord
    <3> DEFINE row == [id |-> nextId, stream |-> System, by |-> System,
                       position |-> Cardinality(By(System)) + 1]
    <3>1. table' = table \cup {row} /\ UNCHANGED <<setup, browse>>
      BY <2>3, KurrentSame DEF Kurrent!SystemRecord
    <3>2. /\ nextId \in Nat \ {0} /\ IsFiniteSet(By(System)) /\ SaveInv
          /\ \A x \in table : x.id < nextId
      <4>1. By(System) \in SUBSET table
        BY DEF By
      <4> QED BY <2>1, <4>1, TableFacts DEF IInv, SaveInv, SaveShape, LogSound
    <3>3. Cardinality(By(System)) \in Nat
      BY <3>2, FS_CardinalityType
    <3>4. row \in Rows /\ row.id = nextId
      BY <3>2, <3>3 DEF Rows
    <3>5. MemDense'
      BY <2>1, <3>1 DEF MemDense, On
    <3> HIDE DEF row
    <3>6. {row} \in SUBSET Rows /\ \A x \in {row}, y \in table : y.id < x.id
      BY <3>2, <3>4
    <3> QED BY <3>1, <3>5, <3>6 DEF Grown
  <2> QED BY <1>9, <2>2, <2>3 DEF ServerStep
<1>10. CASE UNCHANGED vars
  BY <1>10, NotGrown DEF vars, saveVars
<1> QED BY <1>2, <1>3, <1>4, <1>5, <1>6, <1>7, <1>8, <1>9, <1>10 DEF SaveStep, FailStep

-----------------------------------------------------------------------------
(***************************************************************************)
(* The steps of a walk.                                                      *)
(***************************************************************************)
WantedIds == Ids(Hits(table))

LEMMA WantedFacts ==
    ASSUME IInv
    PROVE  /\ WantedIds \subseteq Nat \ {0} /\ IsFiniteSet(WantedIds)
           /\ \A x \in Hits(table) : x.id \in WantedIds
           /\ \A id \in WantedIds : \E x \in Hits(table) : x.id = id
           /\ \A j, k : Ids(Between(j, k)) = {id \in WantedIds : j < id /\ id <= k}
<1>1. Hits(table) \in SUBSET table /\ SaveInv /\ \A x \in table : x.id \in Nat \ {0}
  BY TableFacts DEF Hits, IInv
<1>2. IsFiniteSet(Ids(Hits(table)))
  BY <1>1, TableFacts
<1>3. \A j, k : Ids(Between(j, k)) = {id \in Ids(Hits(table)) : j < id /\ id <= k}
  BY DEF Between, Ids
<1> QED BY <1>1, <1>2, <1>3 DEF WantedIds, Ids

LEMMA PageMoves ==
    ASSUME BrowseInv, NEW b \in setup.browsers, NEW rec \in BrowseRecords, PageSound(rec),
           browse' = [browse EXCEPT ![b] = rec], UNCHANGED <<setup, table, saveVars>>
    PROVE  BrowseInv'
<1>1. setup' = setup /\ table' = table /\ nextId' = nextId
  BY DEF saveVars
<1>2. MemDense'
  BY <1>1 DEF BrowseInv, MemDense, On, Ids
<1>3. ASSUME NEW c \in setup.browsers PROVE PageSound(browse[c])'
  <2>1. PICK p \in BrowseRecords : p = browse'[c] /\ PageSound(p)
    BY <1>3 DEF BrowseInv
  <2>2. PageSound(p)'
    BY <1>1, <2>1 DEF PageSound, Reached, Ids, Hits
  <2> QED BY <2>1, <2>2
<1>4. browse' \in [setup.browsers -> BrowseRecords]
  BY DEF BrowseInv
<1> QED BY <1>1, <1>2, <1>3, <1>4 DEF BrowseInv

LEMMA WindowFacts ==
    ASSUME NEW end \in Nat \ {0}, NEW n \in Nat \ {0}
    PROVE  WindowStart(end, n) \in Nat /\ WindowStart(end, n) < end
BY DEF WindowStart

LEMMA RequestKeeps ==
    ASSUME IInv, BrowseInv, NEW b \in setup.browsers, RequestPage(b)
    PROVE  BrowseInv'
<1>1. PICK p \in BrowseRecords : p = browse[b] /\ PageSound(p)
  BY DEF BrowseInv
<1>2. PICK head \in Nat : head = LogHead /\ HeadOf(head)
  <2>1. HeadOf(LogHead)
    BY HeadFacts DEF BrowseInv
  <2> QED BY <2>1 DEF HeadOf
<1>3. /\ p.before \in Nat /\ p.first \in Nat /\ p.shown \in SUBSET Nat
      /\ p.before <= p.first /\ p.ended = FALSE /\ Limit \in Nat \ {0}
  BY <1>1, EventLogAssumption DEF BrowseRecords, PageSound, RequestPage
<1> DEFINE end == IF p.before > 0 /\ p.before - 1 < head THEN p.before - 1 ELSE head
           start == WindowStart(end, Limit)
           first == IF p.before = 0 THEN head ELSE p.first
           rec == [p EXCEPT !.pc = IF end = 0 THEN "idle" ELSE "range", !.ended = (end = 0),
                            !.first = first, !.end = end, !.start = start,
                            !.cursor = start, !.found = {}]
<1>4. end \in Nat /\ start \in Nat /\ first \in Nat /\ (end # 0 => start < end)
  BY <1>2, <1>3 DEF WindowStart
<1>5. browse' = [browse EXCEPT ![b] = rec] /\ UNCHANGED <<setup, table, saveVars>>
  BY <1>1, <1>2, Zenon DEF RequestPage
<1> HIDE DEF start
<1>6. /\ rec.pc = (IF end = 0 THEN "idle" ELSE "range") /\ (rec.ended <=> end = 0)
      /\ rec.first = first /\ rec.end = end /\ rec.start = start /\ rec.cursor = start
      /\ rec.found = {} /\ rec.before = p.before /\ rec.shown = p.shown
      /\ rec \in BrowseRecords
  BY <1>4 DEF BrowseRecords
<1> HIDE DEF rec
<1> DEFINE H == Ids(Hits(table))
<1>7. /\ H \subseteq Nat \ {0} /\ \A x \in Hits(table) : x.id \in H
      /\ \A id \in H : id <= head
      /\ head = 0 \/ \E x \in table : head <= x.id
  BY <1>2, WantedFacts DEF WantedIds, HeadOf
<1>8. p.shown = {id \in H : Reached(p) <= id /\ id <= p.first}
  BY <1>1 DEF PageSound
<1>9. Reached(p) = IF p.before = 0 THEN p.first + 1 ELSE p.before
  BY <1>3 DEF Reached
<1>10. Reached(rec) = IF end = 0 THEN 1 ELSE IF p.before = 0 THEN first + 1 ELSE p.before
  BY <1>6 DEF Reached
<1>11. first = 0 \/ \E x \in table : first <= x.id
  BY <1>1, <1>7 DEF PageSound
<1>12. rec.shown = {id \in H : Reached(rec) <= id /\ id <= rec.first}
  <2> HIDE DEF H
  <2>1. CASE p.before = 0
    <3>1. p.shown = {}
      BY <1>3, <1>7, <1>8, <1>9, <2>1
    <3>2. \A id \in H : ~(Reached(rec) <= id /\ id <= rec.first)
      BY <1>2, <1>6, <1>7, <1>10, <2>1
    <3> QED BY <1>6, <3>1, <3>2
  <2>2. CASE p.before # 0
    <3>1. \A id \in H : Reached(rec) <= id <=> p.before <= id
      BY <1>2, <1>3, <1>7, <1>10, <2>2
    <3> QED BY <1>6, <1>8, <1>9, <2>2, <3>1
  <2> QED BY <2>1, <2>2
<1>13. end # 0 => end <= first /\ end < Reached(rec)
  BY <1>2, <1>3, <1>4, <1>10
<1>14. end # 0 => \A x \in Hits(table) : x.id < Reached(rec) => x.id <= end
  <2> SUFFICES ASSUME end # 0, NEW x \in Hits(table), x.id < Reached(rec)
               PROVE  x.id <= end
    OBVIOUS
  <2>1. x.id \in Nat /\ x.id <= head
    BY <1>7
  <2> QED BY <1>2, <1>3, <1>10, <2>1
<1>15. rec.found = {id \in H : rec.start < id /\ id <= rec.cursor}
  <2> HIDE DEF H
  <2>1. \A id \in H : ~(start < id /\ id <= start)
    BY <1>4, <1>7
  <2> QED BY <1>6, <2>1
<1>16. PageSound(rec)
  <2> HIDE DEF end, first
  <2> QED BY <1>3, <1>4, <1>6, <1>11, <1>12, <1>13, <1>14, <1>15 DEF PageSound, first
<1> HIDE DEF H, end, first
<1> QED BY <1>5, <1>6, <1>16, PageMoves

IsShown(rec, p, ids, older) ==
    /\ rec \in BrowseRecords /\ rec.pc = "idle" /\ rec.before = older
    /\ rec.first = p.first /\ rec.shown = p.shown \cup ids
    /\ rec.ended <=> older = 0

LEMMA ShownFacts ==
    ASSUME NEW p \in BrowseRecords, NEW ids \in SUBSET Nat, NEW older \in Nat
    PROVE  IsShown(Shown(p, ids, older), p, ids, older)
<1>1. p.shown \cup ids \in SUBSET Nat
  BY DEF BrowseRecords
<1> QED BY <1>1 DEF BrowseRecords, Shown, IsShown

LEMMA FailsKeeps ==
    ASSUME IInv, BrowseInv, NEW b \in setup.browsers, PageFails(b)
    PROVE  BrowseInv'
<1>1. PICK p \in BrowseRecords : p = browse[b] /\ PageSound(p)
  BY DEF BrowseInv
<1> DEFINE q == Shown(p, {}, p.before)
           rec == [q EXCEPT !.ended = FALSE]
<1>2. browse' = [browse EXCEPT ![b] = rec] /\ UNCHANGED <<setup, table, saveVars>>
  BY <1>1 DEF PageFails
<1>3. p.pc = "range" /\ p.ended = FALSE
  BY <1>1 DEF PageFails, PageSound, BrowseRecords
<1>4. /\ rec \in BrowseRecords /\ rec.pc = "idle" /\ rec.before = p.before
      /\ rec.first = p.first /\ rec.shown = p.shown /\ rec.ended = FALSE
  <2>1. /\ p.before \in Nat /\ p.shown \cup {} = p.shown /\ {} \in SUBSET Nat
        /\ q = Shown(p, {}, p.before)
    BY DEF BrowseRecords
  <2> HIDE DEF q
  <2>2. /\ q \in BrowseRecords /\ q.pc = "idle" /\ q.before = p.before
        /\ q.first = p.first /\ q.shown = p.shown
    <3>1. PICK ids \in SUBSET Nat : ids = {}
      BY <2>1
    <3>2. IsShown(q, p, ids, p.before)
      BY <2>1, <3>1, ShownFacts
    <3> QED BY <2>1, <3>1, <3>2 DEF IsShown
  <2> QED BY <2>2 DEF BrowseRecords
<1> HIDE DEF rec
<1>5. Reached(rec) = Reached(p)
  BY <1>3, <1>4 DEF Reached
<1>6. PageSound(rec)
  BY <1>1, <1>4, <1>5 DEF PageSound
<1> QED BY <1>2, <1>4, <1>6, PageMoves

\* Once the window is read, `found` is all there is in it.
WindowRead(p, found) ==
    /\ p.pc = "range" /\ PageSound(p)
    /\ found = {id \in WantedIds : p.start < id /\ id <= p.end}

\* A page is shown that goes on from where the last one stopped.
LEMMA ShownKeeps ==
    ASSUME IInv, NEW p \in BrowseRecords, NEW found, WindowRead(p, found),
           NEW ids, NEW older \in Nat, NEW rec, rec = Shown(p, ids, older),
           older = 0 => p.start = 0,
           older <= p.end,
           older # 0 => p.start < older,
           ids = {id \in found : older <= id}
    PROVE  rec \in BrowseRecords /\ PageSound(rec)
<1>1. /\ WantedIds \subseteq Nat \ {0} /\ \A x \in Hits(table) : x.id \in WantedIds
      /\ \A id \in WantedIds : \E x \in Hits(table) : x.id = id
  BY WantedFacts
<1>2. /\ p.start \in Nat /\ p.end \in Nat /\ p.first \in Nat /\ p.before \in Nat
      /\ p.shown \in SUBSET Nat /\ p.ended \in BOOLEAN
  BY DEF BrowseRecords
<1>3. /\ p.first = 0 \/ \E x \in table : p.first <= x.id
      /\ p.before <= p.first /\ ~p.ended
      /\ p.shown = {id \in WantedIds : Reached(p) <= id /\ id <= p.first}
      /\ p.end <= p.first /\ p.end < Reached(p)
      /\ \A x \in Hits(table) : x.id < Reached(p) => x.id <= p.end
      /\ found = {id \in WantedIds : p.start < id /\ id <= p.end}
  BY DEF WindowRead, PageSound, WantedIds
<1>4. ids \in SUBSET Nat
  BY <1>1, <1>3
<1>5. /\ rec \in BrowseRecords /\ rec.pc = "idle" /\ rec.before = older
      /\ rec.first = p.first /\ rec.shown = p.shown \cup ids
      /\ rec.ended <=> older = 0
  <2>1. IsShown(Shown(p, ids, older), p, ids, older)
    BY <1>4, ShownFacts
  <2>2. IsShown(rec, p, ids, older)
    BY <2>1
  <2> QED BY <2>2 DEF IsShown
<1>6. Reached(p) \in Nat
  BY <1>2, <1>3 DEF Reached
<1>7. Reached(rec) = IF older = 0 THEN 1 ELSE older
  BY <1>5 DEF Reached
<1>8. rec.shown = {id \in WantedIds : Reached(rec) <= id /\ id <= rec.first}
  <2>1. ASSUME NEW id \in WantedIds
        PROVE  id \in p.shown \cup ids <=> Reached(rec) <= id /\ id <= p.first
    <3>1. id \in Nat \ {0} /\ (id < Reached(p) => id <= p.end)
      BY <1>1, <1>3
    <3>2. id \in ids <=> p.start < id /\ id <= p.end /\ older <= id
      BY <1>3
    <3>3. id \in p.shown <=> Reached(p) <= id /\ id <= p.first
      BY <1>3
    <3> QED BY <1>2, <1>3, <1>6, <1>7, <3>1, <3>2, <3>3
  <2>2. p.shown \cup ids \subseteq WantedIds
    BY <1>3
  <2> QED BY <1>5, <2>1, <2>2
<1>9. older <= p.first
  BY <1>2, <1>3
<1> QED BY <1>3, <1>5, <1>8, <1>9 DEF PageSound, WantedIds

LEMMA JudgeKeeps ==
    ASSUME IInv, NEW p \in BrowseRecords, NEW found, WindowRead(p, found),
           NEW rec, rec = Judge(p, found)
    PROVE  rec \in BrowseRecords /\ PageSound(rec)
<1>1. /\ WantedIds \subseteq Nat \ {0} /\ IsFiniteSet(WantedIds)
  BY WantedFacts
<1>2. /\ p.start \in Nat /\ p.end \in Nat /\ p.first \in Nat /\ p.cursor \in Nat
      /\ Limit \in Nat \ {0} /\ MaxEventScan \in Nat \ {0}
  BY EventLogAssumption DEF BrowseRecords
<1>3. /\ p.start <= p.cursor /\ p.cursor < p.end /\ p.pc = "range"
      /\ found = {id \in WantedIds : p.start < id /\ id <= p.end}
  BY DEF WindowRead, PageSound
<1>4. /\ found \in SUBSET WantedIds /\ IsFiniteSet(found) /\ found \subseteq Nat \ {0}
      /\ Cardinality(found) \in Nat
  <2>1. found \in SUBSET WantedIds
    BY <1>3
  <2> QED BY <1>1, <2>1, FS_Subset, FS_CardinalityType
<1> DEFINE Above(id) == {x \in found : x >= id}
           newest == {id \in found : Cardinality(Above(id)) <= Limit}
           window == p.end - p.start
           wider == WindowStart(p.end, Min({window * 4, MaxEventScan}))
<1>5. CASE Cardinality(found) >= Limit
  <2>1. rec = Shown(p, newest, Min(newest))
    <3>1. ~(Cardinality(found) < Limit)
      BY <1>2, <1>4, <1>5
    <3> QED BY <1>5, <3>1, Zenon DEF Judge
  <2>2. found # {}
    BY <1>2, <1>5, FS_EmptySet
  <2>3. PICK top \in found : \A x \in found : top >= x
    <3>1. found \subseteq Nat
      BY <1>4
    <3> QED BY <1>4, <2>2, <3>1, GreatestNat
  <2>4. top \in newest
    <3>1. Above(top) = {top}
      <4>1. \A x \in found : x \in Nat /\ top >= x
        BY <1>4, <2>3
      <4> QED BY <4>1
    <3>2. Cardinality(Above(top)) = 1
      BY <3>1, FS_Singleton
    <3> HIDE DEF Above
    <3> QED BY <1>2, <3>2
  <2>5. newest \in SUBSET found /\ newest # {} /\ newest \subseteq Nat
    BY <1>4, <2>4
  <2>6. PICK m \in newest : m = Min(newest) /\ \A k \in newest : m <= k
    <3> HIDE DEF newest
    <3>1. PICK m \in newest : \A k \in newest : m <= k
      BY <2>5, LeastNat
    <3>2. Min(newest) \in newest /\ \A k \in newest : Min(newest) <= k
      BY <3>1 DEF Min
    <3> QED BY <3>2
  <2>7. ASSUME NEW id \in found, m <= id PROVE id \in newest
    <3>1. Above(id) \in SUBSET Above(m) /\ Above(m) \in SUBSET found
      <4>1. m \in Nat /\ id \in Nat /\ \A x \in found : x \in Nat
        BY <1>4, <2>5
      <4>2. \A x \in found : x >= id => x >= m
        BY <2>7, <4>1
      <4> QED BY <4>2
    <3>2. IsFiniteSet(Above(m)) /\ Cardinality(Above(m)) <= Limit
      BY <1>4, <3>1, FS_Subset
    <3>3. /\ Cardinality(Above(id)) <= Cardinality(Above(m))
          /\ Cardinality(Above(id)) \in Nat /\ Cardinality(Above(m)) \in Nat
      BY <3>1, <3>2, FS_Subset, FS_CardinalityType
    <3>4. Cardinality(Above(id)) <= Limit
      <4> HIDE DEF Above
      <4> QED BY <1>2, <3>2, <3>3
    <3> QED BY <3>4
  <2> HIDE DEF newest
  <2>8. newest = {id \in found : m <= id}
    BY <2>5, <2>6, <2>7
  <2>9. m \in Nat /\ m # 0 /\ p.start < m /\ m <= p.end
    BY <1>3, <1>4, <2>5
  <2> QED BY <2>1, <2>6, <2>8, <2>9, ShownKeeps
<1>6. CASE Cardinality(found) < Limit /\ p.start = 0
  <2>1. rec = Shown(p, found, 0)
    <3>1. ~(Cardinality(found) >= Limit)
      BY <1>2, <1>4, <1>6
    <3> QED BY <1>6, <3>1, Zenon DEF Judge
  <2>2. found = {id \in found : 0 <= id}
    <3>1. \A id \in found : 0 <= id
      BY <1>4
    <3> QED BY <3>1
  <2> QED BY <1>2, <1>6, <2>1, <2>2, ShownKeeps
<1>7. CASE Cardinality(found) < Limit /\ p.start # 0 /\ window >= MaxEventScan
  <2>1. rec = Shown(p, found, p.start + 1)
    <3>1. ~(Cardinality(found) >= Limit)
      BY <1>2, <1>4, <1>7
    <3> QED BY <1>7, <3>1, Zenon DEF Judge, OlderThanScan
  <2>2. found = {id \in found : p.start + 1 <= id}
    BY <1>2, <1>3, <1>4
  <2>3. p.start + 1 \in Nat /\ p.start + 1 # 0 /\ p.start < p.start + 1 /\ p.start + 1 <= p.end
    BY <1>2, <1>3
  <2> QED BY <2>1, <2>2, <2>3, ShownKeeps
<1>8. CASE Cardinality(found) < Limit /\ p.start # 0 /\ ~(window >= MaxEventScan)
  <2>1. rec = [p EXCEPT !.start = wider, !.cursor = wider, !.found = {}]
    <3>1. ~(Cardinality(found) >= Limit)
      BY <1>2, <1>4, <1>8
    <3> QED BY <1>8, <3>1, Zenon DEF Judge
  <2>2. Min({window * 4, MaxEventScan}) \in Nat \ {0}
    <3> DEFINE S == {window * 4, MaxEventScan}
    <3>1. window \in Nat \ {0} /\ window * 4 \in Nat \ {0}
      BY <1>2, <1>3
    <3>2. S \subseteq Nat /\ S # {}
      BY <1>2, <3>1
    <3> HIDE DEF S
    <3>3. PICK m \in S : \A k \in S : m <= k
      BY <3>2, LeastNat
    <3>4. Min(S) \in S
      BY <3>3 DEF Min
    <3> HIDE DEF window
    <3> QED BY <1>2, <3>1, <3>4 DEF S
  <2>3. p.end \in Nat \ {0}
    BY <1>2, <1>3
  <2>4. wider \in Nat /\ wider < p.end
    BY <2>2, <2>3, WindowFacts
  <2> HIDE DEF wider
  <2>5. /\ rec \in BrowseRecords /\ rec.pc = "range" /\ rec.start = wider /\ rec.cursor = wider
        /\ rec.found = {} /\ rec.first = p.first /\ rec.before = p.before
        /\ rec.shown = p.shown /\ rec.ended = p.ended /\ rec.end = p.end
    BY <1>3, <2>1, <2>4 DEF BrowseRecords
  <2>6. Reached(rec) = Reached(p)
    BY <2>5 DEF Reached
  <2>7. rec.found = {id \in WantedIds : rec.start < id /\ id <= rec.cursor}
    <3>1. \A id \in WantedIds : ~(wider < id /\ id <= wider)
      BY <1>1, <2>4
    <3> QED BY <2>5, <3>1
  <2>8. PageSound(p)
    BY DEF WindowRead
  <2>9. wider <= wider
    BY <2>4
  <2> QED BY <1>3, <2>4, <2>5, <2>6, <2>7, <2>8, <2>9 DEF PageSound, WantedIds
<1> QED BY <1>2, <1>4, <1>5, <1>6, <1>7, <1>8

LEMMA ReadRangeKeeps ==
    ASSUME IInv, BrowseInv, NEW b \in setup.browsers, ReadRange(b)
    PROVE  BrowseInv'
<1>1. PICK p \in BrowseRecords : p = browse[b] /\ PageSound(p)
  BY DEF BrowseInv
<1>2. /\ p.pc = "range" /\ p.start \in Nat /\ p.end \in Nat /\ p.cursor \in Nat
      /\ p.start <= p.cursor /\ p.cursor < p.end /\ ~p.ended
      /\ p.found = {id \in WantedIds : p.start < id /\ id <= p.cursor}
  BY <1>1 DEF ReadRange, BrowseRecords, PageSound, WantedIds
<1> DEFINE res == ReadAll(p.cursor, MaxEventPage)
           found == p.found \cup {id \in Ids(res.events) : id <= p.end}
           over == \/ \E row \in res.events : row.id > p.end
                   \/ res.atEnd \/ res.next <= p.cursor \/ res.next >= p.end
           rec == IF over THEN Judge(p, found)
                  ELSE [p EXCEPT !.found = found, !.cursor = res.next]
<1>3. browse' = [browse EXCEPT ![b] = rec] /\ UNCHANGED <<setup, table, saveVars>>
  BY <1>1, Zenon DEF ReadRange
<1>4. PageOf(res, p.cursor)
  BY <1>2, ReadAllFacts, EventLogAssumption DEF BrowseInv
<1> HIDE DEF res
<1>5. /\ res.next \in Nat /\ res.next >= p.cursor /\ res.events = Between(p.cursor, res.next)
      /\ (res.atEnd \/ res.next = p.cursor) => \A x \in Hits(table) : x.id <= res.next
  BY <1>4 DEF PageOf
<1>6. /\ WantedIds \subseteq Nat \ {0}
      /\ \A id \in WantedIds : \E x \in Hits(table) : x.id = id
      /\ Ids(res.events) = {id \in WantedIds : p.cursor < id /\ id <= res.next}
  BY <1>5, WantedFacts
<1>7. CASE over
  <2>1. \A id \in WantedIds : p.cursor < id /\ id <= p.end => id <= res.next
    <3>1. CASE \E row \in res.events : row.id > p.end
      <4>1. PICK row \in res.events : row.id > p.end
        BY <3>1
      <4>2. row.id <= res.next /\ row.id \in Nat
        BY <1>5, TableFacts DEF Between, Hits, IInv
      <4> QED BY <1>2, <1>5, <1>6, <4>1, <4>2
    <3>2. CASE res.atEnd \/ res.next <= p.cursor
      <4>1. res.atEnd \/ res.next = p.cursor
        BY <1>2, <1>5, <3>2
      <4>2. \A x \in Hits(table) : x.id <= res.next
        BY <1>5, <4>1
      <4> QED BY <1>6, <4>2
    <3>3. CASE res.next >= p.end
      BY <1>2, <1>5, <1>6, <3>3
    <3> QED BY <1>7, <3>1, <3>2, <3>3
  <2>2. found = {id \in WantedIds : p.start < id /\ id <= p.end}
    <3>1. \A id \in WantedIds : id \in found <=> p.start < id /\ id <= p.end
      BY <1>2, <1>5, <1>6, <2>1
    <3>2. found \subseteq WantedIds
      BY <1>2, <1>6
    <3> HIDE DEF found
    <3> QED BY <3>1, <3>2
  <2> HIDE DEF found, over
  <2>3. WindowRead(p, found) /\ rec = Judge(p, found)
    BY <1>1, <1>2, <1>7, <2>2 DEF WindowRead
  <2>4. rec \in BrowseRecords /\ PageSound(rec)
    <3> HIDE DEF rec
    <3> QED BY <2>3, JudgeKeeps
  <2> HIDE DEF rec
  <2> QED BY <1>3, <2>4, PageMoves
<1>8. CASE ~over
  <2>1. res.next > p.cursor /\ res.next < p.end
    BY <1>2, <1>5, <1>8
  <2>2. found = {id \in WantedIds : p.start < id /\ id <= res.next}
    <3>1. \A id \in WantedIds : id \in found <=> p.start < id /\ id <= res.next
      BY <1>2, <1>5, <1>6, <2>1
    <3>2. found \subseteq WantedIds
      BY <1>2, <1>6
    <3> HIDE DEF found
    <3> QED BY <3>1, <3>2
  <2>3. found \in SUBSET Nat
    BY <1>6, <2>2
  <2> HIDE DEF found, over
  <2>4. rec = [p EXCEPT !.found = found, !.cursor = res.next]
    BY <1>8
  <2> HIDE DEF rec
  <2>5. /\ rec \in BrowseRecords /\ rec.pc = "range" /\ rec.start = p.start
        /\ rec.cursor = res.next /\ rec.found = found /\ rec.first = p.first
        /\ rec.before = p.before /\ rec.shown = p.shown /\ rec.ended = p.ended
        /\ rec.end = p.end
    BY <1>2, <1>5, <2>3, <2>4 DEF BrowseRecords
  <2>6. Reached(rec) = Reached(p)
    BY <2>5 DEF Reached
  <2>7. p.start <= res.next
    BY <1>2, <1>5
  <2>8. PageSound(rec)
    BY <1>1, <1>2, <2>1, <2>2, <2>5, <2>6, <2>7 DEF PageSound, WantedIds
  <2> QED BY <1>3, <2>5, <2>8, PageMoves
<1> QED BY <1>7, <1>8

LEMMA BrowseInitially == ASSUME Init PROVE BrowseInv
<1>1. /\ setup \in Setups /\ table = {} /\ nextId = 1
      /\ browse = [b \in setup.browsers |->
                     [pc |-> "idle", before |-> 0, first |-> 0, end |-> 0, start |-> 0,
                      cursor |-> 0, found |-> {}, shown |-> {}, ended |-> FALSE]]
  BY DEF Init
<1>2. MemDense
  BY <1>1, FS_EmptySet DEF MemDense, Ids
<1>3. browse \in [setup.browsers -> BrowseRecords]
  BY <1>1 DEF BrowseRecords
<1>4. ASSUME NEW b \in setup.browsers PROVE PageSound(browse[b])
  BY <1>1 DEF PageSound, Ids, Hits
<1> QED BY <1>2, <1>3, <1>4 DEF BrowseInv

(***************************************************************************)
(* However the log grows under it, whatever the scan budget and the size of   *)
(* its pages and however often a read fails, a walk backwards through the     *)
(* dashboard has shown every wanted event from where it began to where it is  *)
(* (readBackwards and readRange of dashboard/events.go).                      *)
(***************************************************************************)
THEOREM WalksAreComplete == Spec => []BackwardsComplete
<1>1. Init => BrowseInv
  BY BrowseInitially
<1>2. IInv /\ BrowseInv /\ [Next]_vars => BrowseInv'
  <2> SUFFICES ASSUME IInv, BrowseInv, [Next]_vars PROVE BrowseInv'
    OBVIOUS
  <2>1. CASE \E b \in setup.browsers : BrowseStep(b)
    BY <2>1, RequestKeeps, ReadRangeKeeps, FailsKeeps DEF BrowseStep
  <2>2. CASE ~\E b \in setup.browsers : BrowseStep(b)
    BY <2>2, LogOnlyGrows, GrownKeeps DEF Next
  <2> QED BY <2>1, <2>2
<1>3. BrowseInv => BackwardsComplete
  <2> SUFFICES ASSUME BrowseInv, NEW b \in setup.browsers
               PROVE  browse[b].shown =
                        {id \in Ids(Hits(table)) :
                            Reached(browse[b]) <= id /\ id <= browse[b].first}
    BY DEF BackwardsComplete, Reached
  <2> QED BY DEF BrowseInv, PageSound
<1> QED BY <1>1, <1>2, <1>3, Inductive, PTL DEF Spec

=============================================================================
