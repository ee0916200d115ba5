------------------------- MODULE SQLAutomationStore -------------------------
(***************************************************************************)
(* The automation stores of postgres/automation_store.go and                 *)
(* sqlite/automation_store.go. A call is a transaction of several steps,     *)
(* between which the other instances' transactions and the clock move.       *)
(*                                                                          *)
(* PostgreSQL locks the rows a transaction writes, one after the other, and  *)
(* its now() is the instant the transaction began; a call that waits for     *)
(* locks judges leases by a clock that stands still. SQLite has one write    *)
(* lock, taken by BEGIN IMMEDIATE; its statements read the clock, and a      *)
(* transaction that has the lock waits for nothing more.                     *)
(*                                                                          *)
(* Keys first seen or served by transactions that overlap wait in the order  *)
(* these commit.                                                             *)
(***************************************************************************)
EXTENDS AutomationStore

CONSTANTS
    Backends,       \* subset of {"postgres", "sqlite"}
    Ends,           \* how segments are released, pairs <<pause, served>>
    MaxCalls,       \* how many calls the instances make
    MaxFaults       \* how many of them fail or lose their answer

ASSUME BackendAssumption ==
    /\ Backends \subseteq {"postgres", "sqlite"}
    /\ Ends \subseteq (Pauses \cup {0}) \X BOOLEAN

VARIABLES
    backend,
    call,           \* the call each instance has under way; its scheduler's
                    \* mutex lets it make one at a time
    holds,          \* the leases each instance was told it holds
    calls, faults

vars == <<rows, line, backend, call, holds, calls, faults>>

Ops == {"none", "acquire", "renew", "release", "defer"}

\* keys are the rows a call is about and max its limit, epoch the leases
\* it presents; touched are the rows it has locked or written, grant those it
\* means to give out once it has read them; age is its time since it began.
NoCall == [op |-> "none", keys |-> {}, max |-> 0, pause |-> 0, served |-> FALSE,
           epoch |-> [k \in Segments |-> 0], age |-> 0, began |-> FALSE,
           touched |-> {}, read |-> FALSE, grant |-> {}]

Nothing == [epoch |-> 0, until |-> Oldest]

TypeOK ==
    /\ StoreTypeOK
    /\ backend \in Backends
    /\ call \in [Owners -> [op : Ops, keys : SUBSET Segments,
                            max : 0 .. Cardinality(Segments), pause : Pauses \cup {0},
                            served : BOOLEAN, epoch : [Segments -> 0 .. Epochs - 1],
                            age : 0 .. -Oldest, began : BOOLEAN,
                            touched : SUBSET Segments, read : BOOLEAN,
                            grant : SUBSET Segments]]
    /\ holds \in [Owners -> [Segments -> [epoch : 0 .. Epochs - 1, until : Instants]]]
    /\ calls \in 0 .. MaxCalls /\ faults \in 0 .. MaxFaults

Init ==
    /\ StoreInit
    /\ backend \in Backends
    /\ call = [o \in Owners |-> NoCall]
    /\ holds = [o \in Owners |-> [k \in Segments |-> Nothing]]
    /\ calls = 0 /\ faults = 0

-----------------------------------------------------------------------------

Believed(o) == {k \in Segments : holds[o][k].until > Oldest}

LeasesOf(o, ks) == [k \in Segments |-> IF k \in ks THEN holds[o][k].epoch ELSE 0]

AcquireCall(ks, m) == [NoCall EXCEPT !.op = "acquire", !.keys = ks, !.max = m]

RenewCall(o, ks) == [NoCall EXCEPT !.op = "renew", !.keys = ks, !.epoch = LeasesOf(o, ks)]

ReleaseCall(o, ks, pause, served) ==
    [NoCall EXCEPT !.op = "release", !.keys = ks, !.pause = pause, !.served = served,
                   !.epoch = LeasesOf(o, ks)]

DeferCall(k, pause) == [NoCall EXCEPT !.op = "defer", !.keys = {k}, !.pause = pause]

\* The calls an instance's scheduler makes: uniqueCandidates makes the
\* candidates a set, a call about nothing returns at once.
Requests(o) ==
    (UNION {{AcquireCall(ks, m) : m \in 1 .. Cardinality(ks)} : ks \in SUBSET Segments})
    \cup {RenewCall(o, Believed(o))}
    \cup {ReleaseCall(o, ks, e[1], e[2]) : ks \in SUBSET Believed(o), e \in Ends}
    \cup {DeferCall(k, d) : k \in Segments, d \in Pauses}

\* A scheduler forgets a segment as it releases it.
Call(o) ==
    /\ call[o].op = "none" /\ calls < MaxCalls /\ calls' = calls + 1
    /\ \E q \in {q \in Requests(o) : q.keys # {}} :
         /\ call' = [call EXCEPT ![o] = q]
         /\ holds' = [holds EXCEPT ![o] = [k \in Segments |->
                         IF q.op = "release" /\ k \in q.keys THEN Nothing ELSE @[k]]]
    /\ UNCHANGED <<rows, line, backend, faults>>

\* The clock a call reads.
At(o) == IF backend = "postgres" THEN -call[o].age ELSE 0

Presents(o, k) == [key |-> k, owner |-> o, epoch |-> call[o].epoch[k]]

MutantRenewWhere(o, k) == Fences(rows, Presents(o, k))

\* The rows that Renew and Release update: a lease that is renewed has to be
\* current and not yet over, one that is released only current.
RenewWhere(o, k) == Fences(rows, Presents(o, k)) /\ rows[k].leaseUntil > At(o)

ReleaseWhere(o, k) == Fences(rows, Presents(o, k))

Where(o, k) == CASE call[o].op = "renew"   -> RenewWhere(o, k)
                 [] call[o].op = "release" -> ReleaseWhere(o, k)
                 [] OTHER -> TRUE

-----------------------------------------------------------------------------
(* PostgreSQL.                                                               *)

\* The rows a call still has to lock. Rows its condition does not match are
\* left alone, and those it waited for are matched again.
Wanted(o) == {k \in call[o].keys \ call[o].touched : Where(o, k)}

LockedByOther(o, k) == \E p \in Owners \ {o} : k \in call[p].touched

MutantOrdered(o) == Wanted(o)

\* Acquire inserts or locks its rows in the order of their keys; an UPDATE
\* finds its rows in an order of the planner's choice.
Ordered(o) ==
    IF call[o].op = "acquire" /\ Wanted(o) # {} THEN {Min(Wanted(o))} ELSE Wanted(o)

MutantRowFree(o, k) == call[o].op = "acquire" \/ ~LockedByOther(o, k)

\* ON CONFLICT DO UPDATE locks a row that exists, as an UPDATE does, and an
\* insert of the same new key waits for the first.
RowFree(o, k) == ~LockedByOther(o, k)

LockRow(o) ==
    /\ backend = "postgres" /\ call[o].op # "none" /\ ~call[o].read
    /\ \E k \in Ordered(o) :
         /\ RowFree(o, k)
         /\ call' = [call EXCEPT ![o].touched = @ \cup {k}]
    /\ UNCHANGED <<rows, line, backend, holds, calls, faults>>

\* o waits for a row that p has locked.
WaitsFor(o, p) ==
    /\ backend = "postgres" /\ call[o].op # "none" /\ ~call[o].read /\ o # p
    /\ Ordered(o) # {}
    /\ \A k \in Ordered(o) : LockedByOther(o, k)
    /\ \E k \in Ordered(o) : k \in call[p].touched

-----------------------------------------------------------------------------
(* SQLite.                                                                   *)

\* BeginTx takes the write lock.
Begin(o) ==
    /\ backend = "sqlite" /\ call[o].op # "none"
    /\ \A p \in Owners : ~call[p].began
    /\ call' = [call EXCEPT ![o].began = TRUE, ![o].age = 0]
    /\ UNCHANGED <<rows, line, backend, holds, calls, faults>>

\* One statement per row that Renew and Release are about.
UpdateRow(o) ==
    /\ backend = "sqlite" /\ call[o].began /\ ~call[o].read
    /\ \E k \in Wanted(o) : call' = [call EXCEPT ![o].touched = @ \cup {k}]
    /\ UNCHANGED <<rows, line, backend, holds, calls, faults>>

-----------------------------------------------------------------------------
(* Both.                                                                     *)

\* Acquire reads the candidates in fairness order and picks what to grant.
ReadCandidates(o) ==
    LET c == call[o] IN
    /\ c.op = "acquire" /\ ~c.read /\ c.touched = c.keys
    /\ call' = [call EXCEPT ![o].read = TRUE,
                            ![o].grant = Granted(rows, Seen(line, c.keys), c.keys, c.max, At(o))]
    /\ UNCHANGED <<rows, line, backend, holds, calls, faults>>

\* What a call has written when it commits.
AcquireWrites(o) ==
    /\ rows' = GrantTo(rows, call[o].grant, o, At(o))
    /\ line' = Seen(line, call[o].keys)

RenewWrites(o) ==
    /\ rows' = [k \in Segments |-> IF k \in call[o].touched
                  THEN [rows[k] EXCEPT !.leaseUntil = At(o) + TTL] ELSE rows[k]]
    /\ UNCHANGED line

ReleaseWrites(o) ==
    /\ rows' = [k \in Segments |-> IF k \in call[o].touched
                  THEN ReleaseOne(rows[k], call[o].pause, call[o].served, At(o)) ELSE rows[k]]
    /\ line' = IF call[o].served THEN ServedNow(line, call[o].touched) ELSE line

DeferWrites(o) ==
    \E k \in call[o].keys :
      rows' = DeferTo(rows, k, call[o].pause, At(o)) /\ line' = Seen(line, {k})

Writes(o) == CASE call[o].op = "acquire" -> AcquireWrites(o)
               [] call[o].op = "renew"   -> RenewWrites(o)
               [] call[o].op = "release" -> ReleaseWrites(o)
               [] OTHER                  -> DeferWrites(o)

Complete(o) ==
    /\ call[o].op # "none" /\ (backend = "sqlite" => call[o].began)
    /\ IF call[o].op = "acquire" THEN call[o].read ELSE Wanted(o) = {}

\* What the caller is told: the leases granted or, for Renew, the ones lost.
Told(o) ==
    [k \in Segments |->
       CASE call[o].op = "acquire" /\ k \in call[o].grant ->
              [epoch |-> rows'[k].epoch, until |-> rows'[k].leaseUntil]
         [] call[o].op = "renew" /\ k \in call[o].touched ->
              [holds[o][k] EXCEPT !.until = rows'[k].leaseUntil]
         [] call[o].op = "renew" /\ k \in call[o].keys \ call[o].touched -> Nothing
         [] OTHER -> holds[o][k]]

Over(o) == call' = [call EXCEPT ![o] = NoCall]

\* The call commits and answers or, its connection gone, does not.
Commit(o) ==
    /\ Complete(o) /\ Writes(o) /\ Over(o)
    /\ \/ holds' = [holds EXCEPT ![o] = Told(o)] /\ UNCHANGED faults
       \/ faults < MaxFaults /\ faults' = faults + 1 /\ UNCHANGED holds
    /\ UNCHANGED <<backend, calls>>

\* The transaction is undone, with all it has written or locked.
Rollback(o) == Over(o)

\* A statement fails, or ctx ends.
Fail(o) ==
    /\ call[o].op # "none" /\ faults < MaxFaults /\ faults' = faults + 1
    /\ Rollback(o)
    /\ UNCHANGED <<rows, line, backend, holds, calls>>

\* PostgreSQL ends one of the transactions that wait for each other; SQLite
\* gives up on a lock after busy_timeout.
GiveUp(o) ==
    /\ \/ \E p \in Owners : WaitsFor(o, p) /\ WaitsFor(p, o)
       \/ /\ backend = "sqlite" /\ call[o].op # "none" /\ ~call[o].began
          /\ call[o].age = -Oldest /\ \E p \in Owners : call[p].began
    /\ Over(o)
    /\ UNCHANGED <<rows, line, backend, holds, calls, faults>>

\* A call waits for at most -Oldest.
Tick ==
    /\ \A o \in Owners : call[o].op # "none" => call[o].age < -Oldest /\ ~call[o].began
    /\ Pass
    /\ call' = [o \in Owners |-> IF call[o].op = "none" THEN call[o]
                                 ELSE [call[o] EXCEPT !.age = @ + 1]]
    /\ holds' = [o \in Owners |-> [k \in Segments |->
                   IF Nearer(holds[o][k].until) = Oldest THEN Nothing
                   ELSE [holds[o][k] EXCEPT !.until = Nearer(@)]]]
    /\ UNCHANGED <<backend, calls, faults>>

Progress(o) ==
    LockRow(o) \/ Begin(o) \/ UpdateRow(o) \/ ReadCandidates(o) \/ Commit(o) \/ GiveUp(o)

Next == Tick \/ \E o \in Owners : Call(o) \/ Progress(o) \/ Fail(o)

Spec == Init /\ [][Next]_vars

-----------------------------------------------------------------------------
(* Properties.                                                               *)

\* The SQL stores keep the contract of automation.Store, as the in-memory
\* store does: each call takes effect at once, judged at one instant.
StoreContract == StoreSpec

\* Two instances never hold a segment at once, by what they were told: a
\* lease is granted only when every earlier one has run out or was given back.
OneHolder ==
    \A o, p \in Owners : o # p =>
      \A k \in Segments : ~(holds[o][k].until > 0 /\ holds[p][k].until > 0)

\* Two Acquires never wait for each other (Acquire: "in key order so that two
\* instances acquiring at once wait for each other instead of deadlocking").
AcquiresDoNotDeadlock ==
    \A o, p \in Owners :
      call[o].op = "acquire" /\ call[p].op = "acquire" => ~(WaitsFor(o, p) /\ WaitsFor(p, o))

=============================================================================
