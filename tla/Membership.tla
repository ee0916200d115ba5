----------------------------- MODULE Membership -----------------------------
(***************************************************************************)
(* How the instances of a projection share its segments                      *)
(* (projection/instances.go, and the claiming and shedding of                *)
(* projection/segment.go).                                                   *)
(*                                                                          *)
(* Every instance records itself with a heartbeat, learns who else is live   *)
(* and how much each holds, and works out its own quota.  Nobody hands out   *)
(* segments: an instance below its quota claims what it can, one above it    *)
(* sheds.  Quotas come from heartbeats taken at different times, so two      *)
(* instances may act on different ones.                                      *)
(*                                                                          *)
(* What a loop does with a segment it holds is in ProjectionRunner.  Here a  *)
(* claim is an owner, who is one instance, and time is `fresh` and `live`:   *)
(* a claim, or an instance's row, whose ttl has not passed.                  *)
(***************************************************************************)
EXTENDS Naturals, FiniteSets, FiniteSetsExt

CONSTANTS
    Instances,      \* numbered in the order of their Owner names
    Segments,       \* 0 .. some number
    Nobody,         \* the owner of an unclaimed segment
    Setups          \* what is varied: the instances, their Versions, the number
                    \* of segments, whether calls of the store overlap, and a bound on failed calls, stops,
                    \* crashes and pauses

ASSUME MembershipAssumption ==
    /\ Instances \subseteq Nat /\ IsFiniteSet(Instances) /\ Nobody \notin Instances
    /\ \A c \in Setups : /\ c.run \subseteq Instances
                         /\ c.version \in [Instances -> Nat \ {0}]
                         /\ c.segments \in Nat \ {0} /\ 0 .. c.segments - 1 \subseteq Segments
                         /\ c.overlap \in BOOLEAN
                         /\ c.maxFaults \in Nat

VARIABLES
    setup,
    claim,          \* projection_segments: owner, fresh, version, and whether
                    \* the owner was told of the claim and so has its lease
    live,           \* projection_instances: the rows whose ttl has not passed
    up,             \* whether an instance runs
    told,           \* a heartbeat's answer on its way
    quota, ok,      \* r.quota, r.instancesOK
    seen, stable,   \* r.membership, r.stable
    loop,           \* where the loop of a segment is
    faults

vars == <<setup, claim, live, up, told, quota, ok, seen, stable, loop, faults>>

shedGrace == 2

Version == setup.version
N == setup.segments
Declared == 0 .. N - 1

NoAnswer == [i \in {} |-> 0]

TypeOK ==
    /\ setup \in Setups
    /\ claim \in [Segments -> [owner : Instances \cup {Nobody}, leased : BOOLEAN,
                            fresh : BOOLEAN, version : Nat]]
    /\ live \subseteq Instances
    /\ up \in [Instances -> {"new", "up", "stopping", "down"}]
    /\ \A i \in Instances : DOMAIN told[i] \subseteq Instances
    /\ quota \in [Instances -> 0 .. N]
    /\ ok \in [Instances -> BOOLEAN]
    /\ seen \in [Instances -> SUBSET Instances]
    /\ stable \in [Instances -> 0 .. shedGrace]
    /\ loop \in [Instances -> [Segments -> {"off", "idle", "claiming", "held"}]]
    /\ faults \in 0 .. setup.maxFaults

\* A projection every segment of which has been processed by the lowest
\* Version, before a deployment.
Init ==
    /\ setup \in Setups
    /\ claim = [s \in Segments |-> [owner |-> Nobody, leased |-> FALSE, fresh |-> FALSE,
                                    version |-> Min({Version[i] : i \in Instances})]]
    /\ live = {}
    /\ up = [i \in Instances |-> "new"]
    /\ told = [i \in Instances |-> NoAnswer]
    /\ quota = [i \in Instances |-> 0]
    /\ ok = [i \in Instances |-> FALSE]
    /\ seen = [i \in Instances |-> {}]
    /\ stable = [i \in Instances |-> 0]
    /\ loop = [i \in Instances |-> [s \in Segments |-> "off"]]
    /\ faults = 0

storeVars == <<setup, claim, live>>
heartbeatVars == <<told, quota, ok, seen, stable>>

-----------------------------------------------------------------------------

Fault == faults < setup.maxFaults /\ faults' = faults + 1

\* r.segs[s].reserved, and r.held.
Reserved(i) == {s \in Segments : loop[i][s] \in {"claiming", "held"}}
held(i) == Cardinality(Reserved(i))

Goto(i, s, where) == loop' = [loop EXCEPT ![i][s] = where]

\* How many segments an owner's name is on, the claim expired or not.
Claims(i) == Cardinality({s \in Segments : claim[s].owner = i})

\* Heartbeat: the instance's row is live from now on.
Beats(i) == live' = live \cup {i}

\* What it returns: every live instance.
liveInstances(members) == [i \in members |-> Claims(i)]

MutantQuota(instances, i) ==
    LET n == Cardinality(DOMAIN instances)
    IN  IF i \in DOMAIN instances THEN N \div n ELSE 0

(***************************************************************************)
(* quota: of the instances on the highest Version each gets N/n, and the     *)
(* ones that hold most get one more until the rest is handed out.            *)
(***************************************************************************)
Quota(instances, i) ==
    LET top   == Max({Version[m] : m \in DOMAIN instances})
        equal == {m \in DOMAIN instances : Version[m] = top}
        n     == Cardinality(equal)
        ahead == {m \in equal : \/ instances[m] > instances[i]
                                \/ instances[m] = instances[i] /\ m < i}
    IN  IF i \notin equal THEN 0
        ELSE N \div n + IF Cardinality(ahead) < N % n THEN 1 ELSE 0

-----------------------------------------------------------------------------
\* What the runner makes of the answer, under its mutex.
QuotaSet(i, instances) ==
    /\ seen' = [seen EXCEPT ![i] = DOMAIN instances]
    /\ stable' = [stable EXCEPT ![i] = IF seen[i] = DOMAIN instances
                                       THEN Min({shedGrace, @ + 1}) ELSE 0]
    /\ quota' = [quota EXCEPT ![i] = Quota(instances, i)]
    /\ ok' = [ok EXCEPT ![i] = TRUE]

(***************************************************************************)
(* Run: declare the segments and send the first heartbeat, before any loop.  *)
(***************************************************************************)
Start(i) ==
    /\ i \in setup.run /\ up[i] = "new"
    /\ up' = [up EXCEPT ![i] = "up"]
    /\ Beats(i)
    /\ QuotaSet(i, liveInstances(live'))
    /\ loop' = [loop EXCEPT ![i] = [s \in Segments |-> IF s \in Declared THEN "idle" ELSE "off"]]
    /\ UNCHANGED <<setup, claim, told, faults>>

InFlight == \E i \in Instances, s \in Segments : loop[i][s] = "claiming"

(***************************************************************************)
(* runMembership.  A claim is over within a call of the store, a small part  *)
(* of the interval.  With overlap, a heartbeat may be sent, its answer       *)
(* arrive and other claims be made in the midst of it all the same; without, *)
(* they come one after another.                                              *)
(***************************************************************************)
Heartbeat(i) ==
    /\ up[i] = "up" /\ told[i] = NoAnswer
    /\ Beats(i)
    /\ \/ /\ ~setup.overlap /\ ~InFlight
          /\ QuotaSet(i, liveInstances(live'))
          /\ UNCHANGED told
       \/ /\ setup.overlap
          /\ told' = [told EXCEPT ![i] = liveInstances(live')]
          /\ UNCHANGED <<quota, ok, seen, stable>>
    /\ UNCHANGED <<setup, claim, up, loop, faults>>

HeartbeatReturns(i) ==
    /\ told[i] # NoAnswer
    /\ QuotaSet(i, told[i])
    /\ told' = [told EXCEPT ![i] = NoAnswer]
    /\ UNCHANGED <<setup, claim, live, up, loop, faults>>

\* The heartbeat fails, before the store wrote the row or after.
HeartbeatFails(i) ==
    /\ up[i] = "up" /\ told[i] = NoAnswer
    /\ Fault
    /\ live' \in {live, live \cup {i}}
    /\ ok' = [ok EXCEPT ![i] = FALSE]
    /\ UNCHANGED <<setup, claim, up, told, quota, seen, stable, loop>>

-----------------------------------------------------------------------------
(***************************************************************************)
(* runSegment.                                                               *)
(***************************************************************************)
reserve(i, s) ==
    /\ up[i] = "up" /\ loop[i][s] = "idle"
    /\ setup.overlap \/ ~InFlight
    /\ ok[i] /\ held(i) < quota[i]
    /\ Goto(i, s, "claiming")
    /\ UNCHANGED <<storeVars, up, heartbeatVars, faults>>

Unclaimed(c) == [c EXCEPT !.owner = Nobody, !.leased = FALSE, !.fresh = FALSE]

Owned(i, s) == claim[s].owner = i /\ claim[s].leased

MayClaim(i, s) == Owned(i, s) \/ claim[s].owner = Nobody \/ ~claim[s].fresh

(***************************************************************************)
(* The claim is granted.  A segment a newer Version has rebuilt is released  *)
(* again; one of an older Version is rebuilt, and with it every other        *)
(* segment, whose claims the store clears.                                   *)
(***************************************************************************)
ClaimGranted(i, s) ==
    /\ up[i] = "up" /\ loop[i][s] = "claiming"
    /\ MayClaim(i, s)
    /\ LET mine == [owner |-> i, leased |-> TRUE, fresh |-> TRUE, version |-> Version[i]]
           none == Unclaimed(mine)
       IN  \/ /\ claim[s].version > Version[i]
              /\ claim' = [claim EXCEPT ![s] = Unclaimed(@)]
              /\ Goto(i, s, "idle")
           \/ /\ claim[s].version < Version[i]
              /\ claim' = [t \in Segments |-> IF t = s THEN mine ELSE none]
              /\ Goto(i, s, "held")
           \/ /\ claim[s].version = Version[i]
              /\ claim' = [claim EXCEPT ![s] = mine]
              /\ Goto(i, s, "held")
    /\ UNCHANGED <<setup, live, up, heartbeatVars, faults>>

\* The claim is another's; unreserve.
ClaimRefused(i, s) ==
    /\ up[i] = "up" /\ loop[i][s] = "claiming"
    /\ ~MayClaim(i, s)
    /\ Goto(i, s, "idle")
    /\ UNCHANGED <<storeVars, up, heartbeatVars, faults>>

\* Claim returns an error; unreserve, although it may have been granted.
ClaimFails(i, s) ==
    /\ up[i] = "up" /\ loop[i][s] = "claiming"
    /\ Fault
    /\ \/ UNCHANGED claim
       \/ /\ MayClaim(i, s)
          /\ claim' = [claim EXCEPT ![s] = [@ EXCEPT !.owner = i, !.fresh = TRUE,
                                                     !.leased = Owned(i, s)]]
    /\ Goto(i, s, "idle")
    /\ UNCHANGED <<setup, live, up, heartbeatVars>>

\* A commit or a status keeps the claim fresh.
Refresh(i, s) ==
    /\ up[i] = "up" /\ loop[i][s] = "held"
    /\ Owned(i, s) /\ ~claim[s].fresh
    /\ claim' = [claim EXCEPT ![s].fresh = TRUE]
    /\ UNCHANGED <<setup, live, up, heartbeatVars, loop, faults>>

MutantClaimLost(i, s) ==
    /\ up[i] = "up" /\ loop[i][s] = "held"
    /\ ~Owned(i, s)
    /\ UNCHANGED vars

\* ErrClaimLost: unreserve.
ClaimLost(i, s) ==
    /\ up[i] = "up" /\ loop[i][s] = "held"
    /\ ~Owned(i, s)
    /\ Goto(i, s, "idle")
    /\ UNCHANGED <<storeVars, up, heartbeatVars, faults>>

\* The highest-numbered segment first.
shouldShed(i, s) ==
    /\ ok[i] /\ stable[i] >= shedGrace /\ held(i) > quota[i]
    /\ s = Max(Reserved(i))

\* Release, which does nothing once the claim is another's.
Released(i, s) ==
    IF Owned(i, s) THEN [claim EXCEPT ![s] = Unclaimed(@)] ELSE claim

\* Between two batches, or while stalled: Release, which may fail, and
\* unreserve.
shed(i, s) ==
    /\ up[i] = "up" /\ loop[i][s] = "held"
    /\ shouldShed(i, s)
    /\ \/ claim' = Released(i, s) /\ UNCHANGED faults
       \/ Fault /\ UNCHANGED claim
    /\ Goto(i, s, "idle")
    /\ UNCHANGED <<setup, live, up, heartbeatVars>>

-----------------------------------------------------------------------------
(***************************************************************************)
(* The end of Run, which waits for the loops and the membership.             *)
(***************************************************************************)
Stop(i) ==
    /\ up[i] = "up"
    /\ Fault
    /\ up' = [up EXCEPT ![i] = "stopping"]
    /\ told' = [told EXCEPT ![i] = NoAnswer]
    /\ UNCHANGED <<storeVars, quota, ok, seen, stable, loop>>

LoopEnds(i, s) ==
    /\ up[i] = "stopping"
    /\ loop[i][s] \in {"idle", "claiming", "held"}
    /\ \/ claim' = Released(i, s) /\ UNCHANGED faults
       \/ Fault /\ UNCHANGED claim
    /\ Goto(i, s, "off")
    /\ UNCHANGED <<setup, live, up, heartbeatVars>>

leave(i) ==
    /\ up[i] = "stopping"
    /\ \A s \in Segments : loop[i][s] = "off"
    /\ \/ live' = live \ {i} /\ UNCHANGED faults
       \/ Fault /\ UNCHANGED live
    /\ up' = [up EXCEPT ![i] = "down"]
    /\ UNCHANGED <<setup, claim, heartbeatVars, loop>>

Crash(i) ==
    /\ up[i] \in {"up", "stopping"}
    /\ Fault
    /\ up' = [up EXCEPT ![i] = "down"]
    /\ told' = [told EXCEPT ![i] = NoAnswer]
    /\ loop' = [loop EXCEPT ![i] = [s \in Segments |-> "off"]]
    /\ UNCHANGED <<storeVars, quota, ok, seen, stable>>

\* A row nobody refreshes expires; one somebody does, only in a pause.
Expire(i) ==
    /\ i \in live
    /\ \/ up[i] = "down" /\ UNCHANGED faults
       \/ up[i] = "up" /\ Fault
    /\ live' = live \ {i}
    /\ UNCHANGED <<setup, claim, up, heartbeatVars, loop>>

Refreshed(s) ==
    \E i \in Instances : Owned(i, s) /\ up[i] = "up" /\ loop[i][s] = "held"

ClaimExpires(s) ==
    /\ claim[s].owner # Nobody /\ claim[s].fresh
    /\ \/ ~Refreshed(s) /\ UNCHANGED faults
       \/ Refreshed(s) /\ Fault
    /\ claim' = [claim EXCEPT ![s].fresh = FALSE]
    /\ UNCHANGED <<setup, live, up, heartbeatVars, loop>>

Loop(i, s) ==
    \/ ClaimGranted(i, s) \/ ClaimRefused(i, s) \/ Refresh(i, s) \/ ClaimLost(i, s)
    \/ shed(i, s) \/ LoopEnds(i, s)

Next ==
    \/ \E i \in Instances :
          \/ Start(i) \/ Heartbeat(i) \/ HeartbeatReturns(i) \/ HeartbeatFails(i)
          \/ Stop(i) \/ leave(i) \/ Crash(i) \/ Expire(i)
          \/ \E s \in Segments : reserve(i, s) \/ Loop(i, s) \/ ClaimFails(i, s)
    \/ \E s \in Segments : ClaimExpires(s)

Spec == Init /\ [][Next]_vars

(***************************************************************************)
(* The goroutines run and ttls pass.  A standby loop asks for a reservation  *)
(* at every PollInterval, at times that have nothing to do with the brief    *)
(* reservations of the instance's other loops: it does not always find one   *)
(* of those in its way.                                                      *)
(***************************************************************************)
FairSpec ==
    /\ Spec
    /\ \A i \in Instances :
          /\ WF_vars(Start(i) \/ leave(i))
          /\ SF_vars(Heartbeat(i) \/ HeartbeatReturns(i))
          /\ WF_vars(up[i] = "down" /\ Expire(i))
    /\ \A i \in Instances, s \in Segments : WF_vars(Loop(i, s)) /\ SF_vars(reserve(i, s))
    /\ \A s \in Segments : WF_vars(~Refreshed(s) /\ ClaimExpires(s))

-----------------------------------------------------------------------------

Running == {i \in Instances : up[i] = "up"}

\* The instances that may work: the highest Version running, unless a newer
\* one rebuilt the projection before it went.
Workers ==
    {i \in Running : /\ \A j \in Running : Version[j] <= Version[i]
                     /\ \A s \in Declared : claim[s].version <= Version[i]}

Works(i) == {s \in Segments : Owned(i, s) /\ loop[i][s] = "held"}

(***************************************************************************)
(* Once instances stop coming and going, every segment is held by an         *)
(* instance of the highest Version running, and every such instance holds    *)
(* N/n rounded down or up, in whatever order claims and heartbeats come and  *)
(* whatever failed on the way (runner.go, Run: "with S segments and N        *)
(* instances each holds S/N, rounded down or up").  From then on no segment  *)
(* moves: the quotas of different heartbeats do not make two instances shed  *)
(* and claim the same segment for ever.  Not said of setups with overlap, in *)
(* which heartbeats keep falling into claims.                                *)
(***************************************************************************)
Spread ==
    LET n == Cardinality(Workers)
    IN  n > 0 =>
          /\ UNION {Works(i) : i \in Workers} = Declared
          /\ \A i \in Workers : Cardinality(Works(i)) \in {N \div n, (N + n - 1) \div n}

OwnerOf == [s \in Segments |-> claim[s].owner]

SegmentsSettle ==
    setup.overlap \/ (<>[]Spread /\ <>[][Workers # {} => UNCHANGED OwnerOf]_vars)

(***************************************************************************)
(* Even when heartbeats keep falling into claims, which may then move        *)
(* segments back and forth, no segment is left to nobody: again and again    *)
(* an instance works on it (segment.go, runSegment).                         *)
(***************************************************************************)
NoSegmentIsLeft ==
    \A s \in Segments :
        []<>(s \in Declared /\ Workers # {} => \E i \in Workers : s \in Works(i))

=============================================================================
