---------------------------- MODULE MCProjections ----------------------------
(***************************************************************************)
(* Four deployments of a projection, one of which a behaviour is about:      *)
(*                                                                          *)
(*   restart   a process that hangs and the one restarted in its place under *)
(*             the same Owner, over a SQL store;                             *)
(*   rebuild   an instance that rebuilds while its other segment commits,    *)
(*             over the memory store;                                        *)
(*   rollout   an instance of an older and one of a newer Version, over a    *)
(*             SQL store;                                                    *)
(*   takeover  two instances that take one segment from each other, over     *)
(*             the memory store: the constants of the configuration.         *)
(***************************************************************************)
EXTENDS MCProjectionRunner

CONSTANT Deployments    \* the deployments a run is about

VARIABLE setup          \* the deployment: never changes

Restart ==
    INSTANCE ProjectionRunner WITH
        Instances <- {a, b}, Owners <- {a}, Owner <- [i \in {a, b} |-> a],
        Version <- [i \in {a, b} |-> 1],
        Segments <- {0}, SegmentOf <- [p \in 1..2 |-> 0],
        Transactional <- TRUE, Pauses <- TRUE, BatchSize <- 2,
        MaxHead <- 2, MaxRequests <- 1, MaxFaults <- 3, MaxEpoch <- 9

Rebuilding ==
    INSTANCE ProjectionRunner WITH
        Instances <- {a}, Owners <- {a}, Owner <- [i \in {a} |-> a],
        Version <- [i \in {a} |-> 1],
        Segments <- {0, 1}, SegmentOf <- [p \in 1..2 |-> p % 2],
        Transactional <- FALSE, Pauses <- TRUE, BatchSize <- 2,
        MaxHead <- 2, MaxRequests <- 2, MaxFaults <- 1, MaxEpoch <- 9

Rollout ==
    INSTANCE ProjectionRunner WITH
        Instances <- {a, b}, Owners <- {a, b}, Owner <- [i \in {a, b} |-> i],
        Version <- [i \in {a, b} |-> IF i = a THEN 1 ELSE 2],
        Segments <- {0, 1}, SegmentOf <- [p \in 1..2 |-> p % 2],
        Transactional <- TRUE, Pauses <- FALSE, BatchSize <- 2,
        MaxHead <- 2, MaxRequests <- 0, MaxFaults <- 1, MaxEpoch <- 4

ASSUME DeploymentsAssumption ==
    Deployments \subseteq {"restart", "rebuild", "rollout", "takeover"}

DeploymentInit ==
    /\ setup \in Deployments
    /\ \/ setup = "restart" /\ Restart!Init
       \/ setup = "rebuild" /\ Rebuilding!Init
       \/ setup = "rollout" /\ Rollout!Init
       \/ setup = "takeover" /\ Init

DeploymentNext ==
    \/ setup = "restart" /\ Restart!Next /\ UNCHANGED setup
    \/ setup = "rebuild" /\ Rebuilding!Next /\ UNCHANGED setup
    \/ setup = "rollout" /\ Rollout!Next /\ UNCHANGED setup
    \/ setup = "takeover" /\ Next /\ UNCHANGED setup

DeploymentSpec == DeploymentInit /\ [][DeploymentNext]_<<setup, vars>>

\* For runs about the takeover alone.
FairDeploymentSpec == DeploymentSpec /\ Fairness

(***************************************************************************)
(* Over a SQL store every event is in the read model exactly once when its   *)
(* segment's checkpoint has passed it, and not at all before: across a hung  *)
(* process and its successor, lost answers, crashes and a rollout            *)
(* (postgres/projection_store.go, Commit; see ExactlyOnce).                  *)
(***************************************************************************)
AppliedExactlyOnce ==
    /\ setup = "restart" => Restart!ExactlyOnce
    /\ setup = "rollout" => Rollout!ExactlyOnce

(***************************************************************************)
(* Once a rebuild was served, no position an instance keeps in memory is     *)
(* from before its wipe (segment.go, rebuild and setStatus; see              *)
(* NoPositionFromBeforeWipe).                                                *)
(***************************************************************************)
NoWipedPosition == setup = "rebuild" => Rebuilding!NoPositionFromBeforeWipe

(***************************************************************************)
(* The events a checkpoint has passed were applied by the Version it names,  *)
(* while an older and a newer one run (segment.go, work and runSegment; see  *)
(* VersionsDoNotMix).                                                        *)
(***************************************************************************)
RolloutKeepsVersions == setup = "rollout" => Rollout!VersionsDoNotMix

=============================================================================
