--------------------------- MODULE ProjectionStore ---------------------------
(***************************************************************************)
(* The store of one projection: the row of every segment (checkpoint and     *)
(* claim) and the rebuild requests, as memory/projection_store.go and        *)
(* postgres/projection_store.go keep them.                                   *)
(*                                                                          *)
(* A claim is an owner and an epoch, the fencing token.  Two instances may   *)
(* share an Owner: a process that hangs and the one restarted in its place.  *)
(* Time is the boolean `fresh`: the row's last heartbeat is within its       *)
(* claim's ttl.                                                              *)
(*                                                                          *)
(* Every operation here is one critical section of the memory store (under   *)
(* mu) or one statement of the SQL store.  Commit and Reset, which run the   *)
(* projection's own code between two of them, are put together from these    *)
(* in ProjectionRunner.                                                      *)
(***************************************************************************)
EXTENDS Naturals, FiniteSets

CONSTANTS
    Instances,      \* the runners of the projection
    Owners,         \* what they call themselves
    Owner,          \* [Instances -> Owners]: Definition.Owner
    Segments,       \* segment numbers, 0 among them
    None            \* the owner of an unclaimed segment

ASSUME StoreAssumption ==
    /\ Segments \subseteq Nat
    /\ 0 \in Segments
    /\ None \notin Owners
    /\ Owner \in [Instances -> Owners]

VARIABLES
    rows,           \* [Segments -> Row]
    requested,      \* rebuildsRequested: RequestRebuild calls
    served,         \* rebuildsDone: the last request a Reset served
    failed          \* rebuildFailed: the last request a rebuild failed to serve

storeVars == <<rows, requested, served, failed>>

Row == [pos : Nat, version : Nat, owner : Owners \cup {None},
        epoch : Nat, fresh : BOOLEAN]

StoreTypeOK ==
    /\ rows \in [Segments -> Row]
    /\ requested \in Nat
    /\ served \in Nat
    /\ failed \in Nat

\* Declare: every segment at a zero checkpoint.
StoreInit ==
    /\ rows = [s \in Segments |->
                 [pos |-> 0, version |-> 0, owner |-> None, epoch |-> 0, fresh |-> FALSE]]
    /\ requested = 0
    /\ served = 0
    /\ failed = 0

-----------------------------------------------------------------------------

MutantOwnedByName(i, s, e) == rows[s].owner = Owner[i]

\* i's lease with epoch e is the current claim on s.
Owned(i, s, e) == rows[s].owner = Owner[i] /\ rows[s].epoch = e

Claimable(i, s, e) == Owned(i, s, e) \/ rows[s].owner = None \/ ~rows[s].fresh

\* Claim: a refresh keeps the epoch, a takeover raises it.
Claimed(i, s, e) ==
    [rows[s] EXCEPT !.owner = Owner[i], !.fresh = TRUE,
                    !.epoch = IF Owned(i, s, e) THEN @ ELSE @ + 1]

\* The last step of Commit.
Committed(s, pos, version) ==
    [rows[s] EXCEPT !.pos = pos, !.version = version, !.fresh = TRUE]

\* The last step of Reset under a claim on s.
ResetRows(s, version) ==
    [t \in Segments |->
        [rows[t] EXCEPT !.pos = 0, !.version = version,
                        !.owner = IF t = s THEN @ ELSE None,
                        !.fresh = IF t = s THEN TRUE ELSE @]]

\* Release: gives the segment up, if the lease is its claim.
Released(i, s, e) ==
    IF Owned(i, s, e) THEN [rows EXCEPT ![s].owner = None] ELSE rows

\* SaveStatus: refreshes the heartbeat, if the lease is the claim.
Refreshed(i, s, e) ==
    IF Owned(i, s, e) THEN [rows EXCEPT ![s].fresh = TRUE] ELSE rows

\* The claim's ttl has passed since its last heartbeat.
Expired(s) == [rows EXCEPT ![s].fresh = FALSE]

RequestRebuild ==
    /\ requested' = requested + 1
    /\ UNCHANGED <<rows, served, failed>>

\* Rebuilds: a request that no Reset has served.
RebuildOpen == requested > served

\* FailRebuild, under i's lease on segment 0.
FailedAfter(i, e, n) == IF Owned(i, 0, e) /\ n >= failed THEN n ELSE failed

=============================================================================
