--------------------------- MODULE CommandHandler ---------------------------
(***************************************************************************)
(* Concurrent calls of command handlers built by NewCommandHandler           *)
(* (command_handler.go) over one event store.                                *)
(*                                                                          *)
(* A call loads its stream, folds it into a state, decides, and saves; a     *)
(* save conflict may send it round again.  The fold is free: the state is    *)
(* the sequence of records folded, so any evolve function is a function of   *)
(* it.  decide is any function of state and command: it may return an        *)
(* error, nothing, or a batch.  The variables of the Go closure that live    *)
(* across retries (state, loadState, lastVersion) are variables here.        *)
(***************************************************************************)
EXTENDS EventStore

CONSTANTS
    Calls,          \* calls of a handler, each with a command of its own
    Other,          \* code that calls Save directly
    Modes,          \* the stream states handlers are configured with
    PinAhead,       \* may a caller pin a revision its stream has not reached
    MaxBatch,       \* most events one decision yields
    MaxRetries,     \* the BackOff of WithRetryStrategy: WithMaxRetries(_, n)
    MaxLog          \* bound: direct writers stop when the log is this long

ASSUME CallsAssumption ==
    /\ Writers = Calls \cup {Other}
    /\ Other \notin Calls
    /\ Modes \subseteq StreamStates
    /\ \A m \in Modes : m.kind # "Revision" => m.rev = 0
    /\ PinAhead \in BOOLEAN
    /\ MaxBatch \in Nat \ {0}
    /\ MaxRetries \in Nat
    /\ MaxLog \in Nat

VARIABLES
    pc,             \* where the call is
    stream,         \* StreamNamer's answer for the command
    mode,           \* options.StreamState
    state,          \* what has been folded so far
    loadState,      \* where the next read starts
    lastVersion,    \* the last version folded
    batch,          \* how many events decide returned
    tries,          \* retries used of the call's BackOff
    cancelled,      \* the call's ctx is done
    outcome,        \* how the call ended
    next            \* NextExpectedVersion of its AppendResult

callVars == <<pc, stream, mode, state, loadState, lastVersion, batch, tries,
              cancelled, outcome, next>>
vars == <<storeVars, callVars>>

PCs == {"idle", "load", "decide", "save", "backoff", "done"}
Outcomes == {"none", "saved", "nothing", "rejected", "conflict", "refused",
             "unencodable", "loadFailed", "cancelled"}

TypeOK ==
    /\ StoreTypeOK
    /\ pc \in [Calls -> PCs]
    /\ stream \in [Calls -> Streams]
    /\ mode \in [Calls -> Modes]
    /\ state \in [Calls -> Seq(Record)]
    /\ loadState \in [Calls -> StreamStates]
    /\ lastVersion \in [Calls -> Nat]
    /\ batch \in [Calls -> Nat]
    /\ tries \in [Calls -> 0..MaxRetries]
    /\ cancelled \in [Calls -> BOOLEAN]
    /\ outcome \in [Calls -> Outcomes]
    /\ next \in [Calls -> Nat]

Init ==
    /\ StoreInit
    /\ pc = [c \in Calls |-> "idle"]
    /\ stream \in [Calls -> Streams]
    /\ mode \in [Calls -> Modes]
    /\ state = [c \in Calls |-> <<>>]
    /\ loadState = [c \in Calls |-> AnyState]
    /\ lastVersion = [c \in Calls |-> 0]
    /\ batch = [c \in Calls |-> 0]
    /\ tries = [c \in Calls |-> 0]
    /\ cancelled = [c \in Calls |-> FALSE]
    /\ outcome = [c \in Calls |-> "none"]
    /\ next = [c \in Calls |-> 0]

-----------------------------------------------------------------------------

autoConverge(c) == mode[c].kind \in {"Any", "StreamExists"}

\* A pinned Revision gates the save only; the fold reads from the start.
firstLoadState(c) == IF mode[c].kind = "Revision" THEN AnyState ELSE mode[c]

MutantSaveStateUnchecked(c) == IF autoConverge(c) THEN AnyState ELSE mode[c]

MutantSaveStateConverges(c) == Revision(lastVersion[c])

MutantSaveStateAhead(c) ==
    IF autoConverge(c) THEN Revision(lastVersion[c] + 1) ELSE mode[c]

\* What the append is checked against.
saveState(c) == IF autoConverge(c) THEN Revision(lastVersion[c]) ELSE mode[c]

Ended(c, how, n) ==
    /\ pc' = [pc EXCEPT ![c] = "done"]
    /\ outcome' = [outcome EXCEPT ![c] = how]
    /\ next' = [next EXCEPT ![c] = n]

(***************************************************************************)
(* A command arrives.  Whoever pins Revision(n) has read the stream at n     *)
(* (docs/reference/stream-states.md), unless PinAhead.                       *)
(***************************************************************************)
Start(c) ==
    /\ pc[c] = "idle"
    /\ mode[c].kind = "Revision" /\ ~PinAhead
          => closed \/ mode[c].rev <= Len(events[stream[c]])
    /\ pc' = [pc EXCEPT ![c] = "load"]
    /\ loadState' = [loadState EXCEPT ![c] = firstLoadState(c)]
    /\ UNCHANGED <<storeVars, stream, mode, state, lastVersion, batch, tries,
                   cancelled, outcome, next>>

MutantLoadFailsRetries(c) ==
    /\ pc[c] = "load"
    /\ ~LoadAccepted(stream[c], loadState[c])
    /\ pc' = [pc EXCEPT ![c] = "backoff"]
    /\ UNCHANGED <<storeVars, stream, mode, state, loadState, lastVersion,
                   batch, tries, cancelled, outcome, next>>

(***************************************************************************)
(* A load the store refuses ends the call, whatever the retry budget.        *)
(***************************************************************************)
LoadFails(c) ==
    /\ pc[c] = "load"
    /\ ~LoadAccepted(stream[c], loadState[c])
    /\ Ended(c, "loadFailed", lastVersion[c])
    /\ UNCHANGED <<storeVars, stream, mode, state, loadState, lastVersion,
                   batch, tries, cancelled>>

MutantEvolveRereads(c, k) ==
    LET new == SubSeq(Loaded(stream[c], loadState[c]), 1, k)
    IN  /\ state' = [state EXCEPT ![c] = @ \o new]
        /\ lastVersion' = [lastVersion EXCEPT ![c] =
                              IF k = 0 THEN @ ELSE new[k].version]
        /\ UNCHANGED loadState

\* Folding the first k of the records loaded.
Evolve(c, k) ==
    LET new == SubSeq(Loaded(stream[c], loadState[c]), 1, k)
    IN  /\ state' = [state EXCEPT ![c] = @ \o new]
        /\ lastVersion' = [lastVersion EXCEPT ![c] =
                              IF k = 0 THEN @ ELSE new[k].version]
        /\ loadState' = [loadState EXCEPT ![c] =
                              IF k = 0 THEN @ ELSE Revision(new[k].version)]

Fold(c) ==
    /\ pc[c] = "load"
    /\ LoadAccepted(stream[c], loadState[c])
    /\ ~cancelled[c]
    /\ Evolve(c, Len(Loaded(stream[c], loadState[c])))
    /\ pc' = [pc EXCEPT ![c] = "decide"]
    /\ UNCHANGED <<storeVars, stream, mode, batch, tries, cancelled, outcome, next>>

(***************************************************************************)
(* Iterator.Next checks ctx before every item, so a call cancelled while it  *)
(* folds stops after any of them, with the context's error.                  *)
(***************************************************************************)
FoldCancelled(c) ==
    /\ pc[c] = "load"
    /\ LoadAccepted(stream[c], loadState[c])
    /\ cancelled[c]
    /\ \E k \in 0..Len(Loaded(stream[c], loadState[c])) :
          /\ Evolve(c, k)
          /\ Ended(c, "cancelled", lastVersion'[c])
    /\ UNCHANGED <<storeVars, stream, mode, batch, tries, cancelled>>

DecideError(c) ==
    /\ pc[c] = "decide"
    /\ Ended(c, "rejected", lastVersion[c])
    /\ UNCHANGED <<storeVars, stream, mode, state, loadState, lastVersion,
                   batch, tries, cancelled>>

\* No events: success, and Save is not called.
DecideNothing(c) ==
    /\ pc[c] = "decide"
    /\ Ended(c, "nothing", lastVersion[c])
    /\ UNCHANGED <<storeVars, stream, mode, state, loadState, lastVersion,
                   batch, tries, cancelled>>

DecideEvents(c) ==
    /\ pc[c] = "decide"
    /\ \E n \in 1..MaxBatch : batch' = [batch EXCEPT ![c] = n]
    /\ pc' = [pc EXCEPT ![c] = "save"]
    /\ UNCHANGED <<storeVars, stream, mode, state, loadState, lastVersion,
                   tries, cancelled, outcome, next>>

Saved(c) ==
    /\ pc[c] = "save"
    /\ SaveAccepted(stream[c], saveState(c))
    /\ AppendBatch(stream[c], batch[c], c)
    /\ Ended(c, "saved", Len(events[stream[c]]) + batch[c])
    /\ UNCHANGED <<stream, mode, state, loadState, lastVersion, batch, tries,
                   cancelled>>

MutantMayRetryOnceMore(c) ==
    autoConverge(c) /\ tries[c] <= MaxRetries /\ ~cancelled[c]

MayRetry(c) == autoConverge(c) /\ tries[c] < MaxRetries /\ ~cancelled[c]

\* The BackOff allows another attempt.
ConflictRetried(c) ==
    /\ pc[c] = "save"
    /\ SaveConflict(stream[c], saveState(c))
    /\ MayRetry(c)
    /\ pc' = [pc EXCEPT ![c] = "backoff"]
    /\ tries' = [tries EXCEPT ![c] = @ + 1]
    /\ next' = [next EXCEPT ![c] = Len(events[stream[c]])]
    /\ UNCHANGED <<storeVars, stream, mode, state, loadState, lastVersion,
                   batch, cancelled, outcome>>

\* The BackOff is used up, ctx is done, or the caller pinned the revision.
ConflictReturned(c) ==
    /\ pc[c] = "save"
    /\ SaveConflict(stream[c], saveState(c))
    /\ ~MayRetry(c)
    /\ Ended(c, IF autoConverge(c) /\ cancelled[c] THEN "cancelled" ELSE "conflict",
             Len(events[stream[c]]))
    /\ UNCHANGED <<storeVars, stream, mode, state, loadState, lastVersion,
                   batch, tries, cancelled>>

Refused(c) ==
    /\ pc[c] = "save"
    /\ SaveRefused(stream[c], saveState(c))
    /\ Ended(c, "refused", 0)
    /\ UNCHANGED <<storeVars, stream, mode, state, loadState, lastVersion,
                   batch, tries, cancelled>>

\* Save encodes the batch before it takes the lock.
Unencodable(c) ==
    /\ pc[c] = "save"
    /\ Ended(c, "unencodable", 0)
    /\ UNCHANGED <<storeVars, stream, mode, state, loadState, lastVersion,
                   batch, tries, cancelled>>

BackoffElapsed(c) ==
    /\ pc[c] = "backoff"
    /\ pc' = [pc EXCEPT ![c] = "load"]
    /\ UNCHANGED <<storeVars, stream, mode, state, loadState, lastVersion,
                   batch, tries, cancelled, outcome, next>>

\* The result is the one the conflict left: the stream's length then.
BackoffCancelled(c) ==
    /\ pc[c] = "backoff"
    /\ cancelled[c]
    /\ Ended(c, "cancelled", next[c])
    /\ UNCHANGED <<storeVars, stream, mode, state, loadState, lastVersion,
                   batch, tries, cancelled>>

Cancel(c) ==
    /\ pc[c] \notin {"idle", "done"}
    /\ ~cancelled[c]
    /\ cancelled' = [cancelled EXCEPT ![c] = TRUE]
    /\ UNCHANGED <<storeVars, pc, stream, mode, state, loadState, lastVersion,
                   batch, tries, outcome, next>>

(***************************************************************************)
(* Code outside every handler calls Save, with any stream state; a refused   *)
(* Save changes nothing.                                                     *)
(***************************************************************************)
OtherSave ==
    /\ Len(global) < MaxLog
    /\ \E s \in Streams : \E rev \in {AnyState, NoStream, StreamExists, Revision(Len(events[s]))} :
          /\ SaveAccepted(s, rev)
          /\ AppendBatch(s, 1, Other)
    /\ UNCHANGED callVars

Close == StoreClose /\ UNCHANGED callVars

\* What a call does by itself once it has started.
Step(c) ==
    \/ LoadFails(c) \/ Fold(c) \/ FoldCancelled(c)
    \/ DecideError(c) \/ DecideNothing(c) \/ DecideEvents(c)
    \/ Saved(c) \/ ConflictRetried(c) \/ ConflictReturned(c)
    \/ Refused(c) \/ Unencodable(c)
    \/ BackoffElapsed(c) \/ BackoffCancelled(c)

Next ==
    \/ \E c \in Calls : Start(c) \/ Step(c) \/ Cancel(c)
    \/ OtherSave
    \/ Close

Spec == Init /\ [][Next]_vars

\* A started call's goroutine is scheduled until it returns.
FairSpec == Spec /\ \A c \in Calls : WF_vars(Step(c))

-----------------------------------------------------------------------------

(***************************************************************************)
(* The fold is the stream: across retries, state holds exactly the first     *)
(* lastVersion records of the stream, each once and in order, though every   *)
(* retry reads only what is new (command_handler.go, loadState).             *)
(***************************************************************************)
FoldIsPrefix ==
    ~closed => \A c \in Calls :
        /\ Len(state[c]) = lastVersion[c]
        /\ lastVersion[c] <= Len(events[stream[c]])
        /\ \A i \in 1..lastVersion[c] : state[c][i] = events[stream[c]][i]

(***************************************************************************)
(* No stale decision reaches the log: the state a saved batch was decided    *)
(* on is the whole stream before the batch, although loading, deciding and   *)
(* saving are separate steps and other writers run between them.             *)
(***************************************************************************)
DecidedOnWholeStream ==
    ~closed => \A c \in Calls : outcome[c] = "saved" =>
        /\ Len(state[c]) = next[c] - batch[c]
        /\ \A i \in 1..Len(state[c]) : state[c][i] = events[stream[c]][i]

(***************************************************************************)
(* A retry is never for nothing: a call waiting to retry, or about to        *)
(* reload after it, finds events it has not folded.  This is why retrying    *)
(* without waiting is enough (docs/explanation/concurrency.md).              *)
(***************************************************************************)
RetryFindsNewEvents ==
    ~closed => \A c \in Calls :
        pc[c] = "backoff" \/ (pc[c] = "load" /\ tries[c] > 0)
            => lastVersion[c] < Len(events[stream[c]])

(***************************************************************************)
(* A pinned call lands on its pin: NoStream at version 1, Revision(n) at     *)
(* version n + 1, never after whatever another writer put there.             *)
(***************************************************************************)
PinnedLandsOnPin ==
    \A c \in Calls : outcome[c] = "saved" /\ ~autoConverge(c) =>
        next[c] - batch[c] = mode[c].rev

(***************************************************************************)
(* Every started call returns: conflicts are retried at most MaxRetries      *)
(* times and no other error is retried.                                      *)
(***************************************************************************)
CallsReturn == \A c \in Calls : (pc[c] = "load") ~> (pc[c] = "done")

(***************************************************************************)
(* The concurrent handlers implement atomic ones: every step is a read of    *)
(* the whole stream, an append onto exactly what was read, a return, or      *)
(* none of these.                                                            *)
(***************************************************************************)
Done(c) == CASE pc[c] # "done"         -> "open"
             [] outcome[c] = "saved"   -> "appended"
             [] OTHER                  -> "returned"

Seen(c) == IF outcome[c] \in {"none", "saved", "nothing", "rejected"}
           THEN state[c] ELSE <<>>

Atomic == INSTANCE AtomicCommands WITH
    log  <- events,
    seen <- [c \in Calls |-> Seen(c)],
    done <- [c \in Calls |-> Done(c)]

ImplementsAtomic == Atomic!Spec

=============================================================================
