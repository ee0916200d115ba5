------------------------------- MODULE EventLog -------------------------------
(***************************************************************************)
(* What the four event stores have in common: the log, the calls of Save,    *)
(* the callers that follow the log with ReadAll (eventstore.go), and the      *)
(* loads with the Iterator they return (iter.go).                             *)
(***************************************************************************)
EXTENDS StreamState, Sequences, FiniteSets, FiniteSetsExt

CONSTANTS
    Savers,         \* callers of Save, once each
    Readers,        \* callers of ReadAll that resume at the last Next
    Loaders,        \* callers of LoadStreamFrom or LoadCorrelation
    Browsers,       \* dashboard pages that walk the log backwards
    Streams,        \* stream IDs
    System,         \* the author and the stream of KurrentDB's own records
    hashtext,       \* [Streams -> lock keys]: hashes may collide
    Setups,         \* the store and the calls a behaviour is about
    Limit,          \* ReadOptions.Limit, and the events of a dashboard page
    Wanted,         \* the savers whose events a filter lets through
    ScanLimit,      \* scanLimit of the KurrentDB store
    MaxEventPage,   \* maxEventPage of the dashboard
    MaxEventScan    \* maxEventScan of the dashboard

\* A setup: the store (`backend`), its connections (`conns`), whether loads go
\* through a Wrap (`wrapped`), the attempts the backoff of a KurrentDB append
\* allows and the most records KurrentDB writes itself (`attempts`, `records`),
\* what is saved and loaded by whom (`calls`, `loads`), and who else is there.
Calls == [stream : Streams, mode : StreamStates, size : Nat \ {0}]
Loads == [chain : BOOLEAN, stream : Streams, from : StreamStates]

ASSUME EventLogAssumption ==
    /\ \A s \in Setups :
          /\ s.backend \in {"memory", "sqlite", "postgres", "kurrentdb"}
          /\ s.conns \in Nat \ {0}
          /\ s.wrapped \in BOOLEAN
          /\ s.attempts \in Nat \ {0} /\ s.records \in Nat
          /\ DOMAIN s.calls \subseteq Savers /\ s.calls \in [DOMAIN s.calls -> Calls]
          /\ DOMAIN s.loads \subseteq Loaders /\ s.loads \in [DOMAIN s.loads -> Loads]
          /\ s.readers \subseteq Readers
          /\ s.browsers \subseteq Browsers
    /\ {Limit, ScanLimit, MaxEventPage, MaxEventScan} \subseteq Nat \ {0}
    /\ Wanted \subseteq Savers
    /\ System \notin Savers \cup Streams

VARIABLES
    setup,          \* the store and the calls: never changes
    table,          \* the events a reader can see
    nextId,         \* the next global position
    pc,             \* where a Save is
    currentVersion, \* the stream's length as it read it
    nextVersion,    \* the NextExpectedVersion it returned
    pending,        \* the rows it has inserted and not committed
    outcome,        \* what it returned
    grpc,           \* a KurrentDB append: attempts made, in flight, answer
    after,          \* a reader's position
    pinned,         \* the head its ReadAll pinned
    reading,        \* its ReadAll has pinned a head
    got,            \* the positions it has been given
    load,           \* a load and its Iterator
    browse          \* a walk backwards through the log

saveVars == <<nextId, pc, currentVersion, nextVersion, pending, outcome, grpc>>
readVars == <<after, pinned, reading, got>>
vars == <<setup, table, saveVars, readVars, load, browse>>

Saving == DOMAIN setup.calls
Loading == DOMAIN setup.loads

Init ==
    /\ setup \in Setups
    /\ table = {}
    /\ nextId = 1
    /\ pc = [w \in Saving |-> "idle"]
    /\ currentVersion = [w \in Saving |-> 0]
    /\ nextVersion = [w \in Saving |-> 0]
    /\ pending = [w \in Saving |-> {}]
    /\ outcome = [w \in Saving |-> "none"]
    /\ grpc = [w \in Saving |-> [attempt |-> 0, flying |-> {}, answer |-> "none"]]
    /\ after = [r \in setup.readers |-> 0]
    /\ pinned = [r \in setup.readers |-> 0]
    /\ reading = [r \in setup.readers |-> FALSE]
    /\ got = [r \in setup.readers |-> {}]
    /\ load = [l \in Loading |->
                 [pc |-> "idle", atCall |-> {}, rest |-> {}, got |-> <<>>, err |-> "nil"]]
    /\ browse = [b \in setup.browsers |->
                   [pc |-> "idle", before |-> 0, first |-> 0, end |-> 0, start |-> 0,
                    cursor |-> 0, found |-> {}, shown |-> {}, ended |-> FALSE]]

-----------------------------------------------------------------------------

stream(w) == setup.calls[w].stream
mode(w) == setup.calls[w].mode
size(w) == setup.calls[w].size

Ids(rows) == {row.id : row \in rows}
Of(s) == {row \in table : row.stream = s}
By(w) == {row \in table : row.by = w}
Hits(rows) == {row \in rows : row.by \in Wanted}

\* MAX over a column that may be empty.
MaxOr0(ns) == Max(ns \cup {0})

\* The first n rows of a set, in log order.
FirstN(rows, n) == {row \in rows : Cardinality({x \in rows : x.id <= row.id}) <= n}

StreamLength(s) == MaxOr0({row.position : row \in Of(s)})

\* What a Save that found its stream as it must not be returns.
Rejection(w) == IF mode(w).kind = "Revision" THEN "conflict" ELSE "refused"

\* The batch of w as rows behind a stream of length n.
Batch(w, n) ==
    {[id |-> nextId + i, stream |-> stream(w), position |-> n + i + 1, by |-> w] :
        i \in 0..size(w) - 1}

Ended(w, how) ==
    /\ pc' = [pc EXCEPT ![w] = "done"]
    /\ outcome' = [outcome EXCEPT ![w] = how]
    /\ pending' = [pending EXCEPT ![w] = {}]

\* Save is called; the batch and its encoding are in order.
CallSave(w) ==
    /\ pc[w] = "idle"
    /\ pc' = [pc EXCEPT ![w] = "called"]
    /\ UNCHANGED <<setup, table, nextId, currentVersion, nextVersion, pending,
                   outcome, grpc, readVars, load, browse>>

\* A reader takes a ReadResult.
TakePage(r, res) ==
    /\ got' = [got EXCEPT ![r] = @ \cup Ids(res.events)]
    /\ after' = [after EXCEPT ![r] = res.next]

-----------------------------------------------------------------------------
(***************************************************************************)
(* Loads.  `atCall` is what a load was asked for and was there when it was   *)
(* called; `rest` is what a snapshot still has to give.                      *)
(***************************************************************************)

\* The events a load asks for: a correlation chain, or a stream after `from`.
Asked(l) ==
    LET call == setup.loads[l] IN
    IF call.chain THEN Hits(table)
    ELSE {row \in Of(call.stream) :
            row.position > IF call.from.kind = "Revision" THEN call.from.rev ELSE 0}

From(l) == IF setup.loads[l].chain THEN AnyState ELSE setup.loads[l].from
Missing(l) == Of(setup.loads[l].stream) = {}

MutantWrapClose(srcErr) == "nil"

\* Wrap: next says io.EOF whatever ended the source, close returns src.Err().
WrapClose(srcErr) == srcErr

\* Err: what ended iteration, joined with what Close returned.
IterErr(err, closeErr) == IF closeErr = "nil" THEN err ELSE closeErr

\* finish: iteration ends and the resources are released.
Finish(l, err) ==
    load' = [load EXCEPT ![l].pc = "done", ![l].rest = {},
        ![l].err = IF setup.wrapped THEN IterErr("nil", WrapClose(err))
                                    ELSE IterErr(err, "nil")]

Yield(l, row) ==
    load' = [load EXCEPT ![l].rest = @ \ {row}, ![l].got = Append(@, row.id)]

\* An iterator over what is there now.
OpenSnapshot(l, rows) ==
    load' = [load EXCEPT ![l].pc = "open", ![l].rest = rows,
                         ![l].atCall = IF load[l].pc = "idle" THEN Ids(Asked(l)) ELSE @]

Refuse(l) == load' = [load EXCEPT ![l].pc = "done", ![l].err = "refused"]

\* Next of an iterator over a snapshot.
NextOf(l) ==
    /\ load[l].pc = "open"
    /\ \/ \E row \in load[l].rest :
              /\ \A other \in load[l].rest : row.id <= other.id
              /\ Yield(l, row)
       \/ load[l].rest = {} /\ Finish(l, "nil")
    /\ UNCHANGED <<setup, table, saveVars, readVars, browse>>

\* ctx is done, the read breaks or an event does not decode.
NextFails(l) ==
    /\ load[l].pc \in {"checked", "open"}
    /\ Finish(l, "failed")
    /\ UNCHANGED <<setup, table, saveVars, readVars, browse>>

\* The caller stops early and closes the iterator.
Close(l) ==
    /\ load[l].pc = "open"
    /\ load' = [load EXCEPT ![l].pc = "closed", ![l].rest = {}]
    /\ UNCHANGED <<setup, table, saveVars, readVars, browse>>

-----------------------------------------------------------------------------

(***************************************************************************)
(* A reader that resumes at Next misses nothing: it has been given exactly   *)
(* the committed events it wants up to its position, and no event appears    *)
(* behind it later (Save and ReadAll of the four stores).                    *)
(***************************************************************************)
NothingSkipped ==
    \A r \in setup.readers :
        got[r] = Ids({row \in Hits(table) : row.id <= after[r]})

(***************************************************************************)
(* A Save that succeeded found the stream as its revision says, its batch is *)
(* in the stream once and whole, right behind what it found, and it returned *)
(* the length the stream then had; one that was rejected left nothing.       *)
(* Except on KurrentDB after a retry: an attempt given up on may be written  *)
(* after a later one was rejected.                                           *)
(***************************************************************************)
SavedOnExpectation ==
    \A w \in Saving :
        /\ By(w) # {} =>
              LET found == Min({row.position : row \in By(w)}) - 1 IN
              /\ Cardinality(By(w)) = size(w)
              /\ {row.position : row \in By(w)} = found + 1 .. found + size(w)
              /\ Expected(mode(w), found)
              /\ outcome[w] = "saved" => nextVersion[w] = found + size(w)
        /\ outcome[w] = "saved" => By(w) # {}
        /\ outcome[w] \in {"conflict", "refused"} /\ grpc[w].attempt < 2 => By(w) = {}

(***************************************************************************)
(* A load that ends with a nil Err has given everything it asked for that    *)
(* was there when it was called, in order and without a gap, and what it     *)
(* required of the stream held: a broken read never looks like a short       *)
(* stream (LoadStreamFrom and LoadCorrelation, through Iterator and Wrap).    *)
(***************************************************************************)
LoadIsWhole ==
    \A l \in Loading : load[l].pc = "done" /\ load[l].err = "nil" =>
        LET given == {load[l].got[i] : i \in DOMAIN load[l].got} IN
        /\ load[l].atCall \subseteq given
        /\ given = {id \in Ids(Asked(l)) : id <= MaxOr0(given)}
        /\ \A i, j \in DOMAIN load[l].got : i < j => load[l].got[i] < load[l].got[j]
        /\ From(l).kind = "NoStream" => given = {}
        /\ From(l).kind = "StreamExists" => given # {}

(***************************************************************************)
(* The pages of a walk backwards join up: with every page shown so far, the  *)
(* walk has shown each matching event from the head it began at down to the  *)
(* position it goes on before, whatever is appended meanwhile (readBackwards *)
(* of dashboard/events.go).                                                  *)
(***************************************************************************)
BackwardsComplete ==
    \A b \in setup.browsers :
        LET from == IF browse[b].ended THEN 1
                    ELSE IF browse[b].before = 0 THEN browse[b].first + 1
                    ELSE browse[b].before
        IN  browse[b].shown =
                {id \in Ids(Hits(table)) : from <= id /\ id <= browse[b].first}

(***************************************************************************)
(* Every Save ends: connections and locks are given back, and the two locks  *)
(* are always taken in the same order.                                       *)
(***************************************************************************)
SavesEnd == \A w \in Savers :
    (w \in Saving /\ pc[w] = "called") ~> (w \in Saving /\ pc[w] = "done")

(***************************************************************************)
(* Every saved event the filter lets through reaches every reader.           *)
(***************************************************************************)
EventuallyRead == \A r \in Readers, w \in Wanted :
    (r \in setup.readers /\ w \in Saving /\ outcome[w] = "saved") ~>
        (r \in setup.readers /\ Ids(By(w)) \subseteq got[r])

=============================================================================
