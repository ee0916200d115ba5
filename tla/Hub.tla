---------------------------------- MODULE Hub ----------------------------------
(***************************************************************************)
(* The hub of dashboard/hub.go and the pages serveEvents of                   *)
(* dashboard/dashboard.go streams to: one reader for every open page, which   *)
(* the first page starts and the last one stops.                              *)
(***************************************************************************)
EXTENDS ProjectionStatuses

CONSTANT Pages      \* connections a browser makes, each open once

VARIABLES
    page,           \* a page: its channel, what it has shown
    running,        \* the reader that runs (h.stop), or 0
    began,          \* the moment it was started
    latest,         \* the last snapshot sent, or NoSnapshot
    nudge,          \* nudge, buffered(1)
    reader          \* the readers started, stopped ones that still run included

hubVars == <<page, running, began, latest, nudge, reader>>

\* A snapshot is a moment of the store, or says that it could not be read.
NoSnapshot == 0
Unreadable == MaxChanges + 2

HubInit ==
    /\ page = [p \in Pages |-> [pc |-> "idle", ch |-> NoSnapshot, shown |-> 0,
                                backwards |-> FALSE]]
    /\ running = 0
    /\ began = 0
    /\ latest = NoSnapshot
    /\ nudge = FALSE
    /\ reader = [g \in Generations |->
                   [pc |-> "new", ctxDone |-> FALSE, snap |-> NoSnapshot]]

Open == {p \in Pages : page[p].pc = "open"}

\* A page opens: it gets the latest snapshot, and the first starts the reader.
subscribe(p) ==
    /\ page[p].pc = "idle"
    /\ IF running = 0
       THEN \E g \in Generations :
              /\ reader[g].pc = "new"
              /\ \A h \in Generations : h < g => reader[h].pc # "new"
              /\ reader' = [reader EXCEPT ![g].pc = "timer"]
              /\ running' = g
              /\ began' = Now
       ELSE UNCHANGED <<reader, running, began>>
    /\ page' = [page EXCEPT ![p].pc = "open", ![p].ch = latest]
    /\ UNCHANGED <<latest, nudge>>

\* The page is closed; the last one stops the reader.
unsubscribe(p) ==
    /\ page[p].pc = "open"
    /\ page' = [page EXCEPT ![p] = [@ EXCEPT !.pc = "closed", !.ch = NoSnapshot,
                                                     !.shown = 0]]
    /\ IF Open = {p}
       THEN /\ reader' = [reader EXCEPT ![running].ctxDone = TRUE]
            /\ running' = 0
            /\ began' = 0
            /\ latest' = NoSnapshot
       ELSE UNCHANGED <<reader, running, began, latest>>
    /\ UNCHANGED nudge

\* A runner changed phase, or a rebuild was asked for.
poke ==
    /\ ~nudge
    /\ nudge' = TRUE
    /\ UNCHANGED <<page, running, began, latest, reader>>

\* serveEvents writes a snapshot out.
Show(p) ==
    /\ page[p].pc = "open"
    /\ page[p].ch # NoSnapshot
    /\ page' = [page EXCEPT ![p] =
          [@ EXCEPT !.ch = NoSnapshot,
                    !.backwards = page[p].backwards \/ page[p].ch < page[p].shown,
                    !.shown = IF page[p].ch = Unreadable THEN page[p].shown ELSE page[p].ch]]
    /\ UNCHANGED <<running, began, latest, nudge, reader>>

-----------------------------------------------------------------------------

\* ctx is done when run looks.
Exit(g) ==
    /\ reader[g].pc = "timer"
    /\ reader[g].ctxDone
    /\ reader' = [reader EXCEPT ![g].pc = "gone"]
    /\ UNCHANGED <<page, running, began, latest, nudge>>

(***************************************************************************)
(* The timer fires or a nudge is taken, and read makes a snapshot.  A nudge   *)
(* taken less than minGap after the last read only resets the timer.          *)
(***************************************************************************)
HubRead(g, snap) ==
    /\ reader[g].pc = "timer"
    /\ reader' = [reader EXCEPT ![g].pc = "read", ![g].snap = snap]
    /\ nudge' \in {nudge, FALSE}
    /\ UNCHANGED <<page, running, began, latest>>

NudgedTooSoon(g) ==
    /\ reader[g].pc = "timer"
    /\ nudge
    /\ nudge' = FALSE
    /\ UNCHANGED <<page, running, began, latest, reader>>

ReaderStopped(g) == reader[g].ctxDone

\* Every page gets the snapshot in place of one it has not taken yet.
publish(g) ==
    /\ reader[g].pc = "read"
    /\ reader' = [reader EXCEPT ![g].pc = "timer", ![g].snap = NoSnapshot]
    /\ IF ReaderStopped(g)
       THEN UNCHANGED <<latest, page>>
       ELSE /\ latest' = reader[g].snap
            /\ page' = [p \in Pages |-> IF p \in Open THEN [page[p] EXCEPT !.ch = reader[g].snap]
                                                      ELSE page[p]]
    /\ UNCHANGED <<running, began, nudge>>

-----------------------------------------------------------------------------

ReaderStep(g) == Exit(g) \/ NudgedTooSoon(g) \/ HubRead(g, Now) \/ publish(g)

HubNext ==
    \/ \E p \in Pages : subscribe(p) \/ unsubscribe(p) \/ Show(p)
    \/ \E g \in Generations : ReaderStep(g) \/ HubRead(g, Unreadable)
    \/ poke

(***************************************************************************)
(* A page only shows what was read since its reader was started, and never   *)
(* goes back in time: not to what a reader stopped with the last page before  *)
(* it still had in its hands (publish of hub.go).                             *)
(***************************************************************************)
PagesGoForward ==
    \A p \in Pages :
        /\ ~page[p].backwards
        /\ page[p].shown # 0 => began <= page[p].shown

(***************************************************************************)
(* An open page gets to show what the store holds.                            *)
(***************************************************************************)
PagesCatchUp ==
    \A p \in Pages :
        (page[p].pc = "open") ~> (page[p].pc = "closed" \/ page[p].shown = Now)

=============================================================================
