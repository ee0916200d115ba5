----------------------------- MODULE EventBrowser -----------------------------
(***************************************************************************)
(* The dashboard's events view, dashboard/events.go: pages of the log,       *)
(* newest first, over a reader that only reads forwards.  A read fills a      *)
(* window that ends at the page's end and widens it until the page is full,   *)
(* the log begins or the scan budget is used up.                              *)
(*                                                                          *)
(* A ReadAll of the SQL stores pins the head first; as the log only grows     *)
(* behind the head, it reads what one step at that moment reads.              *)
(***************************************************************************)
EXTENDS EventLog

Mem     == INSTANCE MemoryEventStore
Lite    == INSTANCE SQLiteEventStore
Pg      == INSTANCE PostgresEventStore
Kurrent == INSTANCE KurrentEventStore

LogHead ==
    CASE setup.backend = "memory"    -> Mem!LogHead
      [] setup.backend = "sqlite"    -> Lite!LogHead
      [] setup.backend = "postgres"  -> Pg!LogHead
      [] setup.backend = "kurrentdb" -> Kurrent!LogHead

ReadAll(from, limit) ==
    CASE setup.backend = "memory"    -> Mem!ReadAll(from, limit)
      [] setup.backend = "sqlite"    -> Lite!ReadUpTo(from, Lite!LogHead, limit)
      [] setup.backend = "postgres"  -> Pg!ReadUpTo(from, Pg!LogHead, limit)
      [] setup.backend = "kurrentdb" -> Kurrent!ReadAll(from, limit)

-----------------------------------------------------------------------------

\* Where a window of n positions that ends at `end` starts, exclusive.
WindowStart(end, n) == IF n < end THEN end - n ELSE 0

(***************************************************************************)
(* A page is asked for: the newest first, then the one before `before`.      *)
(***************************************************************************)
RequestPage(b) ==
    LET page == browse[b]
        before == page.before
        end == IF before > 0 /\ before - 1 < LogHead THEN before - 1 ELSE LogHead
        start == WindowStart(end, Limit)
    IN
    /\ page.pc = "idle"
    /\ ~page.ended
    /\ browse' = [browse EXCEPT ![b] =
          [page EXCEPT !.pc = IF end = 0 THEN "idle" ELSE "range", !.ended = (end = 0),
                       !.first = IF before = 0 THEN LogHead ELSE page.first,
                       !.end = end, !.start = start, !.cursor = start, !.found = {}]]
    /\ UNCHANGED <<setup, table, saveVars, readVars, load>>

\* The page that shows `ids`; older is the before of the next one, 0 at the start.
Shown(page, ids, older) ==
    [page EXCEPT !.pc = "idle", !.shown = @ \cup ids, !.before = older,
                 !.ended = (older = 0), !.end = 0, !.start = 0, !.cursor = 0, !.found = {}]

MutantOlderThanScan(start) == start

\* Older, when the scan stopped before it filled the page.
OlderThanScan(start) == start + 1

\* The switch of readBackwards, once the window has been read.
Judge(page, found) ==
    LET newest == {id \in found : Cardinality({x \in found : x >= id}) <= Limit}
        window == page.end - page.start
        wider == WindowStart(page.end, Min({window * 4, MaxEventScan}))
    IN
    CASE Cardinality(found) >= Limit  -> Shown(page, newest, Min(newest))
      [] Cardinality(found) < Limit /\ page.start = 0 -> Shown(page, found, 0)
      [] Cardinality(found) < Limit /\ page.start # 0 /\ window >= MaxEventScan ->
            Shown(page, found, OlderThanScan(page.start))
      [] OTHER -> [page EXCEPT !.start = wider, !.cursor = wider, !.found = {}]

\* One ReadAll of readRange.
ReadRange(b) ==
    LET page == browse[b]
        res == ReadAll(page.cursor, MaxEventPage)
        found == page.found \cup {id \in Ids(res.events) : id <= page.end}
        over == \/ \E row \in res.events : row.id > page.end
                \/ res.atEnd \/ res.next <= page.cursor \/ res.next >= page.end
    IN
    /\ page.pc = "range"
    /\ browse' = [browse EXCEPT ![b] =
          IF over THEN Judge(page, found)
                  ELSE [page EXCEPT !.found = found, !.cursor = res.next]]
    /\ UNCHANGED <<setup, table, saveVars, readVars, load>>

\* A read fails: the page is not shown and may be asked for again.
PageFails(b) ==
    LET page == browse[b] IN
    /\ page.pc = "range"
    /\ browse' = [browse EXCEPT ![b] = [Shown(page, {}, page.before) EXCEPT !.ended = FALSE]]
    /\ UNCHANGED <<setup, table, saveVars, readVars, load>>

BrowseStep(b) == RequestPage(b) \/ ReadRange(b) \/ PageFails(b)

=============================================================================
