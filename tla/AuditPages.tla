------------------------------ MODULE AuditPages ------------------------------
(***************************************************************************)
(* The log page of the dashboard: the pages of the audit log               *)
(* (dashboard/src/lib/audit-queries.ts) that the table shows               *)
(* (components/audit/AuditLogTable.tsx) while AuditWriter goes on writing. *)
(* A page is found by a cursor, the id of a row; a fetch takes time, fails  *)
(* silently, and may be overtaken by another.                              *)
(***************************************************************************)
EXTENDS AuditWriter

CONSTANTS
    CreatedAt,  \* created_at of the rows, in the order of insertion
    Rank,       \* the order of the ids, which are random
    Filters,    \* events: what a filter's agent and event types match; from,
                \* to: its range of days, None if it has none
    None,
    Day,        \* the length of a day
    PageSize,   \* 25
    NoRow,      \* no cursor
    MaxFetches  \* bound: pages fetched in one behaviour

ASSUME PagesAssumption ==
    /\ CreatedAt \in Seq(Nat) /\ Len(CreatedAt) >= Cardinality(Events)
    /\ \A i, j \in DOMAIN CreatedAt : i <= j => CreatedAt[i] <= CreatedAt[j]
    /\ Rank \in [Events -> Nat] /\ IsInjective(Rank)
    /\ Filters \subseteq [events: SUBSET Events, from: Nat \cup {None}, to: Nat \cup {None}]
    /\ Day \in Nat \ {0}
    /\ PageSize \in Nat \ {0} /\ MaxFetches \in Nat /\ NoRow \notin Events

VARIABLES
    table,    \* the state of the component
    fetches,  \* refetch calls that have not ended
    asked,    \* pages asked for so far
    tour      \* what the user has been shown since the filter was chosen

pageVars == <<table, fetches, asked, tour>>

NoFilter == [events |-> Events, from |-> None, to |-> None]

\* stack: the cursors of Previous.
Closed == [open |-> FALSE, filters |-> NoFilter, rows |-> <<>>, hasNextPage |-> FALSE,
           stack |-> <<>>, isLoading |-> FALSE]

\* base: the rows the filter matched when its first page was fetched; shown:
\* the rows shown since; mixed: the filter was chosen while a fetch was on.
NoTour == [base |-> {}, shown |-> {}, mixed |-> FALSE]

PagesType ==
    /\ TypeOK
    /\ table \in [open: BOOLEAN, filters: Filters \cup {NoFilter}, rows: BoundedSeq(Events, PageSize),
                  hasNextPage: BOOLEAN, stack: BoundedSeq(Events, MaxFetches),
                  isLoading: BOOLEAN]
    /\ fetches \subseteq [id: 1..MaxFetches, filters: Filters \cup {NoFilter}, cursor: Events \cup {NoRow}]
    /\ asked \in 0..MaxFetches
    /\ tour \in [base: SUBSET Events, shown: SUBSET Events, mixed: BOOLEAN]

PagesInit == Init /\ table = Closed /\ fetches = {} /\ asked = 0 /\ tour = NoTour

-----------------------------------------------------------------------------
(* fetchAuditLog. *)

InsertedAt(e) == CHOOSE i \in DOMAIN audit_log : audit_log[i] = e
Created(e) == CreatedAt[InsertedAt(e)]

\* ORDER BY created_at DESC, id DESC.
Newer(e, f) == Created(e) > Created(f) \/ (Created(e) = Created(f) /\ Rank[e] > Rank[f])

\* Mutant of Behind: rows of the same instant as the cursor are left out.
BehindByTime(e, cursor) == Created(e) < Created(cursor)

Behind(e, cursor) == Newer(cursor, e)

\* The calendar gives the midnight at which a day begins, for both ends: of
\* the last day of the range only that instant is matched.
InRange(f, at) == (f.from = None \/ at >= f.from * Day) /\ (f.to = None \/ at <= f.to * Day)

Matching(f) == {e \in ToSet(audit_log) \cap f.events : InRange(f, Created(e))}

\* The rows of S in that order.
Ordered(S) ==
    CHOOSE s \in [1..Cardinality(S) -> S] :
        ToSet(s) = S /\ \A i, j \in DOMAIN s : i < j => Newer(s[i], s[j])

\* One row more than the page has is asked for, and taken off.
PageOf(filters, cursor) ==
    LET found == Ordered({e \in Matching(filters) : cursor = NoRow \/ Behind(e, cursor)})
    IN  [rows |-> SubSeq(found, 1, IF Len(found) < PageSize THEN Len(found) ELSE PageSize),
         hasNextPage |-> Len(found) > PageSize]

-----------------------------------------------------------------------------
(* The table. *)

Show(t, p) == [t EXCEPT !.rows = p.rows, !.hasNextPage = p.hasNextPage]

\* The server renders the first page.  The component is mounted once: a visit
\* of the page later on begins as the first does.
Open ==
    /\ ~table.open
    /\ table' = Show([Closed EXCEPT !.open = TRUE], PageOf(NoFilter, NoRow))
    /\ tour' = [base |-> Matching(NoFilter), shown |-> ToSet(table'.rows), mixed |-> FALSE]
    /\ UNCHANGED <<vars, fetches, asked>>

\* refetch, called with the state t of the table.
Refetch(t, cursor) ==
    /\ asked < MaxFetches /\ asked' = asked + 1
    /\ fetches' = fetches \cup {[id |-> asked', filters |-> t.filters, cursor |-> cursor]}
    /\ table' = [t EXCEPT !.isLoading = TRUE]
    /\ UNCHANGED vars

\* The filters are not disabled while a page is fetched.
FilterChange ==
    /\ table.open
    /\ \E f \in (Filters \cup {NoFilter}) \ {table.filters} :
          Refetch([table EXCEPT !.filters = f, !.stack = <<>>], NoRow)
    /\ tour' = [NoTour EXCEPT !.mixed = fetches # {}]

NextPage ==
    /\ table.hasNextPage /\ ~table.isLoading /\ table.rows # <<>>
    /\ Refetch([table EXCEPT !.stack = Append(@, Head(table.rows))], Last(table.rows))
    /\ UNCHANGED tour

\* The cursor is the first row of the page before, and a page begins behind
\* its cursor: the page that comes lacks that row.
PreviousPage ==
    /\ table.stack # <<>> /\ ~table.isLoading
    /\ Refetch([table EXCEPT !.stack = Front(@)], Last(table.stack))
    /\ UNCHANGED tour

\* A fetch ends.  Its page is shown, whatever the filter is by now; if only
\* the cursor was not found, the page is the first; an error is silent.
Answer(f) ==
    /\ fetches' = fetches \ {f}
    /\ \/ /\ \E cursor \in {f.cursor, NoRow} :
                table' = [Show(table, PageOf(f.filters, cursor)) EXCEPT !.isLoading = FALSE]
          /\ tour' = [tour EXCEPT
                !.base = IF f.cursor = NoRow THEN Matching(f.filters) ELSE @,
                !.shown = @ \cup ToSet(table'.rows)]
       \/ table' = [table EXCEPT !.isLoading = FALSE] /\ UNCHANGED tour
    /\ UNCHANGED <<vars, asked>>

PagesNext ==
    \/ Next /\ UNCHANGED pageVars
    \/ Open \/ FilterChange \/ NextPage \/ PreviousPage
    \/ \E f \in fetches : Answer(f)

PagesSpec ==
    /\ PagesInit /\ [][PagesNext]_<<vars, pageVars>>
    /\ WF_vars(Writer)
    /\ \A e \in Events : WF_vars(Emit(e))

-----------------------------------------------------------------------------
(* Properties. *)

\* Whoever pages through the log misses nothing: of the rows that matched
\* the filter when its first page was fetched, every one that is not older
\* than the last row on the screen has been shown, while new rows come in,
\* rows share their created_at, fetches fail and cursors are not found.  It
\* takes that the filter was not changed while a page was being fetched.
NothingSkipped ==
    table.rows # <<>> /\ ~tour.mixed =>
        \A e \in tour.base : ~Newer(Last(table.rows), e) => e \in tour.shown
=============================================================================
