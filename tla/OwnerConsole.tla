---------------------------- MODULE OwnerConsole ----------------------------
(***************************************************************************)
(* The owner's lists of accounts and of pending deletions: keyset pages on *)
(* the server (src/worker.ts, src/admin-pagination.ts) and the React page  *)
(* that loads, continues, refreshes and edits them                         *)
(* (web/app/components/AccountDashboard.tsx).  The two lists work alike;   *)
(* `kind' says which one a behaviour is about.  Rows are numbered in the   *)
(* order of their sort key, (created_at, id) or (requested_at, id), which  *)
(* is not the order in which they are committed.                           *)
(***************************************************************************)
EXTENDS Integers, FiniteSets

CONSTANTS
    MaxRow,          \* rows 1..MaxRow
    PageSize,        \* adminPageSize (25)
    FixedKey,        \* is ADMIN_CURSOR_KEY configured, or does each process draw its own?
    MaxChanges,      \* how often others add, decide or withdraw a row
    MaxQueries,      \* how many requests the page sends
    MaxLosses        \* how many of them fail in transit

\* What is assumed of the constants.
ConsoleConstants ==
    MaxRow \in Nat /\ PageSize \in Nat \ {0} /\ MaxQueries \in Nat

Rows == 1..MaxRow
States == {"absent", "pending", "approved"}
NoCursor == [after |-> 0, filter |-> "all", key |-> 0]

VARIABLES
    kind,            \* "accounts" or "deletions"
    rows,            \* the committed state of each row
    key,             \* the key the server seals cursors with
    page,            \* React state of the list
    queries,         \* requests of the page and their answers
    sent, changes, losses,
    owed             \* rows the list owes its reader: there when its first page was read

consoleVars == <<kind, rows, key, page, queries, sent, changes, losses, owed>>

\* What is on the page: the rows with the state shown, the continuation, the flags, and
\* whether the last load ended in an error.
BlankPage == [list |-> [r \in {} |-> "absent"], cursor |-> NoCursor, filter |-> "pending",
              loading |-> FALSE, busy |-> FALSE, stale |-> FALSE, failed |-> FALSE]

ConsoleInit ==
    /\ kind \in {"accounts", "deletions"}
    /\ rows \in [Rows -> {"absent", "pending"}]
    /\ key = 1
    /\ page = BlankPage
    /\ queries = {}
    /\ sent = 0 /\ changes = 0 /\ losses = 0
    /\ owed = {}

-----------------------------------------------------------------------------
(* The server.                                                             *)

Matches(r, filter) == rows[r] # "absent" /\ (filter = "all" \/ rows[r] = filter)

\* The first n members of a set of rows, in the order of their keys.
FirstOf(n, s) == {r \in s : Cardinality({q \in s : q <= r}) <= n}

\* Mutant: a cursor is good for any filter.
decodeCursor_AnyFilter(cursor, filter) == cursor.key = key

\* A cursor is sealed for one installation, list and filter.
decodeCursor(cursor, filter) == cursor.key = key /\ cursor.filter = filter

\* The last row that is on the page.
Last(found) == CHOOSE r \in FirstOf(PageSize, found) : \A q \in FirstOf(PageSize, found) : q <= r

\* One page: up to PageSize rows after the cursor, and a cursor when there are more.
listPage(cursor, filter) ==
    LET found == {r \in Rows : r > cursor.after /\ Matches(r, filter)}
    IN [rows |-> [r \in FirstOf(PageSize, found) |-> rows[r]],
        cursor |-> IF Cardinality(found) > PageSize
                   THEN [after |-> Last(found), filter |-> filter, key |-> key]
                   ELSE NoCursor]

-----------------------------------------------------------------------------
(* What the page sends.  A continuation takes along the list it was        *)
(* rendered with.                                                          *)

Query(op, cursor, filter, row) ==
    [id |-> sent + 1, op |-> op, step |-> "sent", cursor |-> cursor, filter |-> filter,
     row |-> row, base |-> page.list, owed |-> owed, rows |-> page.list, next |-> NoCursor]

Sends(q) ==
    /\ sent < MaxQueries
    /\ queries' = queries \cup {q}
    /\ sent' = sent + 1
    /\ UNCHANGED <<kind, rows, key, changes, losses, owed>>

\* load(): from the first page, with the filter of the moment; p is what is on the page until
\* the answer is there.
Loads(p) ==
    /\ page' = [p EXCEPT !.busy = TRUE, !.loading = TRUE, !.stale = FALSE]
    /\ Sends(Query("load", NoCursor, p.filter, 0))

\* The page opens, or its account changes and the effect runs again.
Open == sent = 0 /\ Loads(page)

Refresh == sent > 0 /\ ~page.busy /\ Loads(page)

\* Another filter empties the list and forgets its continuation at once.
Filtered(f) == [page EXCEPT !.filter = f, !.list = BlankPage.list, !.cursor = NoCursor]

\* Only the account list has a filter.
setAccountStateFilter ==
    /\ kind = "accounts" /\ ~page.busy /\ ~page.loading /\ sent > 0
    /\ \E f \in {"all", "pending", "approved"} \ {page.filter} : Loads(Filtered(f))

loadMore ==
    /\ page.cursor # NoCursor /\ ~page.loading /\ ~page.busy
    /\ page' = [page EXCEPT !.loading = TRUE, !.stale = FALSE]
    /\ Sends(Query("more", page.cursor, page.filter, 0))

\* The owner decides about a row of the list (changeState, completeDeletion).
Decide ==
    /\ ~page.busy
    /\ \E r \in DOMAIN page.list :
         /\ page.list[r] = "pending"
         /\ page' = [page EXCEPT !.busy = TRUE]
         /\ Sends(Query("decide", NoCursor, page.filter, r))

-----------------------------------------------------------------------------
(* The server answers.                                                     *)

Replace(q, p) == queries' = (queries \ {q}) \cup {p}

\* Row r is no longer what it was when any first page was read: no list owes it.
Forgets(r, qs) ==
    /\ owed' = owed \ {r}
    /\ queries' = {[q EXCEPT !.owed = @ \ {r}] : q \in qs}

ServePage(q) ==
    /\ q.step = "sent" /\ q.op \in {"load", "more"}
    /\ LET good == q.cursor = NoCursor \/ decodeCursor(q.cursor, q.filter)
           got == listPage(q.cursor, q.filter)
       IN Replace(q, IF good
            THEN [q EXCEPT !.step = "answered", !.rows = got.rows, !.next = got.cursor,
                    !.owed = IF q.op = "load" THEN {r \in Rows : Matches(r, q.filter)} ELSE @]
            ELSE [q EXCEPT !.step = "invalid_admin_cursor"])
    /\ UNCHANGED <<kind, rows, key, page, sent, changes, losses, owed>>

\* An account changes its state; a completed deletion leaves the list.
ServeDecision(q) ==
    /\ q.step = "sent" /\ q.op = "decide"
    /\ \/ /\ rows[q.row] = "pending"
          /\ rows' = [rows EXCEPT ![q.row] = IF kind = "accounts" THEN "approved" ELSE "absent"]
          /\ Forgets(q.row, (queries \ {q}) \cup {[q EXCEPT !.step = "answered"]})
       \/ /\ rows[q.row] # "pending"
          /\ Replace(q, [q EXCEPT !.step = "refused"])
          /\ UNCHANGED <<rows, owed>>
    /\ UNCHANGED <<kind, key, page, sent, changes, losses>>

Lose(q) ==
    /\ losses < MaxLosses
    /\ q.step \in {"sent", "answered"}
    /\ Replace(q, [q EXCEPT !.step = "refused"])
    /\ losses' = losses + 1
    /\ UNCHANGED <<kind, rows, key, page, sent, changes, owed>>

-----------------------------------------------------------------------------
(* The page takes an answer.                                               *)

\* What is listed stays as it was rendered; rows that are new go after it.
appendUniqueById(current, incoming) ==
    [r \in DOMAIN current \cup DOMAIN incoming |->
        IF r \in DOMAIN current THEN current[r] ELSE incoming[r]]

TakeLoad(q) ==
    /\ q.op = "load"
    /\ \/ /\ q.step = "answered"
          /\ page' = [page EXCEPT !.list = q.rows, !.cursor = q.next,
                                  !.loading = FALSE, !.busy = FALSE, !.failed = FALSE]
          /\ owed' = q.owed
       \/ /\ q.step = "refused"
          /\ page' = [page EXCEPT !.loading = FALSE, !.busy = FALSE, !.failed = TRUE]
          /\ owed' = owed
    /\ queries' = queries \ {q}
    /\ UNCHANGED <<kind, rows, key, sent, changes, losses>>

TakeMore(q) ==
    /\ q.op = "more"
    /\ \/ /\ q.step = "answered"
          /\ page' = [page EXCEPT !.list = appendUniqueById(q.base, q.rows), !.cursor = q.next,
                                  !.loading = FALSE]
          /\ owed' = q.owed
       \/ /\ q.step = "invalid_admin_cursor"
          /\ page' = [page EXCEPT !.stale = TRUE, !.cursor = NoCursor, !.loading = FALSE]
          /\ owed' = owed
       \/ /\ q.step = "refused"
          /\ page' = [page EXCEPT !.loading = FALSE]
          /\ owed' = owed
    /\ queries' = queries \ {q}
    /\ UNCHANGED <<kind, rows, key, sent, changes, losses>>

TakeDecision(q) ==
    /\ q.op = "decide"
    /\ \/ /\ q.step = "answered" /\ kind = "accounts"
          /\ page' = [page EXCEPT !.busy = FALSE, !.list =
                        [r \in DOMAIN page.list |-> IF r = q.row THEN "approved" ELSE page.list[r]]]
       \/ /\ q.step = "answered" /\ kind = "deletions"
          /\ page' = [page EXCEPT !.busy = FALSE, !.list =
                        [r \in DOMAIN page.list \ {q.row} |-> page.list[r]]]
       \/ /\ q.step = "refused"
          /\ page' = [page EXCEPT !.busy = FALSE]
    /\ queries' = queries \ {q}
    /\ UNCHANGED <<kind, rows, key, sent, changes, losses, owed>>

-----------------------------------------------------------------------------
(* Everybody else.                                                         *)

\* A registration or a request commits, a learner withdraws it, another owner decides.
Change ==
    /\ changes < MaxChanges
    /\ \E r \in Rows, s \in States :
         /\ s # rows[r]
         /\ s = "approved" => kind = "accounts" /\ rows[r] = "pending"
         /\ s = "pending" => rows[r] = "absent"
         /\ rows' = [rows EXCEPT ![r] = s]
         /\ Forgets(r, queries)
    /\ changes' = changes + 1
    /\ UNCHANGED <<kind, key, page, sent, losses>>

\* The next request is served by a process with another random key.
NewProcess ==
    /\ ~FixedKey /\ key = 1
    /\ key' = 2
    /\ UNCHANGED <<kind, rows, page, queries, sent, changes, losses, owed>>

ConsoleNext ==
    \/ Open \/ Refresh \/ setAccountStateFilter \/ loadMore \/ Decide
    \/ \E q \in queries : ServePage(q) \/ ServeDecision(q) \/ Lose(q)
    \/ \E q \in queries : TakeLoad(q) \/ TakeMore(q) \/ TakeDecision(q)
    \/ Change \/ NewProcess

ConsoleSpec == ConsoleInit /\ [][ConsoleNext]_consoleVars

-----------------------------------------------------------------------------
\* A list that shows its end shows every row that was there when its first page was
\* read and is there still, unless the page says that its results are stale or that its
\* last load failed: nothing is skipped between two pages, however rows come and go,
\* refreshes overlap continuations and cursors outlive the filter or the process they
\* were made for.
NothingIsHidden ==
    (page.cursor = NoCursor /\ ~page.stale /\ ~page.failed /\ ~page.loading /\ ~page.busy) =>
        owed \subseteq DOMAIN page.list

ConsoleTypeOK ==
    /\ rows \in [Rows -> States]
    /\ DOMAIN page.list \subseteq Rows
    /\ owed \subseteq Rows
    /\ Cardinality(queries) <= MaxQueries
=============================================================================
