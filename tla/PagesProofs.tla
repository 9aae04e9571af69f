----------------------------- MODULE PagesProofs -----------------------------
(***************************************************************************)
(* Proofs about the machines of MCPages, for every value of the constants. *)
(***************************************************************************)
EXTENDS MCPages, SequenceTheorems, FiniteSetTheorems, WellFoundedInduction, TLAPS

-----------------------------------------------------------------------------
(***************************************************************************)
(* The owner's lists (OwnerConsole): the inductive invariant.              *)
(*                                                                         *)
(* The registers hold, in the order of the module's variables: r1 the kind *)
(* of list, r2 the rows, r3 the key, r4 the page, r5 the queries, r6 how   *)
(* many were sent, r7 the changes, r8 the losses, r9 the rows that are     *)
(* owed.                                                                   *)
(***************************************************************************)

Filters == {"all", "pending", "approved"}

Cursors == [after : 0..MaxRow, filter : Filters, key : {0, 1, 2}]

Lists == UNION {[listed -> Console!States] : listed \in SUBSET Console!Rows}

Pages == [list : Lists, cursor : Cursors, filter : Filters, loading : BOOLEAN, busy : BOOLEAN,
          stale : BOOLEAN, failed : BOOLEAN]

Queries == [id : Nat, op : {"load", "more", "decide"},
            step : {"sent", "answered", "refused", "invalid_admin_cursor"}, cursor : Cursors,
            filter : Filters, row : 0..MaxRow, base : Lists, owed : SUBSET Console!Rows,
            rows : Lists, next : Cursors]

\* Every row that is due is listed or still comes after the continuation.
Covers(listed, due, next) ==
    \A r \in due \ listed :
        next # Console!NoCursor /\ r > next.after /\ Console!Matches(r, next.filter)

\* A continuation covers, with the list it was rendered with, what that list owes; its answer
\* does so too, and that of a load.  A decided row is owed by nobody.
QueryFits(q) ==
    /\ q.op \in {"load", "decide"} => r4.busy
    /\ q.op = "load" => q.step # "invalid_admin_cursor" /\ q.cursor = Console!NoCursor
    /\ q.op = "load" /\ q.step = "answered" => Covers(DOMAIN q.rows, q.owed, q.next)
    /\ q.op = "more" => q.cursor # Console!NoCursor /\ Covers(DOMAIN q.base, q.owed, q.cursor)
    /\ q.op = "more" /\ q.step = "answered" =>
          Covers(DOMAIN q.base \cup DOMAIN q.rows, q.owed, q.next)
    /\ q.op = "decide" => q.row \in Console!Rows
    /\ q.op = "decide" /\ q.step = "answered" =>
          q.row \notin r9 /\ \A p \in r5 : q.row \notin p.owed

Alone(q) == q.op \in {"load", "decide"}

\* A list covers what it owes; one without continuation says so or is about to be replaced.
PageFits ==
    \/ Covers(DOMAIN r4.list, r9, r4.cursor)
    \/ r4.cursor = Console!NoCursor /\ (r4.stale \/ r4.failed \/ \E q \in r5 : q.op = "load")

ConsoleTypes ==
    /\ r1 \in {"accounts", "deletions"} /\ r2 \in [Console!Rows -> Console!States] /\ r3 \in {1, 2}
    /\ r4 \in Pages /\ r5 \subseteq Queries /\ r9 \subseteq Console!Rows
    /\ r6 \in Nat /\ r6 <= MaxQueries
    /\ IsFiniteSet(r5) /\ Cardinality(r5) <= r6

ConsoleInv ==
    /\ ConsoleTypes /\ PageFits
    /\ \A q \in r5 : QueryFits(q)
    /\ \A p, q \in r5 : Alone(p) /\ Alone(q) => p = q

-----------------------------------------------------------------------------
(* The pages of a list *)

\* The instance counts as its module does.
LEMMA SameCount == \A S : Console!Cardinality(S) = Cardinality(S)
  BY DEF Console!Cardinality, Cardinality

LEMMA RowsAreFinite ==
    ASSUME Console!ConsoleConstants, NEW S \in SUBSET Console!Rows
    PROVE  IsFiniteSet(S) /\ S \subseteq Nat
  <1>1. IsFiniteSet(Console!Rows) /\ Console!Rows \subseteq Nat
    BY FS_Interval DEF Console!ConsoleConstants, Console!Rows
  <1> QED BY <1>1, FS_Subset

\* A set of sets of rows has a member that contains no other member.
LEMMA SmallestRows ==
    ASSUME Console!ConsoleConstants, NEW T \in SUBSET (SUBSET Console!Rows), T # {}
    PROVE  \E x \in T : \A y \in T : y \subseteq x => y = x
  <1>1. FiniteSubsetsOf(Console!Rows) = SUBSET Console!Rows
    BY RowsAreFinite, FS_FiniteSubsetsOfFinite
  <1>2. IsWellFoundedOn(StrictSubsetOrdering(Console!Rows), SUBSET Console!Rows)
    BY <1>1, FS_StrictSubsetOrderingWellFounded
  <1>3. PICK x \in T : \A y \in T : ~ (<<y, x>> \in StrictSubsetOrdering(Console!Rows))
    BY <1>2, WFMin
  <1> QED BY <1>3 DEF StrictSubsetOrdering

LEMMA FirstRow ==
    ASSUME Console!ConsoleConstants, NEW S \in SUBSET Console!Rows, S # {}
    PROVE  \E r \in S : \A q \in S : r <= q
  <1> DEFINE before(r) == {q \in S : q < r}
             T == {before(r) : r \in S}
  <1>1. S \subseteq Nat
    BY RowsAreFinite
  <1>2. T \in SUBSET (SUBSET Console!Rows) /\ T # {}
    OBVIOUS
  <1>3. PICK x \in T : \A y \in T : y \subseteq x => y = x
    <2> HIDE DEF T
    <2> QED BY <1>2, SmallestRows
  <1>4. PICK r \in S : x = before(r)
    BY <1>3
  <1>5. ASSUME NEW q \in S, q < r PROVE FALSE
    <2>1. r \in Nat /\ q \in Nat
      BY <1>1
    <2>2. ASSUME NEW p \in S, p < q PROVE p < r
      <3>1. p \in Nat
        BY <1>1
      <3> QED BY <1>5, <2>1, <2>2, <3>1
    <2>3. before(q) \subseteq before(r)
      BY <2>2
    <2>4. q \in before(r) /\ q \notin before(q)
      BY <1>5, <2>1
    <2> QED BY <1>3, <1>4, <2>3, <2>4
  <1> QED BY <1>1, <1>5

LEMMA LastRow ==
    ASSUME Console!ConsoleConstants, NEW S \in SUBSET Console!Rows, S # {}
    PROVE  \E r \in S : \A q \in S : q <= r
  <1> DEFINE after(r) == {q \in S : q > r}
             T == {after(r) : r \in S}
  <1>1. S \subseteq Nat
    BY RowsAreFinite
  <1>2. T \in SUBSET (SUBSET Console!Rows) /\ T # {}
    OBVIOUS
  <1>3. PICK x \in T : \A y \in T : y \subseteq x => y = x
    <2> HIDE DEF T
    <2> QED BY <1>2, SmallestRows
  <1>4. PICK r \in S : x = after(r)
    BY <1>3
  <1>5. ASSUME NEW q \in S, q > r PROVE FALSE
    <2>1. r \in Nat /\ q \in Nat
      BY <1>1
    <2>2. ASSUME NEW p \in S, p > q PROVE p > r
      <3>1. p \in Nat
        BY <1>1
      <3> QED BY <1>5, <2>1, <2>2, <3>1
    <2>3. after(q) \subseteq after(r)
      BY <2>2
    <2>4. q \in after(r) /\ q \notin after(q)
      BY <1>5, <2>1
    <2> QED BY <1>3, <1>4, <2>3, <2>4
  <1> QED BY <1>1, <1>5

\* A page is the beginning of what was found, all of it if that is not more than a page.
LEMMA PageIsFirst ==
    ASSUME Console!ConsoleConstants, NEW found \in SUBSET Console!Rows
    PROVE  LET first == Console!FirstOf(PageSize, found)
           IN  /\ first \subseteq found
               /\ ~ (Cardinality(found) > PageSize) => found \subseteq first
               /\ Cardinality(found) > PageSize =>
                     /\ Console!Last(found) \in first
                     /\ \A r \in found \ first : r > Console!Last(found)
  <1> DEFINE first == Console!FirstOf(PageSize, found)
             upto(r) == {q \in found : q <= r}
  <1>1. PageSize \in Nat /\ PageSize > 0
    BY DEF Console!ConsoleConstants
  <1>2. found \subseteq Nat /\ IsFiniteSet(found) /\ Cardinality(found) \in Nat
    BY RowsAreFinite, FS_CardinalityType
  <1>3. \A r \in found : /\ IsFiniteSet(upto(r)) /\ Cardinality(upto(r)) \in Nat
                         /\ Cardinality(upto(r)) <= Cardinality(found)
    BY <1>2, FS_Subset, FS_CardinalityType
  <1>4. \A r \in found : r \in first <=> Cardinality(upto(r)) <= PageSize
    BY SameCount DEF Console!FirstOf
  <1>5. first \subseteq found
    BY SameCount DEF Console!FirstOf
  <1> HIDE DEF first
  <1>6. ASSUME ~ (Cardinality(found) > PageSize), NEW r \in found PROVE r \in first
    <2>1. Cardinality(found) <= PageSize
      BY <1>1, <1>2, <1>6
    <2>2. /\ Cardinality(upto(r)) \in Nat /\ Cardinality(found) \in Nat /\ PageSize \in Nat
          /\ Cardinality(upto(r)) <= Cardinality(found)
      BY <1>1, <1>2, <1>3
    <2>3. Cardinality(upto(r)) <= PageSize
      <3> HIDE DEF upto
      <3> QED BY <2>1, <2>2
    <2> QED BY <2>3, <1>4
  <1>7. ASSUME NEW r \in found \ first, NEW q \in first PROVE r > q
    <2>1. SUFFICES ASSUME ~ (r > q) PROVE FALSE
      OBVIOUS
    <2>2. r \in Nat /\ q \in Nat /\ r <= q
      BY <1>2, <1>5, <2>1
    <2>3. ASSUME NEW p \in found, p <= r PROVE p <= q
      <3>1. p \in Nat
        BY <1>2
      <3> QED BY <2>2, <2>3, <3>1
    <2>4. upto(r) \subseteq upto(q)
      BY <2>3
    <2>5. /\ Cardinality(upto(r)) <= Cardinality(upto(q)) /\ Cardinality(upto(r)) \in Nat
          /\ Cardinality(upto(q)) \in Nat /\ Cardinality(upto(q)) <= PageSize
          /\ ~ (Cardinality(upto(r)) <= PageSize)
      BY <2>4, <1>3, <1>4, <1>5, FS_Subset
    <2> HIDE DEF upto
    <2> QED BY <2>5, <1>1
  <1>8. ASSUME Cardinality(found) > PageSize
        PROVE  Console!Last(found) \in first /\ \A q \in first : q <= Console!Last(found)
    <2>1. found # {}
      BY <1>8, <1>1, FS_EmptySet
    <2>2. PICK r \in found : \A q \in found : r <= q
      BY <2>1, FirstRow
    <2>3. ASSUME NEW q \in found, q <= r PROVE q = r
      BY <1>2, <2>2, <2>3
    <2>4. upto(r) = {r}
      <3>1. r <= r
        BY <1>2
      <3> QED BY <2>3, <3>1
    <2>5. Cardinality(upto(r)) = 1
      <3> HIDE DEF upto
      <3> QED BY <2>4, FS_Singleton
    <2>6. r \in first
      BY <2>5, <1>1, <1>4
    <2>7. first \in SUBSET Console!Rows
      BY <1>5
    <2>8. \E p \in first : \A q \in first : q <= p
      BY <2>6, <2>7, LastRow
    <2> QED BY <2>8 DEF Console!Last, first
  <1>9. Cardinality(found) > PageSize => \A r \in found \ first : r > Console!Last(found)
    BY <1>7, <1>8
  <1> QED BY <1>5, <1>6, <1>8, <1>9 DEF first

-----------------------------------------------------------------------------
(* The requests of the page *)

LEMMA FewerQueries ==
    ASSUME NEW S, IsFiniteSet(S), NEW n \in Nat, Cardinality(S) <= n, NEW q \in S, NEW p
    PROVE  /\ IsFiniteSet(S \ {q}) /\ Cardinality(S \ {q}) <= n
           /\ IsFiniteSet((S \ {q}) \cup {p}) /\ Cardinality((S \ {q}) \cup {p}) <= n
  <1> DEFINE rest == S \ {q}
  <1>1. Cardinality(S) \in Nat /\ Cardinality(S) # 0
    BY FS_CardinalityType, FS_EmptySet
  <1>2. IsFiniteSet(rest) /\ Cardinality(rest) = Cardinality(S) - 1
    BY FS_RemoveElement
  <1>3. Cardinality(rest) \in Nat
    BY <1>2, FS_CardinalityType
  <1> HIDE DEF rest
  <1>4. /\ IsFiniteSet(rest \cup {p})
        /\ Cardinality(rest \cup {p}) \in {Cardinality(rest), Cardinality(rest) + 1}
    BY <1>2, FS_AddElement
  <1>5. Cardinality(rest) <= n /\ Cardinality(rest \cup {p}) <= n
    BY <1>1, <1>2, <1>3, <1>4
  <1> QED BY <1>2, <1>4, <1>5 DEF rest

LEMMA MoreQueries ==
    ASSUME NEW S, IsFiniteSet(S), NEW n \in Nat, Cardinality(S) <= n, NEW p
    PROVE  IsFiniteSet(S \cup {p}) /\ Cardinality(S \cup {p}) <= n + 1
  <1>1. Cardinality(S) \in Nat
    BY FS_CardinalityType
  <1>2. /\ IsFiniteSet(S \cup {p})
        /\ Cardinality(S \cup {p}) \in {Cardinality(S), Cardinality(S) + 1}
    BY FS_AddElement
  <1> QED BY <1>1, <1>2

\* Nobody waits for an answer that concerns the whole list unless the page is busy.
LEMMA NobodyIsAlone ==
    ASSUME Console!ConsoleConstants, ConsoleInv, r6 = 0 \/ ~r4.busy, NEW q \in r5
    PROVE  ~Alone(q)
  <1>1. CASE r6 = 0
    <2>1. Cardinality(r5) \in Nat /\ Cardinality(r5) <= 0 /\ IsFiniteSet(r5)
      BY <1>1, FS_CardinalityType DEF ConsoleInv, ConsoleTypes
    <2>2. Cardinality(r5) = 0
      BY <2>1
    <2> QED BY <2>1, <2>2, FS_EmptySet
  <1>2. CASE ~r4.busy
    BY <1>2 DEF ConsoleInv, QueryFits, Alone
  <1> QED BY <1>1, <1>2

LEMMA FirstCursor ==
    ASSUME Console!ConsoleConstants PROVE Console!NoCursor \in Cursors
  BY DEF Console!ConsoleConstants, Console!NoCursor, Cursors, Filters

\* The page sends a request and shows what it showed, or waits for a first page without any.
LEMMA SendKeeps ==
    ASSUME Console!ConsoleConstants, ConsoleInv,
           NEW op \in {"load", "more", "decide"}, NEW cursor \in Cursors,
           NEW filter \in Filters, NEW row \in 0..MaxRow, r4' \in Pages,
           Console!Sends(Console!Query(op, cursor, filter, row)),
           \/ r4'.list = r4.list /\ r4'.cursor = r4.cursor
           \/ op = "load" /\ r4'.cursor = Console!NoCursor,
           r4'.failed = r4.failed, r4.busy => r4'.busy,
           r4.cursor = Console!NoCursor /\ op # "load" => r4'.stale = r4.stale,
           op \in {"load", "decide"} => r4'.busy /\ (r6 = 0 \/ ~r4.busy),
           op = "load" => cursor = Console!NoCursor,
           op = "more" => cursor = r4.cursor /\ cursor # Console!NoCursor,
           op = "decide" => row \in Console!Rows
    PROVE  ConsoleInv'
  <1> DEFINE q == Console!Query(op, cursor, filter, row)
  <1>1. /\ r5' = r5 \cup {q} /\ r6' = r6 + 1 /\ r6 < MaxQueries
        /\ UNCHANGED <<r1, r2, r3, r7, r8, r9>>
    BY DEF Console!Sends
  <1>2. /\ r4 \in Pages /\ r9 \subseteq Console!Rows /\ r5 \subseteq Queries /\ r6 \in Nat
        /\ MaxQueries \in Nat /\ IsFiniteSet(r5) /\ Cardinality(r5) <= r6
        /\ r2 \in [Console!Rows -> Console!States]
        /\ r1 \in {"accounts", "deletions"} /\ r3 \in {1, 2}
    BY DEF ConsoleInv, ConsoleTypes, Console!ConsoleConstants
  <1>3. /\ q.op = op /\ q.step = "sent" /\ q.cursor = cursor /\ q.row = row
        /\ q.base = r4.list /\ q.owed = r9
    BY DEF Console!Query
  <1>4. q \in Queries
    <2>1. r4.list \in Lists /\ Console!NoCursor \in Cursors /\ r6 + 1 \in Nat
      BY <1>2, FirstCursor DEF Pages
    <2> QED BY <1>2, <2>1 DEF Console!Query, Queries
  <1> HIDE DEF q
  <1>5. IsFiniteSet(r5') /\ Cardinality(r5') <= r6'
    BY <1>1, <1>2, MoreQueries
  <1>6. ConsoleTypes'
    <2>1. r6' \in Nat /\ r6' <= MaxQueries
      BY <1>1, <1>2
    <2>2. r5' \subseteq Queries
      BY <1>1, <1>2, <1>4
    <2> QED BY <1>1, <1>2, <1>5, <2>1, <2>2
            DEF ConsoleTypes, Pages, Queries, Lists, Cursors, Filters, Console!Rows, Console!States
  <1>7. PageFits'
    <2>1. CASE op = "load" /\ r4'.cursor = Console!NoCursor
      BY <1>1, <1>3, <2>1 DEF PageFits, Console!NoCursor
    <2>2. CASE r4'.list = r4.list /\ r4'.cursor = r4.cursor
      <3>1. CASE Covers(DOMAIN r4.list, r9, r4.cursor)
        BY <1>1, <2>2, <3>1 DEF PageFits, Covers, Console!Matches, Console!NoCursor
      <3>2. CASE ~Covers(DOMAIN r4.list, r9, r4.cursor)
        <4>1. /\ r4.cursor = Console!NoCursor
              /\ r4.stale \/ r4.failed \/ \E p \in r5 : p.op = "load"
          BY <3>2 DEF ConsoleInv, PageFits
        <4>2. r4'.stale \/ r4'.failed \/ \E p \in r5' : p.op = "load"
          BY <1>1, <1>3, <4>1
        <4> QED BY <2>2, <4>1, <4>2 DEF PageFits, Console!NoCursor
      <3> QED BY <3>1, <3>2
    <2> QED BY <2>1, <2>2
  <1>8. ASSUME NEW p \in r5' PROVE QueryFits(p)'
    <2>1. CASE p \in r5
      <3>1. QueryFits(p)
        BY <2>1 DEF ConsoleInv
      <3>2. p.op = "decide" /\ p.step = "answered" => p.row \notin q.owed
        BY <1>3, <3>1 DEF QueryFits
      <3> QED BY <1>1, <3>1, <3>2
                 DEF QueryFits, Covers, Console!Matches, Console!NoCursor, Console!Rows
    <2>2. CASE p = q
      <3>1. op = "more" => Covers(DOMAIN r4.list, r9, r4.cursor)
        BY DEF ConsoleInv, PageFits
      <3> QED BY <1>1, <1>3, <2>2, <3>1
                 DEF QueryFits, Covers, Console!Matches, Console!NoCursor, Console!Rows
    <2> QED BY <1>1, <2>1, <2>2
  <1>9. ASSUME NEW o \in r5', NEW p \in r5', Alone(o), Alone(p) PROVE o = p
    <2>1. CASE op \in {"load", "decide"}
      <3>1. \A d \in r5 : ~Alone(d)
        BY <2>1, NobodyIsAlone
      <3> QED BY <1>1, <1>9, <3>1
    <2>2. CASE op = "more"
      <3>1. ~Alone(q)
        BY <1>3, <2>2 DEF Alone
      <3> QED BY <1>1, <1>9, <3>1 DEF ConsoleInv
    <2> QED BY <2>1, <2>2
  <1> QED BY <1>6, <1>7, <1>8, <1>9 DEF ConsoleInv, Alone

LEMMA LoadKeeps ==
    ASSUME Console!ConsoleConstants, ConsoleInv, NEW p \in Pages, Console!Loads(p),
           r6 = 0 \/ ~r4.busy, p.failed = r4.failed,
           (p.list = r4.list /\ p.cursor = r4.cursor) \/ p.cursor = Console!NoCursor
    PROVE  ConsoleInv'
  <1>1. p.filter \in Filters
    BY DEF Pages
  <1>2. /\ r4' \in Pages /\ r4'.list = p.list /\ r4'.cursor = p.cursor
        /\ r4'.failed = p.failed /\ r4'.busy = TRUE
    BY DEF Console!Loads, Pages
  <1>3. /\ Console!Sends(Console!Query("load", Console!NoCursor, p.filter, 0))
        /\ 0 \in 0..MaxRow
    BY DEF Console!Loads, Console!ConsoleConstants
  <1> QED BY <1>1, <1>2, <1>3, FirstCursor, SendKeeps

LEMMA PageSendsKeep ==
    ASSUME Console!ConsoleConstants, ConsoleInv,
           \/ Console!Open \/ Console!Refresh \/ Console!setAccountStateFilter
           \/ Console!loadMore \/ Console!Decide
    PROVE  ConsoleInv'
  <1>1. r4 \in Pages /\ 0 \in 0..MaxRow /\ r4.cursor \in Cursors /\ r4.filter \in Filters
    BY DEF ConsoleInv, ConsoleTypes, Console!ConsoleConstants, Pages
  <1>2. CASE Console!Open
    BY <1>1, <1>2, LoadKeeps DEF Console!Open
  <1>3. CASE Console!Refresh
    BY <1>1, <1>3, LoadKeeps DEF Console!Refresh
  <1>4. CASE Console!setAccountStateFilter
    <2>1. PICK f \in {"all", "pending", "approved"} : Console!Loads(Console!Filtered(f))
      BY <1>4 DEF Console!setAccountStateFilter
    <2>2. Console!BlankPage.list \in Lists
      <3>1. [r \in {} |-> "absent"] \in [{} -> Console!States] /\ {} \in SUBSET Console!Rows
        OBVIOUS
      <3>2. [r \in {} |-> "absent"] \in Lists
        BY <3>1 DEF Lists
      <3> QED BY <3>2 DEF Console!BlankPage
    <2>3. /\ Console!Filtered(f) \in Pages /\ Console!Filtered(f).failed = r4.failed
          /\ Console!Filtered(f).cursor = Console!NoCursor
      BY <1>1, <2>2, FirstCursor DEF Console!Filtered, Pages, Filters
    <2> QED BY <1>4, <2>1, <2>3, LoadKeeps DEF Console!setAccountStateFilter
  <1>5. CASE Console!loadMore
    <2>1. /\ r4' \in Pages /\ r4'.list = r4.list /\ r4'.cursor = r4.cursor
          /\ r4'.failed = r4.failed /\ r4'.busy = r4.busy
      BY <1>1, <1>5 DEF Console!loadMore, Pages
    <2>2. /\ Console!Sends(Console!Query("more", r4.cursor, r4.filter, 0))
          /\ r4.cursor # Console!NoCursor
      BY <1>5 DEF Console!loadMore
    <2> QED BY <1>1, <2>1, <2>2, SendKeeps
  <1>6. CASE Console!Decide
    <2>1. PICK r \in DOMAIN r4.list :
            /\ r4' = [r4 EXCEPT !.busy = TRUE]
            /\ Console!Sends(Console!Query("decide", Console!NoCursor, r4.filter, r))
      BY <1>6 DEF Console!Decide
    <2>2. /\ r4' \in Pages /\ r4'.list = r4.list /\ r4'.cursor = r4.cursor
          /\ r4'.failed = r4.failed /\ r4'.stale = r4.stale /\ r4'.busy = TRUE
      BY <1>1, <2>1 DEF Pages
    <2>3. r \in Console!Rows /\ r \in 0..MaxRow
      <3>1. r4.list \in Lists
        BY <1>1 DEF Pages
      <3>2. r \in Console!Rows
        BY <3>1 DEF Lists
      <3> QED BY <3>2 DEF Console!Rows, Console!ConsoleConstants
    <2>4. ~r4.busy
      BY <1>6 DEF Console!Decide
    <2> QED BY <1>1, <2>1, <2>2, <2>3, <2>4, FirstCursor, SendKeeps
  <1> QED BY <1>2, <1>3, <1>4, <1>5, <1>6

-----------------------------------------------------------------------------
(* The answers of the server *)

\* An answer takes the place of its request.
LEMMA ReplaceKeeps ==
    ASSUME Console!ConsoleConstants, ConsoleInv,
           NEW q \in r5, NEW p \in Queries, Console!Replace(q, p),
           p.op = q.op, QueryFits(p),
           p.op = "decide" /\ p.step = "answered" => q.step = "answered" /\ p.row = q.row,
           p.owed = q.owed \/ p.op = "load",
           UNCHANGED <<r1, r2, r3, r4, r6, r9>>
    PROVE  ConsoleInv'
  <1>1. /\ r4 \in Pages /\ r9 \subseteq Console!Rows /\ r5 \subseteq Queries /\ r6 \in Nat
        /\ IsFiniteSet(r5) /\ Cardinality(r5) <= r6 /\ r6 <= MaxQueries
        /\ r2 \in [Console!Rows -> Console!States]
        /\ r1 \in {"accounts", "deletions"} /\ r3 \in {1, 2}
    BY DEF ConsoleInv, ConsoleTypes
  <1>2. r5' = (r5 \ {q}) \cup {p}
    BY DEF Console!Replace
  <1>3. IsFiniteSet(r5') /\ Cardinality(r5') <= r6'
    BY <1>1, <1>2, FewerQueries
  <1>4. ConsoleTypes'
    <2>1. r5' \subseteq Queries
      BY <1>1, <1>2
    <2> QED BY <1>1, <1>3, <2>1
            DEF ConsoleTypes, Pages, Queries, Lists, Cursors, Filters, Console!Rows, Console!States
  <1>5. PageFits'
    <2>1. (\E o \in r5 : o.op = "load") => (\E o \in r5' : o.op = "load")
      BY <1>2
    <2>2. PageFits
      BY DEF ConsoleInv
    <2> QED BY <2>1, <2>2 DEF PageFits, Covers, Console!Matches, Console!NoCursor
  <1>6. ASSUME NEW o \in r5', NEW d \in r5', Alone(o), Alone(d) PROVE o = d
    <2>1. \A a, b \in r5 : Alone(a) /\ Alone(b) => a = b
      BY DEF ConsoleInv
    <2>2. Alone(p) => Alone(q)
      BY DEF Alone
    <2> QED BY <1>2, <1>6, <2>1, <2>2
  <1>7. ASSUME NEW o \in r5' PROVE QueryFits(o)'
    <2>1. QueryFits(o) /\ (o.op = "decide" /\ o.step = "answered" => o.row \notin p.owed)
      <3>1. CASE o = p
        <4>1. p.op = "decide" /\ p.step = "answered" => q.row \notin q.owed
          BY DEF ConsoleInv, QueryFits
        <4> QED BY <3>1, <4>1
      <3>2. CASE o \in r5
        <4>1. QueryFits(o)
          BY <3>2 DEF ConsoleInv
        <4>2. CASE p.op = "load"
          <5>1. ~ (o.op = "decide")
            BY <3>2, <4>2 DEF ConsoleInv, Alone
          <5> QED BY <4>1, <5>1
        <4>3. CASE p.owed = q.owed
          BY <4>1, <4>3 DEF QueryFits
        <4> QED BY <4>1, <4>2, <4>3
      <3> QED BY <1>2, <3>1, <3>2
    <2>2. o.op = "decide" /\ o.step = "answered" =>
             \A d \in r5' : o.row \notin d.owed
      BY <1>2, <2>1 DEF QueryFits
    <2> QED BY <2>1, <2>2 DEF QueryFits, Covers, Console!Matches, Console!NoCursor, Console!Rows
  <1> QED BY <1>4, <1>5, <1>6, <1>7 DEF ConsoleInv, Alone

LEMMA LoseKeeps ==
    ASSUME Console!ConsoleConstants, ConsoleInv, NEW q \in r5, Console!Lose(q)
    PROVE  ConsoleInv'
  <1> DEFINE p == [q EXCEPT !.step = "refused"]
  <1>1. q \in Queries /\ QueryFits(q)
    BY DEF ConsoleInv, ConsoleTypes
  <1>2. /\ p \in Queries /\ p.op = q.op /\ p.step = "refused" /\ p.cursor = q.cursor
        /\ p.base = q.base /\ p.owed = q.owed /\ p.row = q.row
    BY <1>1 DEF Queries
  <1>3. Console!Replace(q, p)
    BY DEF Console!Lose
  <1> HIDE DEF p
  <1>4. QueryFits(p)
    BY <1>1, <1>2 DEF QueryFits
  <1> QED BY <1>2, <1>3, <1>4, ReplaceKeeps DEF Console!Lose

\* What a page and the continuation that comes with it cover.
LEMMA PageCovers ==
    ASSUME Console!ConsoleConstants, ConsoleInv, NEW cursor \in Cursors, NEW filter \in Filters,
           NEW due \in SUBSET Console!Rows,
           \A r \in due : r > cursor.after /\ Console!Matches(r, filter)
    PROVE  LET got == Console!listPage(cursor, filter)
           IN  /\ got.rows \in Lists /\ got.cursor \in Cursors
               /\ Covers(DOMAIN got.rows, due, got.cursor)
  <1> DEFINE found == {r \in Console!Rows : r > cursor.after /\ Console!Matches(r, filter)}
             first == Console!FirstOf(PageSize, found)
             got == Console!listPage(cursor, filter)
             next == [after |-> Console!Last(found), filter |-> filter, key |-> r3]
  <1>1. /\ found \in SUBSET Console!Rows /\ due \subseteq found
        /\ \A r \in found : Console!Matches(r, filter)
    OBVIOUS
  <1>2. got = [rows |-> [r \in first |-> r2[r]],
               cursor |-> IF Cardinality(found) > PageSize THEN next ELSE Console!NoCursor]
    BY SameCount DEF Console!listPage
  <1>3. r2 \in [Console!Rows -> Console!States] /\ r3 \in {1, 2}
    BY DEF ConsoleInv, ConsoleTypes
  <1> HIDE DEF found, got
  <1>4. /\ first \subseteq found
        /\ ~ (Cardinality(found) > PageSize) => found \subseteq first
        /\ Cardinality(found) > PageSize =>
              /\ Console!Last(found) \in first
              /\ \A r \in found \ first : r > Console!Last(found)
    BY <1>1, PageIsFirst
  <1> HIDE DEF first
  <1>5. got.rows \in Lists /\ DOMAIN got.rows = first
    BY <1>1, <1>2, <1>3, <1>4 DEF Lists
  <1>6. CASE Cardinality(found) > PageSize
    <2>1. got.cursor = next
      BY <1>2, <1>6
    <2>2. next \in Cursors /\ next # Console!NoCursor
      <3>1. Console!Last(found) \in 0..MaxRow
        <4>1. Console!Last(found) \in Console!Rows
          BY <1>1, <1>4, <1>6
        <4> QED BY <4>1 DEF Console!Rows, Console!ConsoleConstants
      <3> QED BY <1>3, <3>1 DEF Cursors, Console!NoCursor
    <2>3. next.after = Console!Last(found) /\ next.filter = filter
      OBVIOUS
    <2> HIDE DEF next
    <2>4. Covers(first, due, next)
      BY <1>1, <1>4, <1>6, <2>2, <2>3 DEF Covers
    <2> QED BY <1>5, <2>1, <2>2, <2>4 DEF got
  <1>7. CASE ~ (Cardinality(found) > PageSize)
    <2>1. got.cursor = Console!NoCursor
      BY <1>2, <1>7
    <2>2. Covers(first, due, Console!NoCursor)
      BY <1>1, <1>4, <1>7 DEF Covers
    <2> QED BY <1>5, <2>1, <2>2, FirstCursor DEF got
  <1> QED BY <1>6, <1>7

LEMMA ServePageKeeps ==
    ASSUME Console!ConsoleConstants, ConsoleInv, NEW q \in r5, Console!ServePage(q)
    PROVE  ConsoleInv'
  <1> DEFINE good == q.cursor = Console!NoCursor \/ Console!decodeCursor(q.cursor, q.filter)
             got == Console!listPage(q.cursor, q.filter)
             seen == {r \in Console!Rows : Console!Matches(r, q.filter)}
             stale == [q EXCEPT !.step = "invalid_admin_cursor"]
             answer == [q EXCEPT !.step = "answered", !.rows = got.rows, !.next = got.cursor,
                                 !.owed = IF q.op = "load" THEN seen ELSE @]
  <1>1. /\ q \in Queries /\ QueryFits(q) /\ q.op \in {"load", "more"} /\ q.step = "sent"
        /\ q.cursor \in Cursors /\ q.filter \in Filters /\ q.owed \in SUBSET Console!Rows
        /\ seen \in SUBSET Console!Rows
    BY DEF ConsoleInv, ConsoleTypes, Console!ServePage, Queries
  <1>2. Console!Replace(q, IF good THEN answer ELSE stale)
    BY DEF Console!ServePage
  <1>3. CASE ~good
    <2>1. /\ stale \in Queries /\ stale.op = q.op /\ stale.step = "invalid_admin_cursor"
          /\ stale.cursor = q.cursor /\ stale.base = q.base /\ stale.owed = q.owed
      BY <1>1 DEF Queries
    <2>2. q.op = "more"
      BY <1>1, <1>3 DEF QueryFits
    <2>3. Console!Replace(q, stale)
      BY <1>2, <1>3
    <2> HIDE DEF stale
    <2>4. QueryFits(stale)
      BY <1>1, <2>1, <2>2 DEF QueryFits
    <2> QED BY <2>1, <2>2, <2>3, <2>4, ReplaceKeeps DEF Console!ServePage
  <1>4. CASE good
    <2> DEFINE due == IF q.op = "load" THEN seen ELSE q.owed \ DOMAIN q.base
    <2>1. ASSUME NEW r \in due PROVE r > q.cursor.after /\ Console!Matches(r, q.filter)
      <3>1. CASE q.op = "load"
        <4>1. q.cursor = Console!NoCursor /\ r \in seen
          BY <1>1, <3>1, <2>1 DEF QueryFits
        <4>2. r > 0
          BY <4>1 DEF Console!Rows
        <4> QED BY <4>1, <4>2 DEF Console!NoCursor
      <3>2. CASE q.op = "more"
        BY <1>1, <1>4, <2>1, <3>2 DEF QueryFits, Covers, Console!decodeCursor
      <3> QED BY <1>1, <3>1, <3>2
    <2>2. due \in SUBSET Console!Rows
      BY <1>1
    <2> HIDE DEF due
    <2>3. /\ got.rows \in Lists /\ got.cursor \in Cursors
          /\ Covers(DOMAIN got.rows, due, got.cursor)
      BY <1>1, <2>1, <2>2, PageCovers
    <2> HIDE DEF got, seen
    <2>4. /\ answer \in Queries /\ answer.op = q.op /\ answer.step = "answered"
          /\ answer.cursor = q.cursor /\ answer.base = q.base /\ answer.rows = got.rows
          /\ answer.next = got.cursor
          /\ answer.owed = IF q.op = "load" THEN seen ELSE q.owed
      BY <1>1, <2>3 DEF Queries
    <2>5. Console!Replace(q, answer)
      BY <1>2, <1>4
    <2> HIDE DEF answer
    <2>6. QueryFits(answer)
      <3>1. CASE q.op = "load"
        BY <1>1, <2>3, <2>4, <3>1 DEF QueryFits, due
      <3>2. CASE q.op = "more"
        <4>1. Covers(DOMAIN q.base \cup DOMAIN got.rows, q.owed, got.cursor)
          BY <2>3, <3>2 DEF Covers, due
        <4> QED BY <1>1, <2>4, <3>2, <4>1 DEF QueryFits
      <3> QED BY <1>1, <3>1, <3>2
    <2> QED BY <1>1, <2>4, <2>5, <2>6, ReplaceKeeps DEF Console!ServePage
  <1> QED BY <1>3, <1>4

-----------------------------------------------------------------------------
(* A row changes *)

\* A query, where no list owes row r any more.
Without(q, r) == [q EXCEPT !.owed = @ \ {r}]

LEMMA WithoutIs ==
    ASSUME NEW q \in Queries, NEW r
    PROVE  /\ Without(q, r) \in Queries /\ Without(q, r).owed = q.owed \ {r}
           /\ Without(q, r).op = q.op /\ Without(q, r).step = q.step
           /\ Without(q, r).cursor = q.cursor /\ Without(q, r).row = q.row
           /\ Without(q, r).base = q.base /\ Without(q, r).rows = q.rows
           /\ Without(q, r).next = q.next
  BY DEF Without, Queries

\* Row r changes, or its decision is answered, and is owed by nobody from then on.
LEMMA ForgetKeeps ==
    ASSUME Console!ConsoleConstants, ConsoleTypes, PageFits, NEW r \in Console!Rows,
           NEW qs \in SUBSET Queries, IsFiniteSet(qs), Cardinality(qs) <= r6,
           Console!Forgets(r, qs),
           \A q \in r5 : q.op = "load" => q \in qs,
           \A p, q \in qs : Alone(p) /\ Alone(q) => p = q,
           \A q \in qs :
              /\ q.op = "decide" => r4.busy /\ q.row \in Console!Rows
              /\ q.op = "decide" /\ q.step = "answered" /\ q.row # r =>
                    q.row \notin r9 /\ \A p \in qs : q.row \notin p.owed
              /\ q.op # "decide" => QueryFits(q),
           r2' \in [Console!Rows -> Console!States], \A p \in Console!Rows \ {r} : r2'[p] = r2[p],
           UNCHANGED <<r1, r3, r4, r6>>
    PROVE  ConsoleInv'
  <1>1. r5' = {Without(q, r) : q \in qs} /\ r9' = r9 \ {r}
    BY DEF Console!Forgets, Without
  <1>2. /\ r4 \in Pages /\ r9 \subseteq Console!Rows /\ r6 \in Nat /\ r6 <= MaxQueries
        /\ r1 \in {"accounts", "deletions"} /\ r3 \in {1, 2}
    BY DEF ConsoleTypes
  <1>3. IsFiniteSet(r5') /\ Cardinality(r5') <= r6'
    <2> DEFINE f == [q \in qs |-> Without(q, r)]
    <2>1. f \in Surjection(qs, r5')
      BY <1>1 DEF Surjection
    <2> HIDE DEF f
    <2>2. IsFiniteSet(r5') /\ Cardinality(r5') <= Cardinality(qs)
      BY <2>1, FS_Surjection
    <2>3. Cardinality(r5') \in Nat /\ Cardinality(qs) \in Nat
      BY <2>2, FS_CardinalityType
    <2> QED BY <1>2, <2>2, <2>3
  <1>4. ConsoleTypes'
    <2>1. r5' \subseteq Queries
      BY <1>1, WithoutIs
    <2> QED BY SMTT(30), <1>1, <1>2, <1>3, <2>1
            DEF ConsoleTypes, Pages, Queries, Lists, Cursors, Filters, Console!Rows, Console!States
  <1>5. ASSUME NEW listed, NEW due \in SUBSET Console!Rows, NEW next, Covers(listed, due, next)
        PROVE  Covers(listed, due \ {r}, next)'
    BY <1>5 DEF Covers, Console!Matches, Console!NoCursor
  <1>6. PageFits'
    <2>1. CASE Covers(DOMAIN r4.list, r9, r4.cursor)
      <3>1. \A p \in r9' \ DOMAIN r4.list :
               /\ p \in Console!Rows \ {r} /\ r4.cursor # Console!NoCursor /\ p > r4.cursor.after
               /\ Console!Matches(p, r4.cursor.filter)
        BY <1>1, <1>2, <2>1 DEF Covers
      <3> QED BY <3>1 DEF PageFits, Covers, Console!Matches, Console!NoCursor
    <2>2. CASE ~Covers(DOMAIN r4.list, r9, r4.cursor)
      <3>1. /\ r4.cursor = Console!NoCursor
            /\ r4.stale \/ r4.failed \/ \E q \in r5 : q.op = "load"
        BY <2>2 DEF PageFits
      <3>2. (\E q \in r5 : q.op = "load") => \E q \in r5' : q.op = "load"
        BY <1>1, WithoutIs
      <3> QED BY <3>1, <3>2 DEF PageFits, Console!NoCursor
    <2> QED BY <2>1, <2>2
  <1>7. ASSUME NEW o \in r5', NEW d \in r5', Alone(o), Alone(d) PROVE o = d
    <2>1. PICK p \in qs, q \in qs : o = Without(p, r) /\ d = Without(q, r)
      BY <1>1
    <2>2. Alone(p) /\ Alone(q)
      BY <1>7, <2>1, WithoutIs DEF Alone
    <2> QED BY <2>1, <2>2
  <1>8. ASSUME NEW o \in r5' PROVE QueryFits(o)'
    <2>1. PICK q \in qs : o = Without(q, r)
      BY <1>1
    <2>2. /\ o.owed = q.owed \ {r} /\ o.op = q.op /\ o.step = q.step /\ o.cursor = q.cursor
          /\ o.row = q.row /\ o.base = q.base /\ o.rows = q.rows /\ o.next = q.next
          /\ q.owed \in SUBSET Console!Rows /\ q.op \in {"load", "more", "decide"}
      BY <2>1, WithoutIs DEF Queries
    <2>3. CASE q.op = "decide"
      <3>1. q.step = "answered" => \A p \in r5' : q.row \notin p.owed
        BY <1>1, <2>3, WithoutIs
      <3>2. q.step = "answered" => q.row \notin r9'
        BY <1>1, <2>3
      <3> QED BY <2>2, <2>3, <3>1, <3>2 DEF QueryFits, Console!Rows
    <2>4. CASE q.op = "load"
      <3>1. QueryFits(q)
        BY <2>4
      <3>2. q.step = "answered" => Covers(DOMAIN q.rows, q.owed \ {r}, q.next)'
        BY <1>5, <2>2, <2>4, <3>1 DEF QueryFits
      <3>3. q.step = "answered" => Covers(DOMAIN o.rows, o.owed, o.next)'
        BY <2>2, <3>2 DEF Covers, Console!Matches, Console!NoCursor
      <3> QED BY <2>2, <2>4, <3>1, <3>3 DEF QueryFits, Console!NoCursor
    <2>5. CASE q.op = "more"
      <3>1. QueryFits(q)
        BY <2>5
      <3>2. /\ Covers(DOMAIN q.base, q.owed \ {r}, q.cursor)'
            /\ q.step = "answered" =>
                  Covers(DOMAIN q.base \cup DOMAIN q.rows, q.owed \ {r}, q.next)'
        BY <1>5, <2>2, <2>5, <3>1 DEF QueryFits
      <3>3. /\ Covers(DOMAIN o.base, o.owed, o.cursor)'
            /\ q.step = "answered" =>
                  Covers(DOMAIN o.base \cup DOMAIN o.rows, o.owed, o.next)'
        BY <2>2, <3>2 DEF Covers, Console!Matches, Console!NoCursor
      <3> QED BY <2>2, <2>5, <3>1, <3>3 DEF QueryFits, Console!NoCursor
    <2> QED BY <2>2, <2>3, <2>4, <2>5
  <1> QED BY <1>4, <1>6, <1>7, <1>8 DEF ConsoleInv, Alone

LEMMA ServeDecisionKeeps ==
    ASSUME Console!ConsoleConstants, ConsoleInv, NEW q \in r5, Console!ServeDecision(q)
    PROVE  ConsoleInv'
  <1>1. /\ q \in Queries /\ QueryFits(q) /\ q.op = "decide" /\ q.step = "sent"
        /\ q.row \in Console!Rows /\ r4.busy
    BY DEF ConsoleInv, ConsoleTypes, Console!ServeDecision, QueryFits
  <1>2. CASE r2[q.row] = "pending"
    <2> DEFINE answer == [q EXCEPT !.step = "answered"]
               qs == (r5 \ {q}) \cup {answer}
    <2>1. answer \in Queries /\ answer.op = "decide" /\ answer.row = q.row
      BY <1>1 DEF Queries
    <2>2. Console!Forgets(q.row, qs)
      BY <1>2 DEF Console!ServeDecision
    <2>3. /\ r2' = [r2 EXCEPT ![q.row] =
                      IF r1 = "accounts" THEN "approved" ELSE "absent"]
          /\ UNCHANGED <<r1, r3, r4, r6>>
      BY <1>2 DEF Console!ServeDecision
    <2>4. r2 \in [Console!Rows -> Console!States] /\ r5 \subseteq Queries
      BY DEF ConsoleInv, ConsoleTypes
    <2>5. /\ r2' \in [Console!Rows -> Console!States]
          /\ \A p \in Console!Rows \ {q.row} : r2'[p] = r2[p]
      BY <1>1, <2>3, <2>4 DEF Console!States
    <2> HIDE DEF answer
    <2>6. IsFiniteSet(qs) /\ Cardinality(qs) <= r6
      BY FewerQueries DEF ConsoleInv, ConsoleTypes
    <2>7. \A p \in r5 : p # q => p.op # "decide" /\ p.op # "load" /\ QueryFits(p)
      BY <1>1 DEF ConsoleInv, Alone
    <2>8. \A o, p \in qs : Alone(o) /\ Alone(p) => o = p
      BY <2>7 DEF Alone
    <2>9. \A p \in r5 : p.op = "load" => p \in qs
      BY <1>1
    <2>10. qs \in SUBSET Queries
      BY <2>1, <2>4
    <2>11. \A p \in qs :
              /\ p.op = "decide" => r4.busy /\ p.row = q.row
              /\ p.op # "decide" => QueryFits(p)
      BY <1>1, <2>1, <2>7
    <2> HIDE DEF qs
    <2> QED BY <1>1, <2>2, <2>3, <2>5, <2>6, <2>8, <2>9, <2>10, <2>11, ForgetKeeps
            DEF ConsoleInv
  <1>3. CASE r2[q.row] # "pending"
    <2> DEFINE p == [q EXCEPT !.step = "refused"]
    <2>1. /\ p \in Queries /\ p.op = q.op /\ p.step = "refused" /\ p.row = q.row
          /\ p.owed = q.owed
      BY <1>1 DEF Queries
    <2>2. Console!Replace(q, p)
      BY <1>3 DEF Console!ServeDecision
    <2> HIDE DEF p
    <2>3. QueryFits(p)
      BY <1>1, <2>1 DEF QueryFits
    <2> QED BY <1>3, <2>1, <2>2, <2>3, ReplaceKeeps DEF Console!ServeDecision
  <1> QED BY <1>2, <1>3

LEMMA ChangeKeeps ==
    ASSUME Console!ConsoleConstants, ConsoleInv, Console!Change
    PROVE  ConsoleInv'
  <1>1. PICK r \in Console!Rows, s \in Console!States :
          r2' = [r2 EXCEPT ![r] = s] /\ Console!Forgets(r, r5)
    BY DEF Console!Change
  <1>2. /\ r2 \in [Console!Rows -> Console!States] /\ r5 \subseteq Queries /\ IsFiniteSet(r5)
        /\ Cardinality(r5) <= r6
    BY DEF ConsoleInv, ConsoleTypes
  <1>3. r2' \in [Console!Rows -> Console!States] /\ \A p \in Console!Rows \ {r} : r2'[p] = r2[p]
    BY <1>1, <1>2
  <1>4. \A q \in r5 :
           /\ q.op = "decide" => r4.busy /\ q.row \in Console!Rows
           /\ q.op = "decide" /\ q.step = "answered" =>
                 q.row \notin r9 /\ \A p \in r5 : q.row \notin p.owed
           /\ QueryFits(q)
    BY DEF ConsoleInv, QueryFits
  <1>5. UNCHANGED <<r1, r3, r4, r6>>
    BY DEF Console!Change
  <1> QED BY <1>1, <1>2, <1>3, <1>4, <1>5, ForgetKeeps DEF ConsoleInv

-----------------------------------------------------------------------------
(* The page takes an answer *)

\* The page is busy no more, and its list covers what it owes.
LEMMA TakeKeeps ==
    ASSUME Console!ConsoleConstants, ConsoleInv, NEW q \in r5, r5' = r5 \ {q},
           r4' \in Pages, r4'.busy = r4.busy \/ Alone(q), r9' \subseteq Console!Rows,
           PageFits', \A p \in r5' : Alone(p) => r9' \subseteq r9 \cup q.owed,
           UNCHANGED <<r1, r2, r3, r6>>
    PROVE  ConsoleInv'
  <1>1. /\ r5 \subseteq Queries /\ r6 \in Nat /\ IsFiniteSet(r5)
        /\ Cardinality(r5) <= r6 /\ r6 <= MaxQueries
        /\ r2 \in [Console!Rows -> Console!States]
        /\ r1 \in {"accounts", "deletions"} /\ r3 \in {1, 2}
        /\ \A a, b \in r5 : Alone(a) /\ Alone(b) => a = b
        /\ \A p \in r5 : QueryFits(p)
    BY DEF ConsoleInv, ConsoleTypes
  <1>2. IsFiniteSet(r5') /\ Cardinality(r5') <= r6'
    BY <1>1, FewerQueries
  <1>3. ConsoleTypes'
    BY <1>1, <1>2
       DEF ConsoleTypes, Pages, Queries, Lists, Cursors, Filters, Console!Rows, Console!States
  <1>4. ASSUME NEW p \in r5' PROVE QueryFits(p)'
    <2>1. QueryFits(p) /\ p \in r5 /\ (Alone(q) => ~Alone(p))
      BY <1>1
    <2>2. p.op = "decide" /\ p.step = "answered" =>
             p.row \notin r9' /\ \A o \in r5' : p.row \notin o.owed
      BY <1>1, <2>1 DEF QueryFits, Alone
    <2> QED BY <2>1, <2>2
               DEF QueryFits, Alone, Covers, Console!Matches, Console!NoCursor, Console!Rows
  <1> QED BY <1>1, <1>3, <1>4 DEF ConsoleInv, Alone

LEMMA TakeLoadKeeps ==
    ASSUME Console!ConsoleConstants, ConsoleInv, NEW q \in r5, Console!TakeLoad(q)
    PROVE  ConsoleInv'
  <1>1. /\ r4 \in Pages /\ r9 \subseteq Console!Rows /\ q \in Queries /\ QueryFits(q) /\ PageFits
        /\ q.op = "load" /\ Alone(q) /\ q.rows \in Lists /\ q.next \in Cursors
        /\ q.owed \subseteq Console!Rows
    BY DEF ConsoleInv, ConsoleTypes, Console!TakeLoad, Alone, Queries
  <1>2. r5' = r5 \ {q} /\ UNCHANGED <<r1, r2, r3, r6>>
    BY DEF Console!TakeLoad
  <1>3. CASE q.step = "answered"
    <2>1. /\ r4' = [r4 EXCEPT !.list = q.rows, !.cursor = q.next, !.loading = FALSE,
                                !.busy = FALSE, !.failed = FALSE]
          /\ r9' = q.owed
      BY <1>3 DEF Console!TakeLoad
    <2>2. r4' \in Pages /\ r4'.list = q.rows /\ r4'.cursor = q.next
      BY <1>1, <2>1 DEF Pages
    <2>3. Covers(DOMAIN q.rows, q.owed, q.next)
      BY <1>1, <1>3 DEF QueryFits
    <2>4. PageFits'
      BY <1>2, <2>1, <2>2, <2>3 DEF PageFits, Covers, Console!Matches, Console!NoCursor
    <2> QED BY <1>1, <1>2, <2>1, <2>2, <2>4, TakeKeeps
  <1>4. CASE q.step = "refused"
    <2>1. /\ r4' = [r4 EXCEPT !.loading = FALSE, !.busy = FALSE, !.failed = TRUE]
          /\ r9' = r9
      BY <1>4 DEF Console!TakeLoad
    <2>2. /\ r4' \in Pages /\ r4'.list = r4.list /\ r4'.cursor = r4.cursor
          /\ r4'.failed = TRUE
      BY <1>1, <2>1 DEF Pages
    <2>3. PageFits'
      BY <1>1, <1>2, <2>1, <2>2 DEF PageFits, Covers, Console!Matches, Console!NoCursor
    <2> QED BY <1>1, <1>2, <2>1, <2>2, <2>3, TakeKeeps
  <1> QED BY <1>3, <1>4 DEF Console!TakeLoad

LEMMA TakeMoreKeeps ==
    ASSUME Console!ConsoleConstants, ConsoleInv, NEW q \in r5, Console!TakeMore(q)
    PROVE  ConsoleInv'
  <1>1. /\ r4 \in Pages /\ r9 \subseteq Console!Rows /\ q \in Queries /\ QueryFits(q) /\ PageFits
        /\ q.op = "more" /\ q.rows \in Lists /\ q.base \in Lists /\ q.next \in Cursors
        /\ q.owed \subseteq Console!Rows
    BY DEF ConsoleInv, ConsoleTypes, Console!TakeMore, Queries
  <1>2. r5' = r5 \ {q} /\ UNCHANGED <<r1, r2, r3, r6>>
    BY DEF Console!TakeMore
  <1>3. CASE q.step = "answered"
    <2> DEFINE both == Console!appendUniqueById(q.base, q.rows)
    <2>1. /\ r4' = [r4 EXCEPT !.list = both, !.cursor = q.next, !.loading = FALSE]
          /\ r9' = q.owed
      BY <1>1, <1>3 DEF Console!TakeMore
    <2>2. both \in Lists /\ DOMAIN both = DOMAIN q.base \cup DOMAIN q.rows
      <3>1. PICK B \in SUBSET Console!Rows, R \in SUBSET Console!Rows :
              q.base \in [B -> Console!States] /\ q.rows \in [R -> Console!States]
        BY <1>1 DEF Lists
      <3>2. both \in [B \cup R -> Console!States]
        BY <3>1 DEF Console!appendUniqueById
      <3>3. B \cup R \in SUBSET Console!Rows
        OBVIOUS
      <3>4. both \in Lists
        BY <3>2, <3>3 DEF Lists
      <3> QED BY <3>4 DEF Console!appendUniqueById
    <2> HIDE DEF both
    <2>3. /\ r4' \in Pages /\ r4'.list = both /\ r4'.cursor = q.next
          /\ r4'.busy = r4.busy
      BY <1>1, <2>1, <2>2 DEF Pages
    <2>4. Covers(DOMAIN both, q.owed, q.next)
      BY <1>1, <1>3, <2>2 DEF QueryFits
    <2>5. PageFits'
      BY <1>2, <2>1, <2>3, <2>4 DEF PageFits, Covers, Console!Matches, Console!NoCursor
    <2> QED BY <1>1, <1>2, <2>1, <2>3, <2>5, TakeKeeps
  <1>4. CASE q.step = "invalid_admin_cursor"
    <2>1. /\ r4' = [r4 EXCEPT !.stale = TRUE, !.cursor = Console!NoCursor, !.loading = FALSE]
          /\ r9' = r9
      BY <1>1, <1>4 DEF Console!TakeMore
    <2>2. /\ r4' \in Pages /\ r4'.cursor = Console!NoCursor /\ r4'.stale = TRUE
          /\ r4'.busy = r4.busy
      BY <1>1, <2>1, FirstCursor DEF Pages
    <2>3. PageFits'
      BY <2>2 DEF PageFits, Console!NoCursor
    <2> QED BY <1>1, <1>2, <2>1, <2>2, <2>3, TakeKeeps
  <1>5. CASE q.step = "refused"
    <2>1. r4' = [r4 EXCEPT !.loading = FALSE] /\ r9' = r9
      BY <1>1, <1>5 DEF Console!TakeMore
    <2>2. /\ r4' \in Pages /\ r4'.list = r4.list /\ r4'.cursor = r4.cursor
          /\ r4'.busy = r4.busy /\ r4'.stale = r4.stale /\ r4'.failed = r4.failed
      BY <1>1, <2>1 DEF Pages
    <2>3. (\E p \in r5 : p.op = "load") => (\E p \in r5' : p.op = "load")
      BY <1>1, <1>2
    <2>4. PageFits'
      BY <1>1, <1>2, <2>1, <2>2, <2>3 DEF PageFits, Covers, Console!Matches, Console!NoCursor
    <2> QED BY <1>1, <1>2, <2>1, <2>2, <2>4, TakeKeeps
  <1> QED BY <1>3, <1>4, <1>5 DEF Console!TakeMore

\* What a decision does to the list: nothing but that its row may leave it.
LEMMA TakeDecisionKeeps ==
    ASSUME Console!ConsoleConstants, ConsoleInv, NEW q \in r5, Console!TakeDecision(q)
    PROVE  ConsoleInv'
  <1>1. /\ r4 \in Pages /\ r9 \subseteq Console!Rows /\ q \in Queries /\ QueryFits(q) /\ PageFits
        /\ q.op = "decide" /\ Alone(q) /\ r4.list \in Lists
    BY DEF ConsoleInv, ConsoleTypes, Console!TakeDecision, Alone, Pages
  <1>2. r5' = r5 \ {q} /\ UNCHANGED <<r1, r2, r3, r6, r9>>
    BY DEF Console!TakeDecision
  <1>3. PICK B \in SUBSET Console!Rows : r4.list \in [B -> Console!States]
    BY <1>1 DEF Lists
  <1>4. \E listed \in Lists :
           /\ r4' = [r4 EXCEPT !.busy = FALSE, !.list = listed]
           /\ r9 \cap DOMAIN r4.list \subseteq DOMAIN listed
    <2>1. CASE q.step = "answered" /\ r1 = "accounts"
      <3> DEFINE listed == [r \in DOMAIN r4.list |->
                              IF r = q.row THEN "approved" ELSE r4.list[r]]
      <3>1. r4' = [r4 EXCEPT !.busy = FALSE, !.list = listed]
        BY <2>1 DEF Console!TakeDecision
      <3>2. listed \in [B -> Console!States]
        BY <1>3 DEF Console!States
      <3>3. listed \in Lists
        BY <3>2 DEF Lists
      <3>4. DOMAIN listed = DOMAIN r4.list
        OBVIOUS
      <3> HIDE DEF listed
      <3> QED BY <3>1, <3>3, <3>4
    <2>2. CASE q.step = "answered" /\ r1 = "deletions"
      <3> DEFINE listed == [r \in DOMAIN r4.list \ {q.row} |-> r4.list[r]]
      <3>1. r4' = [r4 EXCEPT !.busy = FALSE, !.list = listed]
        BY <2>2 DEF Console!TakeDecision
      <3>2. listed \in [B \ {q.row} -> Console!States]
        BY <1>3
      <3>3. B \ {q.row} \in SUBSET Console!Rows
        OBVIOUS
      <3>4. listed \in Lists
        BY <3>2, <3>3 DEF Lists
      <3>5. DOMAIN listed = DOMAIN r4.list \ {q.row}
        OBVIOUS
      <3>6. q.row \notin r9
        BY <1>1, <2>2 DEF QueryFits
      <3> HIDE DEF listed
      <3> QED BY <3>1, <3>4, <3>5, <3>6
    <2>3. CASE q.step = "refused"
      <3>1. r4' = [r4 EXCEPT !.busy = FALSE]
        BY <2>3 DEF Console!TakeDecision
      <3>2. r4' = [r4 EXCEPT !.busy = FALSE, !.list = r4.list]
        BY <1>1, <3>1 DEF Pages
      <3> QED BY <1>1, <3>2
    <2> QED BY <2>1, <2>2, <2>3 DEF Console!TakeDecision
  <1>5. PICK listed \in Lists : /\ r4' = [r4 EXCEPT !.busy = FALSE, !.list = listed]
                                /\ r9 \cap DOMAIN r4.list \subseteq DOMAIN listed
    BY <1>4
  <1>6. /\ r4' \in Pages /\ r4'.list = listed /\ r4'.cursor = r4.cursor
        /\ r4'.stale = r4.stale /\ r4'.failed = r4.failed
    BY <1>1, <1>5 DEF Pages
  <1>7. PageFits'
    <2>1. CASE Covers(DOMAIN r4.list, r9, r4.cursor)
      <3>1. Covers(DOMAIN listed, r9, r4.cursor)
        BY <1>5, <2>1 DEF Covers
      <3> QED BY <1>2, <1>6, <3>1 DEF PageFits, Covers, Console!Matches, Console!NoCursor
    <2>2. CASE ~Covers(DOMAIN r4.list, r9, r4.cursor)
      <3>1. (\E p \in r5 : p.op = "load") => (\E p \in r5' : p.op = "load")
        BY <1>1, <1>2
      <3> QED BY <1>1, <1>6, <2>2, <3>1 DEF PageFits, Console!NoCursor
    <2> QED BY <2>1, <2>2
  <1> QED BY <1>1, <1>2, <1>6, <1>7, TakeKeeps

-----------------------------------------------------------------------------
(* The theorem *)

LEMMA ConsoleInvInit == Console!ConsoleConstants /\ Console!ConsoleInit => ConsoleInv
  <1> SUFFICES ASSUME Console!ConsoleConstants, Console!ConsoleInit PROVE ConsoleInv
    OBVIOUS
  <1>1. /\ r1 \in {"accounts", "deletions"} /\ r3 \in {1, 2}
        /\ r2 \in [Console!Rows -> Console!States]
        /\ r5 = {} /\ r9 = {} /\ r6 = 0
    BY DEF Console!ConsoleInit, Console!States
  <1>2. r4 \in Pages
    <2>1. [r \in {} |-> "absent"] \in [{} -> Console!States] /\ {} \in SUBSET Console!Rows
      OBVIOUS
    <2>2. [r \in {} |-> "absent"] \in Lists
      BY <2>1 DEF Lists
    <2> HIDE DEF Lists
    <2>3. r4 = Console!BlankPage /\ "pending" \in Filters
      BY DEF Console!ConsoleInit, Filters
    <2> QED BY <2>2, <2>3, FirstCursor DEF Console!BlankPage, Pages
  <1>3. IsFiniteSet(r5) /\ Cardinality(r5) = 0
    BY <1>1, FS_EmptySet
  <1>4. ConsoleTypes
    BY <1>1, <1>2, <1>3 DEF ConsoleTypes, Console!ConsoleConstants
  <1>5. PageFits
    BY <1>1 DEF PageFits, Covers
  <1> QED BY <1>1, <1>4, <1>5 DEF ConsoleInv

LEMMA NewProcessKeeps == ASSUME ConsoleInv, Console!NewProcess PROVE ConsoleInv'
  <1>1. r3' \in {1, 2} /\ UNCHANGED <<r1, r2, r4, r5, r6, r9>>
    BY DEF Console!NewProcess
  <1> QED BY <1>1
             DEF ConsoleInv, ConsoleTypes, PageFits, QueryFits, Covers, Alone, Console!Matches,
                 Console!NoCursor, Pages, Queries, Lists, Cursors, Filters, Console!Rows,
                 Console!States

LEMMA ConsoleInvNext ==
    ASSUME Console!ConsoleConstants, ConsoleInv, [Console!ConsoleNext]_Console!consoleVars
    PROVE  ConsoleInv'
  <1>1. CASE UNCHANGED Console!consoleVars
    BY <1>1 DEF Console!consoleVars, ConsoleInv, ConsoleTypes, PageFits, QueryFits, Covers, Alone,
                Console!Matches, Console!NoCursor, Pages, Queries, Lists, Cursors, Filters,
                Console!Rows, Console!States
  <1>2. CASE Console!ConsoleNext
    BY <1>2, PageSendsKeep, ServePageKeeps, ServeDecisionKeeps, LoseKeeps, TakeLoadKeeps,
       TakeMoreKeeps, TakeDecisionKeeps, ChangeKeeps, NewProcessKeeps DEF Console!ConsoleNext
  <1> QED BY <1>1, <1>2

LEMMA ConsolePromises ==
    ASSUME Console!ConsoleConstants, ConsoleInv
    PROVE  Console!ConsoleTypeOK /\ Console!NothingIsHidden
  <1>1. Console!ConsoleTypeOK
    <2>1. r4.list \in Lists
      BY DEF ConsoleInv, ConsoleTypes, Pages
    <2>2. DOMAIN r4.list \subseteq Console!Rows
      BY <2>1 DEF Lists
    <2>3. Cardinality(r5) \in Nat /\ Cardinality(r5) <= r6 /\ r6 \in Nat
          /\ r6 <= MaxQueries /\ MaxQueries \in Nat
      BY FS_CardinalityType DEF ConsoleInv, ConsoleTypes, Console!ConsoleConstants
    <2>4. Cardinality(r5) <= MaxQueries
      BY <2>3
    <2> QED BY <2>2, <2>4, SameCount DEF Console!ConsoleTypeOK, ConsoleInv, ConsoleTypes
  <1>2. Console!NothingIsHidden
    <2>1. \A q \in r5 : q.op = "load" => r4.busy
      BY DEF ConsoleInv, QueryFits
    <2> QED BY <2>1 DEF Console!NothingIsHidden, ConsoleInv, PageFits, Covers
  <1> QED BY <1>1, <1>2

\* A list that says that it is complete shows every row that was there when its first page was
\* read and is there still, for any number of rows and requests and every size of a page,
\* however rows come and go, requests overlap and cursors outlive their filter or the process
\* that sealed them (listPage, load, loadMore and the decisions of AccountDashboard).
THEOREM OwnerListsAreComplete == PagesSpec => []NothingIsHidden
  <1> DEFINE Inv == machine = "console" => ConsoleInv
  <1>1. PagesInit => Inv
    BY PagesConstants, ConsoleInvInit DEF PagesInit
  <1>2. Inv /\ [PagesNext]_<<machine, registers>> => Inv'
    <2> SUFFICES ASSUME Inv, [PagesNext]_<<machine, registers>>, machine' = "console"
                 PROVE  ConsoleInv'
      OBVIOUS
    <2>1. machine = "console" /\ ConsoleInv
      BY DEF PagesNext
    <2>2. [Console!ConsoleNext]_Console!consoleVars
      BY <2>1 DEF PagesNext, registers, Console!consoleVars
    <2> QED BY <2>1, <2>2, PagesConstants, ConsoleInvNext
  <1>3. Inv => NothingIsHidden
    BY PagesConstants, ConsolePromises DEF NothingIsHidden
  <1> QED BY <1>1, <1>2, <1>3, PTL DEF PagesSpec

-----------------------------------------------------------------------------
(***************************************************************************)
(* The learner's panels (AccountPage): what the registers hold, and the    *)
(* inductive invariant.                                                    *)
(***************************************************************************)

panel == r1
server == r2
page == r3
call == r4
elsewhere == r6
lost == r7
synced == r8

USE DEF panel, server, page, call, elsewhere, lost, synced

RequestStates == {"requested", "processing", "cancelled"}

Requests == Seq([id : Nat, state : RequestStates, token : Nat])

Lines == Seq([id : Nat, state : RequestStates])

Receipts == [id : Nat, token : Nat]

Contents == PanelValues \cup RequestStates \cup Receipts \cup {"unknown", "unverified", None}

\* The requests are numbered from the oldest to the newest, which is the first.
Servers == {s \in [value : Contents, requests : Requests, token : Nat] :
               \A i \in 1..Len(s.requests) : s.requests[i].id = Len(s.requests) + 1 - i}

LearnerPages == [state : {"approved", "suspended"}, shown : Contents, list : Lines,
                 receipt : Receipts \cup {None}, saved : Receipts \cup {None},
                 mode : {"loading", "ready", "offline", "browser"}, heard : BOOLEAN,
                 found : Contents, rotated : BOOLEAN]

Calls == [op : {"none", "load", "write", "unlink", "request", "cancel", "export", "lookup"},
          pc : {"idle", "sent", "half", "answered", "failed"}, arg : Contents, before : Contents,
          value : Contents, requests : Requests, receipt : Receipts \cup {None},
          stale : BOOLEAN]

\* Does a receipt answer?
Answers(s, receipt) == Account!Matching(s, receipt) # {}

\* Nothing came between the page and the account: nobody else and no lost answer, or at
\* least nothing that spoiled the newest receipt.
Quiet == elsewhere = 0 /\ lost = 0

Newest(p) == IF p.receipt # None THEN p.receipt ELSE p.saved

Trusted == Quiet \/ (Newest(page) # None /\ ~page.rotated)

PageTypes ==
    /\ panel \in {"data", "profile", "preferences", "identities"}
    /\ server \in Servers /\ page \in LearnerPages /\ call \in Calls
    /\ elsewhere \in Nat /\ lost \in Nat /\ synced \in BOOLEAN

CallFits ==
    /\ call.op = "none" <=> call.pc = "idle"
    /\ call.pc = "half" => call.op = "load"
    /\ call.op \in {"request", "cancel", "export", "lookup"} => panel = "data"
    /\ call.op = "unlink" => panel = "identities"

\* The preferences are loading while a load is under way, and nothing is known then.
PreferencesFit ==
    panel = "preferences" =>
        /\ page.mode = "loading" <=> call.op = "load"
        /\ call.op = "load" => page.heard /\ ~synced

\* An active request is on the page, or in the answer that comes to it.
ActiveIsShown ==
    /\ Trusted /\ Account!Active(server.requests) =>
          Account!Active(page.list) \/ (call.op = "request" /\ call.pc = "answered")
    /\ call.op = "request" /\ call.pc = "sent" => ~Account!Active(page.list)
    /\ call.op = "request" /\ call.pc = "answered" => Account!Active(call.requests)
    /\ call.op = "cancel" /\ call.pc = "answered" /\ Trusted => ~Account!Active(server.requests)
    /\ call.op = "load" /\ call.pc = "answered" /\ Trusted /\ Account!Active(server.requests) =>
          Account!Active(call.requests)

\* The receipt in an answer answers until another one replaces it.
ReceiptFits ==
    call.op = "request" /\ call.pc = "answered" =>
        /\ call.receipt \in Receipts /\ call.receipt.token <= server.token
        /\ call.receipt.token = server.token => Answers(server, call.receipt)
        /\ Quiet => call.receipt.token = server.token

ReceiptsAnswer ==
    /\ Newest(page) # None /\ ~page.rotated => Answers(server, Newest(page))
    /\ Quiet =>
        /\ page.receipt # None => Answers(server, page.receipt)
        /\ page.saved # None => Answers(server, page.saved)
        /\ page.found # "unknown"
        /\ call.op = "lookup" /\ call.pc = "sent" =>
              call.arg \in Receipts /\ Answers(server, call.arg)
        /\ call.op = "lookup" /\ call.pc = "answered" => call.value # "unknown"

\* What the page shows is what the account holds,
ShowsValue == page.shown = server.value
ShowsRequests == panel = "data" => page.list = Account!Told(server.requests)

\* but for what the call under way will put right.
PageIsTold ==
    synced =>
        /\ page.mode = "ready"
        /\ CASE call.op = "write" /\ panel = "data" ->
                  /\ ShowsRequests
                  /\ call.pc \in {"sent", "failed"} => call.before = server.value
                  /\ call.pc = "answered" => ShowsValue
             [] call.op = "write" /\ panel # "data" -> call.pc # "answered" => ShowsValue
             [] call.op = "unlink" -> call.pc # "answered" => ShowsValue
             [] call.op = "request" /\ call.pc = "answered" ->
                  /\ ShowsValue
                  /\ Account!Told(server.requests)
                        = Account!Prepended(page.list, Head(call.requests))
             [] call.op = "cancel" /\ call.pc = "answered" ->
                  /\ ShowsValue
                  /\ Account!Told(server.requests)
                        = Account!Replaced(page.list, Head(call.requests))
             [] OTHER -> ShowsValue /\ ShowsRequests

\* An answer that nothing overtook tells what the account holds.
AnswersAreFresh ==
    /\ call.op = "write" /\ call.pc = "sent" /\ panel = "data" => page.shown = call.arg
    /\ call.op = "write" /\ call.pc = "answered" /\ panel # "data" /\ ~call.stale =>
          call.value = server.value
    /\ call.op = "load" /\ call.pc \in {"half", "answered"} /\ ~call.stale =>
          call.value = server.value
    /\ call.op = "load" /\ call.pc = "answered" /\ ~call.stale =>
          call.requests = server.requests

\* The answer to a cancellation carries the request.
CancelFits == call.op = "cancel" /\ call.pc = "answered" => call.requests # <<>>

PageInv ==
    /\ CancelFits /\ PageTypes /\ CallFits /\ PreferencesFit /\ ActiveIsShown /\ ReceiptFits
    /\ ReceiptsAnswer /\ PageIsTold /\ AnswersAreFresh

-----------------------------------------------------------------------------
(* The deletion requests of an account *)

LEMMA FirstIsHead ==
    ASSUME NEW T, NEW s \in Seq(T)
    PROVE  /\ s # <<>> <=> Len(s) # 0
           /\ s # <<>> => Len(s) \in Nat \ {0} /\ Head(s) = s[1] /\ s[1] \in T
  OBVIOUS

LEMMA ActiveIsFirst ==
    ASSUME NEW T, NEW s \in Seq(T)
    PROVE  Account!Active(s) <=> Len(s) # 0 /\ s[1].state \in {"requested", "processing"}
  BY FirstIsHead DEF Account!Active

\* What the page is told of a request is everything but the token.
LEMMA ToldLines ==
    ASSUME NEW s \in Requests
    PROVE  /\ Account!Told(s) \in Lines /\ Len(Account!Told(s)) = Len(s)
           /\ \A i \in 1..Len(s) : Account!Told(s)[i] = [id |-> s[i].id, state |-> s[i].state]
           /\ Account!Active(Account!Told(s)) <=> Account!Active(s)
  <1>1. Len(s) \in Nat /\ DOMAIN s = 1..Len(s)
        /\ \A i \in 1..Len(s) : s[i] \in [id : Nat, state : RequestStates, token : Nat]
    BY LenProperties, ElementOfSeq DEF Requests
  <1>2. Account!Told(s) \in [1..Len(s) -> [id : Nat, state : RequestStates]]
    BY <1>1 DEF Account!Told
  <1>3. Account!Told(s) \in Lines /\ Len(Account!Told(s)) = Len(s)
    <2> HIDE DEF RequestStates
    <2> DEFINE T == [id : Nat, state : RequestStates]
    <2>1. \A t : t \in [1..Len(s) -> T] => t \in Seq(T) /\ Len(t) = Len(s)
      <3> HIDE DEF T
      <3> QED BY <1>1
    <2> QED BY <1>2, <2>1 DEF Lines
  <1>4. \A i \in 1..Len(s) : Account!Told(s)[i] = [id |-> s[i].id, state |-> s[i].state]
    BY <1>1 DEF Account!Told
  <1>5. Account!Active(Account!Told(s)) <=> Account!Active(s)
    <2>1. Account!Active(s) <=> Len(s) # 0 /\ s[1].state \in {"requested", "processing"}
      BY ActiveIsFirst DEF Requests
    <2>2. Account!Active(Account!Told(s))
            <=> Len(s) # 0 /\ Account!Told(s)[1].state \in {"requested", "processing"}
      BY <1>3, ActiveIsFirst DEF Lines
    <2>3. Len(s) # 0 => Account!Told(s)[1].state = s[1].state
      <3> HIDE DEF Requests
      <3>1. Len(s) # 0 => 1 \in 1..Len(s)
        BY <1>1
      <3>2. Len(s) # 0 => Account!Told(s)[1] = [id |-> s[1].id, state |-> s[1].state]
        BY <1>4, <3>1
      <3> QED BY <3>2
    <2> QED BY <2>1, <2>2, <2>3
  <1> QED BY <1>3, <1>4, <1>5

LEMMA PrependedLines ==
    ASSUME NEW list \in Lines, NEW s \in Requests, Account!Active(s)
    PROVE  /\ Account!Prepended(list, Head(s)) \in Lines
           /\ Account!Active(Account!Prepended(list, Head(s)))
  <1> DEFINE T == [id : Nat, state : RequestStates]
             line == [id |-> Head(s).id, state |-> Head(s).state]
             pre == <<line>> \o list
  <1>1. s # <<>> /\ Head(s).state \in {"requested", "processing"}
    BY DEF Account!Active
  <1>2. Head(s) \in [id : Nat, state : RequestStates, token : Nat]
    <2> DEFINE R == [id : Nat, state : RequestStates, token : Nat]
    <2>1. s \in Seq(R)
      BY DEF Requests
    <2> HIDE DEF R
    <2>2. Head(s) \in R
      BY <1>1, <2>1, FirstIsHead
    <2> QED BY <2>2 DEF R
  <1>3. line \in T /\ line.state \in {"requested", "processing"}
    BY <1>1, <1>2
  <1>4. Account!Prepended(list, Head(s)) = pre
    BY DEF Account!Prepended
  <1> HIDE DEF line
  <1>5. pre \in Seq(T) /\ Len(pre) = Len(list) + 1 /\ pre[1] = line /\ Len(list) \in Nat
    <2>1. list \in Seq(T) /\ Len(list) \in Nat
      BY LenProperties DEF Lines
    <2> HIDE DEF T
    <2> QED BY <1>3, <2>1
  <1> HIDE DEF pre
  <1>6. Account!Active(pre)
    <2>1. Len(pre) # 0
      BY <1>5
    <2> QED BY <1>3, <1>5, <2>1, ActiveIsFirst
  <1> QED BY <1>4, <1>5, <1>6 DEF Lines

LEMMA ReplacedLines ==
    ASSUME NEW list \in Lines, NEW s \in Requests, s # <<>>
    PROVE  Account!Replaced(list, Head(s)) \in Lines
  <1> DEFINE T == [id : Nat, state : RequestStates]
             line == [id |-> Head(s).id, state |-> Head(s).state]
  <1>1. line \in T
    <2> DEFINE R == [id : Nat, state : RequestStates, token : Nat]
    <2>1. s \in Seq(R)
      BY DEF Requests
    <2> HIDE DEF R
    <2>2. Head(s) \in R
      BY <2>1, FirstIsHead
    <2> QED BY <2>2 DEF R
  <1>2. list \in Seq(T) /\ Len(list) \in Nat
    BY LenProperties DEF Lines
  <1>3. Account!Replaced(list, Head(s))
          = [i \in 1..Len(list) |-> IF list[i].id = Head(s).id THEN line ELSE list[i]]
    BY DEF Account!Replaced
  <1>4. \A t : t \in [1..Len(list) -> T] => t \in Seq(T)
    <2> HIDE DEF T
    <2> QED BY <1>2
  <1>5. \A i \in 1..Len(list) : list[i] \in T
    <2> HIDE DEF T
    <2> QED BY <1>2, ElementOfSeq
  <1>6. Account!Replaced(list, Head(s)) \in [1..Len(list) -> T]
    <2> HIDE DEF T, line
    <2> QED BY <1>1, <1>3, <1>5
  <1> QED BY <1>4, <1>6 DEF Lines

\* A receipt that answers is answered with a state.
LEMMA StatusIsKnown ==
    ASSUME NEW s \in Servers, NEW receipt, Answers(s, receipt)
    PROVE  Account!Status(s, receipt) \in RequestStates
  <1> DEFINE i == CHOOSE j \in Account!Matching(s, receipt) : TRUE
  <1>1. i \in Account!Matching(s, receipt)
    BY DEF Answers
  <1>2. i \in DOMAIN s.requests
    BY <1>1 DEF Account!Matching
  <1>3. s.requests[i].state \in RequestStates
    <2>1. s.requests \in Seq([id : Nat, state : RequestStates, token : Nat])
      BY DEF Servers, Requests
    <2> DEFINE T == [id : Nat, state : RequestStates, token : Nat]
    <2> HIDE DEF i, T
    <2>2. s.requests[i] \in T
      BY <1>2, <2>1, LenProperties, ElementOfSeq DEF T
    <2> QED BY <2>2 DEF T
  <1> QED BY <1>3 DEF Answers, Account!Status

LEMMA AnswersWhere ==
    ASSUME NEW s \in Servers, NEW receipt
    PROVE  Answers(s, receipt) <=> \E i \in 1..Len(s.requests) :
                s.requests[i].id = receipt.id /\ s.requests[i].token = receipt.token
  <1>1. DOMAIN s.requests = 1..Len(s.requests)
    BY DEF Servers, Requests
  <1> QED BY <1>1 DEF Answers, Account!Matching

\* A request for deletion: the token is new, and a request that was active keeps its place.
LEMMA RequestedFits ==
    ASSUME NEW s \in Servers
    PROVE  LET n == Account!Requested(s) IN
           /\ n \in Servers /\ n.value = s.value /\ n.token = s.token + 1
           /\ Account!Active(n.requests)
           /\ n.requests[1].token = n.token
           /\ ~Account!Active(s.requests) =>
                 /\ \A receipt : Answers(s, receipt) => Answers(n, receipt)
                 /\ Account!Told(n.requests)
                       = Account!Prepended(Account!Told(s.requests), Head(n.requests))
  <1> DEFINE t == s.token + 1
             n == Account!Requested(s)
             Rows == [id : Nat, state : RequestStates, token : Nat]
             row == [id |-> Len(s.requests) + 1, state |-> "requested", token |-> t]
  <1>1. /\ s.requests \in Seq(Rows) /\ s.token \in Nat /\ t \in Nat
        /\ s.value \in Contents /\ s.requests \in Requests
        /\ s \in [value : Contents, requests : Requests, token : Nat]
        /\ \A i \in 1..Len(s.requests) : s.requests[i].id = Len(s.requests) + 1 - i
    BY DEF Servers, Requests
  <1>2. CASE Account!Active(s.requests)
    <2> DEFINE q == [s.requests EXCEPT ![1].token = t]
    <2>1. n = [s EXCEPT !.token = t, !.requests = q]
      BY <1>2 DEF Account!Requested
    <2>2. Len(s.requests) # 0 /\ s.requests[1].state \in {"requested", "processing"}
          /\ 1 \in 1..Len(s.requests) /\ s.requests[1] \in Rows /\ Len(s.requests) \in Nat
      <3>1. Len(s.requests) # 0 /\ s.requests[1].state \in {"requested", "processing"}
        BY <1>1, <1>2, ActiveIsFirst
      <3>2. Len(s.requests) \in Nat
        BY <1>1, LenProperties
      <3>3. 1 \in 1..Len(s.requests)
        BY <3>1, <3>2
      <3> HIDE DEF Rows
      <3> QED BY <1>1, <3>1, <3>2, <3>3, ElementOfSeq
    <2>3. [s.requests[1] EXCEPT !.token = t] \in Rows
      BY <1>1, <2>2
    <2>4. q = [s.requests EXCEPT ![1] = [s.requests[1] EXCEPT !.token = t]]
      OBVIOUS
    <2>5. q \in Seq(Rows) /\ Len(q) = Len(s.requests)
      <3> HIDE DEF Rows
      <3>1. /\ [s.requests EXCEPT ![1] = [s.requests[1] EXCEPT !.token = t]] \in Seq(Rows)
            /\ Len([s.requests EXCEPT ![1] = [s.requests[1] EXCEPT !.token = t]])
                  = Len(s.requests)
        BY <1>1, <2>2, <2>3, ExceptSeq
      <3> QED BY <2>4, <3>1
    <2>6. /\ q[1] = [s.requests[1] EXCEPT !.token = t]
          /\ \A i \in 1..Len(s.requests) : q[i].id = s.requests[i].id
      <3>1. \A i \in 1..Len(s.requests) :
                q[i] = IF i = 1 THEN [s.requests[1] EXCEPT !.token = t] ELSE s.requests[i]
        BY SMTT(30), <1>1, <2>2, <2>4
      <3>2. [s.requests[1] EXCEPT !.token = t].id = s.requests[1].id
        BY <2>2
      <3> HIDE DEF q
      <3> QED BY <2>2, <3>1, <3>2
    <2>7. q[1].state = s.requests[1].state /\ q[1].token = t
      BY <2>2, <2>6
    <2> HIDE DEF q, t
    <2>8. /\ n \in [value : Contents, requests : Requests, token : Nat] /\ n.requests = q
          /\ n.token = t /\ n.value = s.value
      BY <1>1, <2>1, <2>5 DEF Requests
    <2> HIDE DEF n
    <2>9. n \in Servers
      BY <1>1, <2>5, <2>6, <2>8 DEF Servers
    <2>10. Account!Active(n.requests)
      BY <2>2, <2>5, <2>7, <2>8, ActiveIsFirst
    <2> QED BY <1>2, <2>7, <2>8, <2>9, <2>10 DEF t, n
  <1>3. CASE ~Account!Active(s.requests)
    <2> DEFINE q == <<row>> \o s.requests
    <2>1. n = [s EXCEPT !.token = t, !.requests = q]
      BY <1>3 DEF Account!Requested
    <2>2. row \in Rows /\ Len(s.requests) \in Nat
      BY <1>1 DEF RequestStates
    <2>3. /\ q \in Seq(Rows) /\ Len(q) = Len(s.requests) + 1 /\ q[1] = row
          /\ \A i \in 1..Len(s.requests) : q[i + 1] = s.requests[i]
          /\ \A i \in 2..Len(s.requests) + 1 : q[i] = s.requests[i - 1]
      <3> HIDE DEF row, Rows
      <3> QED BY <1>1, <2>2
    <2>4. row.id = Len(s.requests) + 1 /\ row.state = "requested" /\ row.token = t
      OBVIOUS
    <2> HIDE DEF q, t, row
    <2>5. /\ n \in [value : Contents, requests : Requests, token : Nat] /\ n.requests = q
          /\ n.token = t /\ n.value = s.value
      BY <1>1, <2>1, <2>3 DEF Requests
    <2> HIDE DEF n
    <2>6. n \in Servers
      <3>1. ASSUME NEW i \in 1..Len(q) PROVE q[i].id = Len(q) + 1 - i
        <4>1. CASE i = 1
          BY <2>2, <2>3, <2>4, <4>1
        <4>2. CASE i # 1
          <5>1. i - 1 \in 1..Len(s.requests) /\ i \in 2..Len(s.requests) + 1
            BY <2>2, <2>3, <4>2
          <5>2. q[i].id = Len(s.requests) + 1 - (i - 1)
            BY <1>1, <2>3, <5>1
          <5> QED BY <2>2, <2>3, <5>2
        <4> QED BY <4>1, <4>2
      <3> QED BY <2>5, <3>1 DEF Servers
    <2>7. Account!Active(n.requests)
      BY <2>2, <2>3, <2>4, <2>5, ActiveIsFirst
    <2>8. ASSUME NEW receipt, Answers(s, receipt) PROVE Answers(n, receipt)
      <3>1. PICK i \in 1..Len(s.requests) :
                s.requests[i].id = receipt.id /\ s.requests[i].token = receipt.token
        BY <2>8, AnswersWhere
      <3>2. i + 1 \in 1..Len(q)
        <4>1. Len(q) = Len(s.requests) + 1
          BY <2>3
        <4> QED BY <2>2, <4>1
      <3>3. q[i + 1] = s.requests[i]
        BY <2>3
      <3> QED BY <2>5, <2>6, <3>1, <3>2, <3>3, AnswersWhere
    <2>9. Account!Told(q) = Account!Prepended(Account!Told(s.requests), Head(q))
      <3> DEFINE line(r) == [id |-> r.id, state |-> r.state]
                 told == Account!Told(s.requests)
      <3>1. /\ told \in Seq([id : Nat, state : RequestStates]) /\ Len(told) = Len(s.requests)
            /\ \A i \in 1..Len(s.requests) : told[i] = line(s.requests[i])
        <4> HIDE DEF Requests, RequestStates
        <4> QED BY <1>1, ToldLines DEF Lines
      <3>2. /\ Account!Told(q) \in Seq([id : Nat, state : RequestStates])
            /\ Len(Account!Told(q)) = Len(q)
            /\ \A i \in 1..Len(q) : Account!Told(q)[i] = line(q[i])
        BY <2>3, ToldLines DEF Lines, Requests
      <3>3. Head(q) = row
        BY <2>2, <2>3, FirstIsHead
      <3>4. line(row) \in [id : Nat, state : RequestStates]
        BY <2>2
      <3> DEFINE pre == <<line(row)>> \o told
      <3>5. Account!Prepended(told, Head(q)) = pre
        BY <3>3 DEF Account!Prepended
      <3> HIDE DEF told, line
      <3>6. /\ pre \in Seq([id : Nat, state : RequestStates]) /\ Len(pre) = Len(told) + 1
            /\ pre[1] = line(row)
            /\ \A i \in 2..Len(told) + 1 : pre[i] = told[i - 1]
        BY <3>1, <3>4
      <3> HIDE DEF pre
      <3>7. ASSUME NEW i \in 1..Len(q) PROVE Account!Told(q)[i] = pre[i]
        <4>1. CASE i = 1
          BY <2>2, <2>3, <3>2, <3>6, <4>1
        <4>2. CASE i # 1
          <5>1. i - 1 \in 1..Len(s.requests) /\ i \in 2..Len(s.requests) + 1
            BY <2>2, <2>3, <4>2
          <5>2. q[i] = s.requests[i - 1] /\ pre[i] = told[i - 1]
            BY <2>3, <3>1, <3>6, <5>1
          <5> QED BY <3>1, <3>2, <5>1, <5>2
        <4> QED BY <4>1, <4>2
      <3>8. Len(pre) = Len(q)
        BY <2>2, <2>3, <3>1, <3>6
      <3>9. Account!Told(q) = pre
        BY <3>2, <3>6, <3>7, <3>8, SeqEqual
      <3> QED BY <3>5, <3>9 DEF told
    <2> QED BY <1>3, <2>3, <2>4, <2>5, <2>6, <2>7, <2>8, <2>9 DEF t, n
  <1> QED BY <1>2, <1>3

\* A change of the newest request's state.
LEMMA StateChangeFits ==
    ASSUME NEW s \in Servers, Len(s.requests) # 0, NEW state \in RequestStates
    PROVE  LET n == [s EXCEPT !.requests[1].state = state] IN
           /\ n \in Servers /\ n.value = s.value /\ n.token = s.token
           /\ Account!Active(n.requests) <=> state \in {"requested", "processing"}
           /\ \A receipt : Answers(s, receipt) => Answers(n, receipt)
           /\ Account!Told(n.requests)
                 = Account!Replaced(Account!Told(s.requests), Head(n.requests))
  <1> DEFINE Rows == [id : Nat, state : RequestStates, token : Nat]
             n == [s EXCEPT !.requests[1].state = state]
             q == [s.requests EXCEPT ![1] = [s.requests[1] EXCEPT !.state = state]]
             count == Len(s.requests)
  <1>1. /\ s.requests \in Seq(Rows) /\ s.requests \in Requests
        /\ s.value \in Contents /\ s.token \in Nat
        /\ s \in [value : Contents, requests : Requests, token : Nat]
        /\ \A i \in 1..count : s.requests[i].id = count + 1 - i
    BY DEF Servers, Requests
  <1>2. count \in Nat /\ count # 0 /\ 1 \in 1..count /\ s.requests[1] \in Rows
    <2>1. count \in Nat
      BY <1>1, LenProperties
    <2>2. 1 \in 1..count
      BY <2>1
    <2> HIDE DEF Rows
    <2> QED BY <1>1, <2>1, <2>2, ElementOfSeq
  <1>3. [s.requests[1] EXCEPT !.state = state] \in Rows
    BY <1>2
  <1>4. /\ q \in Seq(Rows) /\ Len(q) = count
        /\ \A i \in 1..count :
              q[i] = IF i = 1 THEN [s.requests[1] EXCEPT !.state = state] ELSE s.requests[i]
    <2> HIDE DEF Rows
    <2> QED BY <1>1, <1>2, <1>3, ExceptSeq
  <1>5. n = [s EXCEPT !.requests = q]
    OBVIOUS
  <1>6. /\ q[1].state = state /\ q[1].id = count
        /\ \A i \in 1..count : q[i].id = s.requests[i].id /\ q[i].token = s.requests[i].token
        /\ \A i \in 1..count : i # 1 => q[i].state = s.requests[i].state
    <2>1. /\ [s.requests[1] EXCEPT !.state = state].id = s.requests[1].id
          /\ [s.requests[1] EXCEPT !.state = state].token = s.requests[1].token
          /\ [s.requests[1] EXCEPT !.state = state].state = state
      BY <1>2
    <2>2. s.requests[1].id = count
      BY <1>1, <1>2
    <2> HIDE DEF q
    <2> QED BY <1>2, <1>4, <2>1, <2>2
  <1> HIDE DEF q
  <1>7. /\ n \in [value : Contents, requests : Requests, token : Nat] /\ n.requests = q
        /\ n.value = s.value /\ n.token = s.token
    BY <1>1, <1>4, <1>5 DEF Requests
  <1> HIDE DEF n
  <1>8. n \in Servers
    BY <1>1, <1>4, <1>6, <1>7 DEF Servers
  <1>9. Account!Active(n.requests) <=> state \in {"requested", "processing"}
    BY <1>2, <1>4, <1>6, <1>7, ActiveIsFirst
  <1>10. ASSUME NEW receipt, Answers(s, receipt) PROVE Answers(n, receipt)
    <2>1. PICK i \in 1..count :
              s.requests[i].id = receipt.id /\ s.requests[i].token = receipt.token
      BY <1>10, AnswersWhere
    <2>2. q[i].id = receipt.id /\ q[i].token = receipt.token /\ i \in 1..Len(q)
      BY <1>4, <1>6, <2>1
    <2> QED BY <1>7, <1>8, <2>2, AnswersWhere
  <1>11. Account!Told(q) = Account!Replaced(Account!Told(s.requests), Head(q))
    <2> DEFINE told == Account!Told(s.requests)
               line == [id |-> q[1].id, state |-> q[1].state]
               T == [id : Nat, state : RequestStates]
               repl == Account!Replaced(told, q[1])
    <2>1. /\ told \in Seq(T) /\ Len(told) = count
          /\ \A i \in 1..count :
                told[i] = [id |-> s.requests[i].id, state |-> s.requests[i].state]
      BY <1>1, ToldLines DEF Lines
    <2>2. /\ Account!Told(q) \in Seq(T) /\ Len(Account!Told(q)) = count
          /\ \A i \in 1..count : Account!Told(q)[i] = [id |-> q[i].id, state |-> q[i].state]
      BY <1>4, ToldLines DEF Lines, Requests
    <2>3. Head(q) = q[1]
      BY <1>2, <1>4, FirstIsHead
    <2>4. /\ line \in T
      BY <1>2, <1>6
    <2>5. ASSUME NEW i \in 1..count
          PROVE  Account!Told(q)[i] = IF told[i].id = q[1].id THEN line ELSE told[i]
      <3>1. told[i].id = s.requests[i].id /\ s.requests[i].id = count + 1 - i
        <4>1. told[i] = [id |-> s.requests[i].id, state |-> s.requests[i].state]
          BY <2>1
        <4> HIDE DEF told
        <4> QED BY SMTT(30), <1>1, <4>1
      <3>2. CASE i = 1
        BY <1>6, <2>2, <3>1, <3>2
      <3>3. CASE i # 1
        <4>1. told[i].id # q[1].id
          BY <1>2, <1>6, <3>1, <3>3
        <4>2. Account!Told(q)[i] = told[i]
          BY <1>6, <2>1, <2>2, <3>3
        <4> QED BY <4>1, <4>2
      <3> QED BY <3>2, <3>3
    <2>6. repl = [i \in 1..count |-> IF told[i].id = q[1].id THEN line ELSE told[i]]
      BY <2>1 DEF Account!Replaced
    <2>7. \A i \in 1..count : (IF told[i].id = q[1].id THEN line ELSE told[i]) \in T
      <3> HIDE DEF T, told, line
      <3> QED BY <2>1, <2>4, ElementOfSeq
    <2>8. repl \in [1..count -> T]
      <3> HIDE DEF T, told, line, repl
      <3> QED BY <2>6, <2>7
    <2>9. Account!Told(q) \in [1..count -> T]
      <3> HIDE DEF T
      <3> QED BY <2>2, LenProperties
    <2>10. \A i \in 1..count : repl[i] = IF told[i].id = q[1].id THEN line ELSE told[i]
      <3> HIDE DEF T, told, line, repl
      <3> QED BY <2>6
    <2>11. Account!Told(q) = repl
      <3> HIDE DEF T, told, line, repl
      <3> QED BY <2>5, <2>8, <2>9, <2>10
    <2> QED BY <2>3, <2>11
  <1> QED BY <1>7, <1>8, <1>9, <1>10, <1>11 DEF n

-----------------------------------------------------------------------------
(* Every step of the page keeps the invariant *)

LEMMA CallRecords ==
    /\ Account!Idle \in Calls /\ Account!Idle.op = "none" /\ Account!Idle.pc = "idle"
    /\ Account!Load \in Calls /\ Account!Load.op = "load" /\ Account!Load.pc = "sent"
    /\ ~Account!Load.stale
  <1>1. <<>> \in Requests
    BY EmptySeq DEF Requests
  <1> HIDE DEF Requests
  <1>2. Account!Idle \in Calls
    BY <1>1 DEF Account!Idle, Calls, Contents
  <1>3. Account!Load = [Account!Idle EXCEPT !.op = "load", !.pc = "sent"]
    BY DEF Account!Load
  <1>4. Account!Idle.op = "none" /\ Account!Idle.pc = "idle" /\ Account!Idle.stale = FALSE
    BY DEF Account!Idle
  <1> HIDE DEF Account!Idle
  <1> QED BY <1>2, <1>3, <1>4 DEF Calls

LEMMA RefreshKeeps == ASSUME PageInv, Account!Refresh PROVE PageInv'
  <1>1. /\ call.pc = "idle" /\ panel \in {"data", "profile"} /\ call' = Account!Load
        /\ UNCHANGED <<panel, server, page, elsewhere, lost, synced>>
    BY DEF Account!Refresh, Account!Sends, Account!OffersRefresh, Account!OffersRetry
  <1> QED BY <1>1, CallRecords
          DEF PageInv, PageTypes, CallFits, PreferencesFit, ActiveIsShown, ReceiptFits,
              ReceiptsAnswer, PageIsTold, AnswersAreFresh, ShowsValue, ShowsRequests, Trusted,
              Quiet, Newest, CancelFits

LEMMA ToggleConsentKeeps == ASSUME PageInv, Account!ToggleConsent PROVE PageInv'
  <1>1. /\ call.pc = "idle" /\ panel = "data"
        /\ UNCHANGED <<panel, server, elsewhere, lost, synced>>
    BY DEF Account!ToggleConsent, Account!Sends, Account!OffersSwitch
  <1>2. PICK v \in PanelValues :
           /\ call' = [Account!Idle EXCEPT !.op = "write", !.pc = "sent", !.arg = v,
                                           !.before = page.shown]
           /\ page' = [page EXCEPT !.shown = v]
    BY DEF Account!ToggleConsent
  <1>3. page \in LearnerPages /\ v \in Contents
    BY DEF PageInv, PageTypes, Contents
  <1>4. /\ call' \in Calls /\ call'.op = "write" /\ call'.pc = "sent" /\ call'.arg = v
        /\ call'.before = page.shown
    BY <1>2, <1>3, CallRecords DEF Calls, LearnerPages
  <1>5. /\ page' \in LearnerPages /\ page'.shown = v /\ page'.list = page.list
        /\ page'.receipt = page.receipt /\ page'.saved = page.saved /\ page'.mode = page.mode
        /\ page'.heard = page.heard /\ page'.found = page.found
        /\ page'.rotated = page.rotated
    BY <1>2, <1>3 DEF LearnerPages
  <1> QED BY <1>1, <1>4, <1>5
          DEF PageInv, PageTypes, CallFits, PreferencesFit, ActiveIsShown, ReceiptFits,
              ReceiptsAnswer, PageIsTold, AnswersAreFresh, ShowsValue, ShowsRequests, Trusted,
              Quiet, Newest, CancelFits

LEMMA SaveKeeps == ASSUME PageInv, Account!Save PROVE PageInv'
  <1>1. /\ call.pc = "idle"
        /\ panel = "profile" \/ (panel = "preferences" /\ page.mode = "ready")
        /\ UNCHANGED <<panel, server, page, elsewhere, lost, synced>>
    BY DEF Account!Save, Account!Sends, Account!OffersProfileForm, Account!OffersPreferences
  <1>2. PICK v \in PanelValues :
           call' = [Account!Idle EXCEPT !.op = "write", !.pc = "sent", !.arg = v]
    BY DEF Account!Save
  <1>3. call' \in Calls /\ call'.op = "write" /\ call'.pc = "sent"
    BY <1>2, CallRecords DEF Calls, Contents
  <1> QED BY <1>1, <1>3
          DEF PageInv, PageTypes, CallFits, PreferencesFit, ActiveIsShown, ReceiptFits,
              ReceiptsAnswer, PageIsTold, AnswersAreFresh, ShowsValue, ShowsRequests, Trusted,
              Quiet, Newest, CancelFits

LEMMA SaveInSessionKeeps == ASSUME PageInv, Account!SaveInSession PROVE PageInv'
  <1>1. /\ call.pc = "idle" /\ panel = "preferences" /\ page.mode # "ready"
        /\ UNCHANGED <<panel, server, call, elsewhere, lost, synced>>
    BY DEF Account!SaveInSession, Account!OffersPreferences
  <1>2. PICK v \in PanelValues : page' = [page EXCEPT !.shown = v, !.heard = FALSE]
    BY DEF Account!SaveInSession
  <1>3. /\ page' \in LearnerPages /\ page'.list = page.list
        /\ page'.receipt = page.receipt /\ page'.saved = page.saved /\ page'.mode = page.mode
        /\ page'.found = page.found /\ page'.rotated = page.rotated
    BY <1>2 DEF LearnerPages, PageInv, PageTypes, Contents
  <1> QED BY <1>1, <1>3
          DEF PageInv, PageTypes, CallFits, PreferencesFit, ActiveIsShown, ReceiptFits,
              ReceiptsAnswer, PageIsTold, AnswersAreFresh, ShowsValue, ShowsRequests, Trusted,
              Quiet, Newest, CancelFits

LEMMA UnlinkKeeps == ASSUME PageInv, Account!Unlink PROVE PageInv'
  <1>1. /\ call.pc = "idle" /\ panel = "identities"
        /\ UNCHANGED <<panel, server, page, elsewhere, lost, synced>>
    BY DEF Account!Unlink, Account!Sends, Account!OffersUnlink
  <1>2. PICK v \in PanelValues :
           call' = [Account!Idle EXCEPT !.op = "unlink", !.pc = "sent", !.arg = v]
    BY DEF Account!Unlink
  <1>3. call' \in Calls /\ call'.op = "unlink" /\ call'.pc = "sent"
    BY <1>2, CallRecords DEF Calls, Contents
  <1> QED BY <1>1, <1>3
          DEF PageInv, PageTypes, CallFits, PreferencesFit, ActiveIsShown, ReceiptFits,
              ReceiptsAnswer, PageIsTold, AnswersAreFresh, ShowsValue, ShowsRequests, Trusted,
              Quiet, Newest, CancelFits

LEMMA RequestDeletionKeeps == ASSUME PageInv, Account!RequestDeletion PROVE PageInv'
  <1>1. /\ call.pc = "idle" /\ panel = "data" /\ ~Account!Active(page.list)
        /\ call' = [Account!Idle EXCEPT !.op = "request", !.pc = "sent"]
        /\ UNCHANGED <<panel, server, page, elsewhere, lost, synced>>
    BY DEF Account!RequestDeletion, Account!Sends, Account!OffersRequest
  <1>2. call' \in Calls /\ call'.op = "request" /\ call'.pc = "sent"
    BY <1>1, CallRecords DEF Calls
  <1> QED BY <1>1, <1>2
          DEF PageInv, PageTypes, CallFits, PreferencesFit, ActiveIsShown, ReceiptFits,
              ReceiptsAnswer, PageIsTold, AnswersAreFresh, ShowsValue, ShowsRequests, Trusted,
              Quiet, Newest, CancelFits

LEMMA CancelDeletionKeeps == ASSUME PageInv, Account!CancelDeletion PROVE PageInv'
  <1>1. /\ call.pc = "idle" /\ panel = "data"
        /\ call' = [Account!Idle EXCEPT !.op = "cancel", !.pc = "sent"]
        /\ UNCHANGED <<panel, server, page, elsewhere, lost, synced>>
    BY DEF Account!CancelDeletion, Account!Sends, Account!OffersCancel
  <1>2. call' \in Calls /\ call'.op = "cancel" /\ call'.pc = "sent"
    BY <1>1, CallRecords DEF Calls
  <1> QED BY <1>1, <1>2
          DEF PageInv, PageTypes, CallFits, PreferencesFit, ActiveIsShown, ReceiptFits,
              ReceiptsAnswer, PageIsTold, AnswersAreFresh, ShowsValue, ShowsRequests, Trusted,
              Quiet, Newest, CancelFits

LEMMA ExportDataKeeps == ASSUME PageInv, Account!ExportData PROVE PageInv'
  <1>1. /\ call.pc = "idle" /\ panel = "data"
        /\ call' = [Account!Idle EXCEPT !.op = "export", !.pc = "sent"]
        /\ UNCHANGED <<panel, server, page, elsewhere, lost, synced>>
    BY DEF Account!ExportData, Account!Sends
  <1>2. call' \in Calls /\ call'.op = "export" /\ call'.pc = "sent"
    BY <1>1, CallRecords DEF Calls
  <1> QED BY <1>1, <1>2
          DEF PageInv, PageTypes, CallFits, PreferencesFit, ActiveIsShown, ReceiptFits,
              ReceiptsAnswer, PageIsTold, AnswersAreFresh, ShowsValue, ShowsRequests, Trusted,
              Quiet, Newest, CancelFits

LEMMA SaveReceiptKeeps ==
    ASSUME Account!AccountConstants, PageInv, Account!SaveReceipt PROVE PageInv'
  <1>1. /\ page.receipt # None
        /\ page' = [page EXCEPT !.saved = page.receipt, !.receipt = None]
        /\ UNCHANGED <<panel, server, call, elsewhere, lost, synced>>
    BY DEF Account!SaveReceipt, Account!OffersReceipt
  <1>2. /\ page' \in LearnerPages /\ page'.list = page.list /\ page'.shown = page.shown
        /\ page'.receipt = None /\ page'.saved = page.receipt /\ page'.mode = page.mode
        /\ page'.heard = page.heard /\ page'.found = page.found
        /\ page'.rotated = page.rotated
    BY <1>1 DEF LearnerPages, PageInv, PageTypes
  <1> QED BY <1>1, <1>2
          DEF PageInv, PageTypes, CallFits, PreferencesFit, ActiveIsShown, ReceiptFits,
              ReceiptsAnswer, PageIsTold, AnswersAreFresh, ShowsValue, ShowsRequests, Trusted,
              Quiet, Newest, CancelFits

LEMMA LookupKeeps ==
    ASSUME Account!AccountConstants, PageInv, Account!Lookup PROVE PageInv'
  <1>1. /\ call.pc = "idle" /\ panel = "data" /\ page.saved # None
        /\ call' = [Account!Idle EXCEPT !.op = "lookup", !.pc = "sent", !.arg = page.saved]
        /\ page' = [page EXCEPT !.found = None]
        /\ UNCHANGED <<panel, server, elsewhere, lost, synced>>
    BY DEF Account!Lookup, Account!Sends
  <1>2. page \in LearnerPages /\ page.saved \in Receipts
    BY <1>1 DEF PageInv, PageTypes, LearnerPages
  <1>3. call' \in Calls /\ call'.op = "lookup" /\ call'.pc = "sent" /\ call'.arg = page.saved
    BY <1>1, <1>2, CallRecords DEF Calls, Contents
  <1>4. /\ page' \in LearnerPages /\ page'.list = page.list /\ page'.shown = page.shown
        /\ page'.receipt = page.receipt /\ page'.saved = page.saved /\ page'.mode = page.mode
        /\ page'.heard = page.heard /\ page'.found = None /\ page'.rotated = page.rotated
    BY <1>1, <1>2 DEF LearnerPages, Contents
  <1>5. None # "unknown"
    BY DEF Account!AccountConstants
  <1> QED BY <1>1, <1>2, <1>3, <1>4, <1>5
          DEF PageInv, PageTypes, CallFits, PreferencesFit, ActiveIsShown, ReceiptFits,
              ReceiptsAnswer, PageIsTold, AnswersAreFresh, ShowsValue, ShowsRequests, Trusted,
              Quiet, Newest, CancelFits

LEMMA RefusedKeeps == ASSUME PageInv, Account!Refused PROVE PageInv'
  <1>1. /\ call.pc = "sent" /\ call' = [call EXCEPT !.pc = "failed"]
        /\ UNCHANGED <<panel, server, page, elsewhere, lost, synced>>
    BY DEF Account!Refused
  <1>2. /\ call' \in Calls /\ call'.op = call.op /\ call'.pc = "failed"
        /\ call'.before = call.before /\ call'.receipt = call.receipt
        /\ call'.requests = call.requests
    BY <1>1 DEF Calls, PageInv, PageTypes
  <1> QED BY <1>1, <1>2
          DEF PageInv, PageTypes, CallFits, PreferencesFit, ActiveIsShown, ReceiptFits,
              ReceiptsAnswer, PageIsTold, AnswersAreFresh, ShowsValue, ShowsRequests, Trusted,
              Quiet, Newest, CancelFits

LEMMA LoseKeepsPage == ASSUME PageInv, Account!Lose PROVE PageInv'
  <1>1. /\ call.pc \in {"sent", "half", "answered"} /\ call' = [call EXCEPT !.pc = "failed"]
        /\ lost' = lost + 1
        /\ synced' = (synced /\ (call.pc # "answered" \/ call.op \in {"load", "lookup", "export"}))
        /\ page' = [page EXCEPT !.rotated = @ \/ (call.op = "request" /\ call.pc = "answered")]
        /\ UNCHANGED <<panel, server, elsewhere>>
    BY DEF Account!Lose
  <1>2. /\ call' \in Calls /\ call'.op = call.op /\ call'.pc = "failed"
        /\ call'.before = call.before
    BY <1>1 DEF Calls, PageInv, PageTypes
  <1>3. page \in LearnerPages /\ synced \in BOOLEAN /\ lost \in Nat
    BY DEF PageInv, PageTypes
  <1>4. (page.rotated \/ (call.op = "request" /\ call.pc = "answered")) \in BOOLEAN
    BY Zenon
  <1>5. /\ page' \in LearnerPages /\ page'.list = page.list /\ page'.shown = page.shown
        /\ page'.receipt = page.receipt /\ page'.saved = page.saved /\ page'.mode = page.mode
        /\ page'.heard = page.heard /\ page'.found = page.found
        /\ page'.rotated = (page.rotated \/ (call.op = "request" /\ call.pc = "answered"))
    BY <1>1, <1>3, <1>4 DEF LearnerPages
  <1>6. lost' \in Nat /\ lost' # 0 /\ synced' \in BOOLEAN
    BY <1>1, <1>3
  <1> QED BY ZenonT(40), <1>1, <1>2, <1>5, <1>6
          DEF PageInv, PageTypes, CallFits, PreferencesFit, ActiveIsShown, ReceiptFits,
              ReceiptsAnswer, PageIsTold, AnswersAreFresh, ShowsValue, ShowsRequests, Trusted,
              Quiet, Newest, CancelFits

LEMMA FailKeeps == ASSUME Account!AccountConstants, PageInv, Account!Fail PROVE PageInv'
  <1>1. /\ call.pc = "failed" /\ call' = Account!Idle
        /\ UNCHANGED <<panel, server, elsewhere, lost, synced>>
    BY DEF Account!Fail
  <1>2. page \in LearnerPages /\ call.before \in Contents
    BY DEF PageInv, PageTypes, Calls
  <1>3. CASE call.op = "write" /\ panel = "data"
    <2>1. page' = [page EXCEPT !.shown = call.before]
      BY <1>3 DEF Account!Fail
    <2>2. /\ page' \in LearnerPages /\ page'.list = page.list /\ page'.shown = call.before
          /\ page'.receipt = page.receipt /\ page'.saved = page.saved
          /\ page'.mode = page.mode /\ page'.heard = page.heard
          /\ page'.found = page.found /\ page'.rotated = page.rotated
      BY <1>2, <2>1 DEF LearnerPages
    <2> QED BY <1>1, <1>3, <2>2, CallRecords
            DEF PageInv, PageTypes, CallFits, PreferencesFit, ActiveIsShown, ReceiptFits,
                ReceiptsAnswer, PageIsTold, AnswersAreFresh, ShowsValue, ShowsRequests, Trusted,
                Quiet, Newest, CancelFits
  <1>4. CASE call.op = "load" /\ panel = "preferences" /\ page.heard
    <2>1. page' = [page EXCEPT !.mode = "offline"]
      BY <1>4 DEF Account!Fail
    <2>2. /\ page' \in LearnerPages /\ page'.list = page.list /\ page'.shown = page.shown
          /\ page'.receipt = page.receipt /\ page'.saved = page.saved
          /\ page'.mode = "offline" /\ page'.heard = page.heard
          /\ page'.found = page.found /\ page'.rotated = page.rotated
      BY <1>2, <2>1 DEF LearnerPages
    <2> QED BY <1>1, <1>4, <2>2, CallRecords
            DEF PageInv, PageTypes, CallFits, PreferencesFit, ActiveIsShown, ReceiptFits,
                ReceiptsAnswer, PageIsTold, AnswersAreFresh, ShowsValue, ShowsRequests, Trusted,
                Quiet, Newest, CancelFits
  <1>5. CASE call.op = "lookup"
    <2>1. page' = [page EXCEPT !.found = "unverified"]
      BY <1>5 DEF Account!Fail
    <2>2. /\ page' \in LearnerPages /\ page'.list = page.list /\ page'.shown = page.shown
          /\ page'.receipt = page.receipt /\ page'.saved = page.saved
          /\ page'.mode = page.mode /\ page'.heard = page.heard
          /\ page'.found = "unverified" /\ page'.rotated = page.rotated
      BY <1>2, <2>1 DEF LearnerPages, Contents
    <2> QED BY <1>1, <1>5, <2>2, CallRecords
            DEF PageInv, PageTypes, CallFits, PreferencesFit, ActiveIsShown, ReceiptFits,
                ReceiptsAnswer, PageIsTold, AnswersAreFresh, ShowsValue, ShowsRequests, Trusted,
                Quiet, Newest, CancelFits
  <1>6. CASE /\ ~(call.op = "write" /\ panel = "data")
             /\ ~(call.op = "load" /\ panel = "preferences" /\ page.heard)
             /\ call.op # "lookup"
    <2>1. page' = page
      BY <1>6 DEF Account!Fail
    <2> QED BY <1>1, <1>6, <2>1, CallRecords
            DEF PageInv, PageTypes, CallFits, PreferencesFit, ActiveIsShown, ReceiptFits,
                ReceiptsAnswer, PageIsTold, AnswersAreFresh, ShowsValue, ShowsRequests, Trusted,
                Quiet, Newest, CancelFits
  <1> QED BY <1>3, <1>4, <1>5, <1>6

LEMMA AccountChangesKeeps == ASSUME PageInv, Account!AccountChanges PROVE PageInv'
  <1>1. /\ panel = "preferences" /\ call.pc = "idle" /\ elsewhere' = elsewhere + 1
        /\ synced' = FALSE /\ UNCHANGED <<panel, server, lost>>
    BY DEF Account!AccountChanges
  <1>2. PICK st \in {"approved", "suspended"} :
           /\ page' = [page EXCEPT !.state = st, !.heard = TRUE,
                                   !.mode = IF Account!Hosted(st) THEN "loading" ELSE "browser"]
           /\ call' = IF Account!Hosted(st) THEN Account!Load ELSE Account!Idle
    BY DEF Account!AccountChanges
  <1>3. /\ page' \in LearnerPages /\ page'.list = page.list
        /\ page'.receipt = page.receipt /\ page'.saved = page.saved
        /\ page'.mode = (IF Account!Hosted(st) THEN "loading" ELSE "browser")
        /\ page'.heard = TRUE /\ page'.found = page.found /\ page'.rotated = page.rotated
    BY <1>2 DEF LearnerPages, PageInv, PageTypes
  <1>4. elsewhere' \in Nat /\ elsewhere' # 0
    BY <1>1 DEF PageInv, PageTypes
  <1>5. CASE Account!Hosted(st)
    <2>1. page'.mode = "loading" /\ call' = Account!Load
      BY <1>2, <1>3, <1>5
    <2> QED BY <1>1, <1>3, <1>4, <2>1, CallRecords
            DEF PageInv, PageTypes, CallFits, PreferencesFit, ActiveIsShown, ReceiptFits,
                ReceiptsAnswer, PageIsTold, AnswersAreFresh, ShowsValue, ShowsRequests, Trusted,
                Quiet, Newest, CancelFits
  <1>6. CASE ~Account!Hosted(st)
    <2>1. page'.mode = "browser" /\ call' = Account!Idle
      BY <1>2, <1>3, <1>6
    <2> QED BY <1>1, <1>3, <1>4, <2>1, CallRecords
            DEF PageInv, PageTypes, CallFits, PreferencesFit, ActiveIsShown, ReceiptFits,
                ReceiptsAnswer, PageIsTold, AnswersAreFresh, ShowsValue, ShowsRequests, Trusted,
                Quiet, Newest, CancelFits
  <1> QED BY <1>5, <1>6

\* The account's steps, of this tab and of others.
LEMMA ServeLoadKeeps ==
    ASSUME PageInv, Account!Serve, call.op \in {"load", "export"}
    PROVE  PageInv'
  <1>1. UNCHANGED <<panel, server, page, elsewhere, lost, synced>>
    BY DEF Account!Serve
  <1>2. server \in Servers /\ server.value \in Contents /\ server.requests \in Requests
        /\ call \in Calls
    BY DEF PageInv, PageTypes, Servers
  <1>3. CASE call.op = "load" /\ call.pc = "sent" /\ panel = "data"
    <2>1. call' = [call EXCEPT !.pc = "half", !.value = server.value]
      BY <1>3 DEF Account!Serve
    <2>2. /\ call' \in Calls /\ call'.op = "load" /\ call'.pc = "half"
          /\ call'.value = server.value /\ call'.stale = call.stale
      BY <1>2, <1>3, <2>1 DEF Calls
    <2> QED BY <1>1, <1>3, <2>2
            DEF PageInv, PageTypes, CallFits, PreferencesFit, ActiveIsShown, ReceiptFits,
                ReceiptsAnswer, PageIsTold, AnswersAreFresh, ShowsValue, ShowsRequests, Trusted,
                Quiet, Newest, CancelFits
  <1>4. CASE call.op = "load" /\ call.pc = "half"
    <2>1. call' = [call EXCEPT !.pc = "answered", !.requests = server.requests]
      BY <1>4 DEF Account!Serve
    <2>2. /\ call' \in Calls /\ call'.op = "load" /\ call'.pc = "answered"
          /\ call'.value = call.value /\ call'.stale = call.stale
          /\ call'.requests = server.requests
      BY <1>2, <1>4, <2>1 DEF Calls
    <2> QED BY <1>1, <1>4, <2>2
            DEF PageInv, PageTypes, CallFits, PreferencesFit, ActiveIsShown, ReceiptFits,
                ReceiptsAnswer, PageIsTold, AnswersAreFresh, ShowsValue, ShowsRequests, Trusted,
                Quiet, Newest, CancelFits
  <1>5. CASE ~(call.op = "load" /\ call.pc = "sent" /\ panel = "data")
             /\ ~(call.op = "load" /\ call.pc = "half")
    <2>1. call.pc = "sent" /\ call' = Account!Served(call, server)
      BY <1>5 DEF Account!Serve
    <2>2. /\ call' \in Calls /\ call'.op = call.op /\ call'.pc = "answered"
          /\ call'.value = server.value /\ call'.stale = call.stale
          /\ call'.requests = server.requests
      BY <1>2, <2>1 DEF Calls, Account!Served
    <2> QED BY <1>1, <2>1, <2>2
            DEF PageInv, PageTypes, CallFits, PreferencesFit, ActiveIsShown, ReceiptFits,
                ReceiptsAnswer, PageIsTold, AnswersAreFresh, ShowsValue, ShowsRequests, Trusted,
                Quiet, Newest, CancelFits
  <1> QED BY <1>3, <1>4, <1>5

LEMMA ServeWriteKeeps ==
    ASSUME PageInv, Account!Serve, call.op \in {"write", "unlink"}
    PROVE  PageInv'
  <1>1. /\ call.pc = "sent" /\ UNCHANGED <<panel, page, elsewhere, lost, synced>>
        /\ server' = [server EXCEPT !.value = call.arg]
        /\ call' = Account!Served(call, server')
    BY DEF Account!Serve, PageInv, CallFits
  <1>2. server \in Servers /\ call \in Calls
    BY DEF PageInv, PageTypes
  <1>3. /\ server' \in Servers /\ server'.value = call.arg
        /\ server'.requests = server.requests /\ server'.token = server.token
    BY <1>1, <1>2 DEF Servers, Calls
  <1>4. server'.value \in Contents /\ server'.requests \in Requests
    BY <1>3 DEF Servers
  <1>5. /\ call' \in Calls /\ call'.op = call.op /\ call'.pc = "answered"
        /\ call'.value = server'.value
    BY <1>1, <1>2, <1>4 DEF Calls, Account!Served
  <1>6. \A receipt : Answers(server', receipt) <=> Answers(server, receipt)
    BY <1>3 DEF Answers, Account!Matching
  <1> QED BY <1>1, <1>3, <1>5, <1>6
          DEF PageInv, PageTypes, CallFits, PreferencesFit, ActiveIsShown, ReceiptFits,
              ReceiptsAnswer, PageIsTold, AnswersAreFresh, ShowsValue, ShowsRequests, Trusted,
              Quiet, Newest, CancelFits

LEMMA ServeLookupKeeps ==
    ASSUME PageInv, Account!Serve, call.op = "lookup"
    PROVE  PageInv'
  <1>1. /\ call.pc = "sent" /\ UNCHANGED <<panel, server, page, elsewhere, lost, synced>>
        /\ call' = [call EXCEPT !.pc = "answered", !.value = Account!Status(server, call.arg)]
    BY DEF Account!Serve
  <1>2. server \in Servers /\ call \in Calls
    BY DEF PageInv, PageTypes
  <1>3. Answers(server, call.arg) => Account!Status(server, call.arg) # "unknown"
    BY <1>2, StatusIsKnown DEF RequestStates
  <1>4. Account!Status(server, call.arg) \in Contents
    BY <1>2, StatusIsKnown DEF Answers, Account!Status, Contents
  <1>5. /\ call' \in Calls /\ call'.op = "lookup" /\ call'.pc = "answered"
        /\ call'.value = Account!Status(server, call.arg)
    BY <1>1, <1>2, <1>4 DEF Calls
  <1> QED BY <1>1, <1>3, <1>5
          DEF PageInv, PageTypes, CallFits, PreferencesFit, ActiveIsShown, ReceiptFits,
              ReceiptsAnswer, PageIsTold, AnswersAreFresh, ShowsValue, ShowsRequests, Trusted,
              Quiet, Newest, CancelFits

LEMMA ServeRequestKeeps ==
    ASSUME Account!AccountConstants, PageInv, Account!Serve, call.op = "request"
    PROVE  PageInv'
  <1> DEFINE n == Account!Requested(server)
             r == [id |-> Head(n.requests).id, token |-> n.token]
  <1>1. /\ call.pc = "sent" /\ UNCHANGED <<panel, page, elsewhere, lost, synced>>
        /\ server' = n
        /\ call' = [Account!Served(call, server') EXCEPT
                      !.receipt = [id |-> Head(server'.requests).id, token |-> server'.token]]
    BY DEF Account!Serve
  <1>2. server \in Servers /\ call \in Calls /\ panel = "data"
    BY DEF PageInv, PageTypes, CallFits
  <1>3. /\ n \in Servers /\ n.value = server.value /\ n.token = server.token + 1
        /\ Account!Active(n.requests) /\ n.requests[1].token = n.token
        /\ ~Account!Active(server.requests) =>
              /\ \A receipt : Answers(server, receipt) => Answers(n, receipt)
              /\ Account!Told(n.requests)
                    = Account!Prepended(Account!Told(server.requests), Head(n.requests))
    BY <1>2, RequestedFits
  <1> HIDE DEF n
  <1>4. /\ n.requests \in Requests /\ n.token \in Nat /\ n.value \in Contents
        /\ n.requests # <<>> /\ Len(n.requests) \in Nat \ {0}
        /\ Head(n.requests) = n.requests[1]
        /\ n.requests[1] \in [id : Nat, state : RequestStates, token : Nat]
    <2>1. n.requests \in Requests /\ n.token \in Nat /\ n.value \in Contents
      BY <1>3 DEF Servers
    <2>2. n.requests # <<>>
      BY <1>3 DEF Account!Active
    <2> QED BY <2>1, <2>2, FirstIsHead DEF Requests
  <1>5. r \in Receipts /\ r.token = n.token /\ r.id = n.requests[1].id
    BY <1>4 DEF Receipts
  <1>6. Answers(n, r)
    <2>1. 1 \in 1..Len(n.requests)
      BY <1>4
    <2> HIDE DEF r
    <2> QED BY <1>3, <1>5, <2>1, AnswersWhere
  <1> HIDE DEF r
  <1>7. call' = [Account!Served(call, n) EXCEPT !.receipt = r]
    BY <1>1 DEF r
  <1>8. /\ call' \in Calls /\ call'.op = "request" /\ call'.pc = "answered"
        /\ call'.requests = n.requests /\ call'.receipt = r
    BY <1>2, <1>4, <1>5, <1>7 DEF Calls, Account!Served
  <1>9. ~Account!Active(page.list)
    BY <1>1 DEF PageInv, ActiveIsShown
  <1>10. Trusted => ~Account!Active(server.requests)
    BY <1>1, <1>9 DEF PageInv, ActiveIsShown
  <1>11. synced => ShowsValue /\ ShowsRequests
    BY <1>1 DEF PageInv, PageIsTold
  <1>12. synced => ~Account!Active(server.requests)
    BY <1>2, <1>9, <1>11, ToldLines DEF ShowsRequests, Servers
  <1>13. PageTypes' /\ CallFits' /\ PreferencesFit' /\ AnswersAreFresh' /\ CancelFits'
    BY <1>1, <1>2, <1>3, <1>8
       DEF PageInv, PageTypes, CallFits, PreferencesFit, AnswersAreFresh, CancelFits
  <1>14. ActiveIsShown' /\ ReceiptFits'
    BY <1>1, <1>3, <1>4, <1>5, <1>6, <1>8 DEF ActiveIsShown, ReceiptFits
  <1>15. ReceiptsAnswer'
    BY <1>1, <1>3, <1>8, <1>10 DEF PageInv, ReceiptsAnswer, Trusted, Quiet, Newest
  <1>16. PageIsTold'
    BY <1>1, <1>2, <1>3, <1>8, <1>11, <1>12 DEF PageInv, PageIsTold, ShowsValue, ShowsRequests
  <1> QED BY <1>13, <1>14, <1>15, <1>16 DEF PageInv

LEMMA ServeCancelKeeps ==
    ASSUME PageInv, Account!Serve, call.op = "cancel"
    PROVE  PageInv'
  <1> DEFINE n == Account!Cancelled(server)
  <1>1. /\ call.pc = "sent" /\ UNCHANGED <<panel, page, elsewhere, lost, synced>>
        /\ Account!Cancellable(server)
        /\ server' = n
        /\ call' = Account!Served(call, server')
    BY DEF Account!Serve
  <1>2. server \in Servers /\ call \in Calls /\ panel = "data"
    BY DEF PageInv, PageTypes, CallFits
  <1>3. Len(server.requests) # 0
    BY <1>1, <1>2, FirstIsHead DEF Account!Cancellable, Servers, Requests
  <1>4. n = [server EXCEPT !.requests[1].state = "cancelled"]
    BY DEF Account!Cancelled
  <1> HIDE DEF n
  <1>5. /\ n \in Servers /\ n.value = server.value /\ n.token = server.token
        /\ ~Account!Active(n.requests)
        /\ \A receipt : Answers(server, receipt) => Answers(n, receipt)
        /\ Account!Told(n.requests)
              = Account!Replaced(Account!Told(server.requests), Head(n.requests))
    <2>1. "cancelled" \in RequestStates
      BY DEF RequestStates
    <2> QED BY <1>2, <1>3, <1>4, <2>1, StateChangeFits
  <1>6. n.requests \in Requests /\ n.value \in Contents /\ n.requests # <<>>
    <2>1. n.requests \in Requests /\ n.value \in Contents
      BY <1>5 DEF Servers
    <2>2. n.requests = [server.requests EXCEPT ![1].state = "cancelled"]
      BY <1>2, <1>4 DEF Servers
    <2>3. DOMAIN server.requests = 1..Len(server.requests) /\ Len(server.requests) \in Nat
      BY <1>2, LenProperties DEF Servers, Requests
    <2>4. 1 \in DOMAIN n.requests
      BY <1>3, <2>2, <2>3
    <2>5. n.requests = <<>> => Len(n.requests) = 0 /\ DOMAIN n.requests = 1..0
      OBVIOUS
    <2> QED BY <2>1, <2>4, <2>5
  <1>7. /\ call' \in Calls /\ call'.op = "cancel" /\ call'.pc = "answered"
        /\ call'.requests = n.requests
    BY <1>1, <1>2, <1>6 DEF Calls, Account!Served
  <1>8. synced => ShowsValue /\ ShowsRequests
    BY <1>1 DEF PageInv, PageIsTold
  <1>9. PageTypes' /\ CallFits' /\ PreferencesFit' /\ AnswersAreFresh' /\ CancelFits'
    BY <1>1, <1>2, <1>5, <1>6, <1>7
       DEF PageInv, PageTypes, CallFits, PreferencesFit, AnswersAreFresh, CancelFits
  <1>10. ActiveIsShown' /\ ReceiptFits'
    BY <1>1, <1>5, <1>7 DEF ActiveIsShown, ReceiptFits
  <1>11. ReceiptsAnswer'
    BY <1>1, <1>5, <1>7 DEF PageInv, ReceiptsAnswer, Quiet, Newest
  <1>12. PageIsTold'
    BY <1>1, <1>2, <1>5, <1>7, <1>8 DEF PageInv, PageIsTold, ShowsValue, ShowsRequests
  <1> QED BY <1>9, <1>10, <1>11, <1>12 DEF PageInv

LEMMA ServeKeeps ==
    ASSUME Account!AccountConstants, PageInv, Account!Serve
    PROVE  PageInv'
  <1>1. call.op \in {"load", "export", "write", "unlink", "lookup", "request", "cancel"}
    BY DEF Account!Serve
  <1> QED BY <1>1, ServeLoadKeeps, ServeWriteKeeps, ServeLookupKeeps, ServeRequestKeeps,
             ServeCancelKeeps

\* Whoever else changes the account: the call is marked stale, the page does not know.
LEMMA ElsewhereKeeps ==
    ASSUME PageInv, Account!Elsewhere
    PROVE  PageInv'
  <1> DEFINE stale == call.stale \/ call.pc \in {"half", "answered"}
             rotated == page.rotated \/ server'.token # server.token
  <1>1. /\ elsewhere' = elsewhere + 1 /\ synced' = FALSE /\ UNCHANGED <<panel, lost>>
        /\ call' = [call EXCEPT !.stale = stale]
        /\ page' = [page EXCEPT !.rotated = rotated]
    BY DEF Account!Elsewhere
  <1>2. /\ server \in Servers /\ call \in Calls /\ page \in LearnerPages
        /\ elsewhere \in Nat
    BY DEF PageInv, PageTypes
  <1>3. stale \in BOOLEAN /\ rotated \in BOOLEAN
    BY Zenon
  <1>4. stale <=> (call.stale \/ call.pc \in {"half", "answered"})
    OBVIOUS
  <1>5. rotated <=> (page.rotated \/ server'.token # server.token)
    OBVIOUS
  <1> HIDE DEF stale, rotated
  <1>6. /\ call' \in Calls /\ call'.op = call.op /\ call'.pc = call.pc
        /\ call'.arg = call.arg /\ call'.before = call.before /\ call'.value = call.value
        /\ call'.requests = call.requests /\ call'.receipt = call.receipt
        /\ call'.stale = stale
    BY <1>1, <1>2, <1>3 DEF Calls
  <1>7. /\ page' \in LearnerPages /\ page'.list = page.list /\ page'.shown = page.shown
        /\ page'.receipt = page.receipt /\ page'.saved = page.saved
        /\ page'.mode = page.mode /\ page'.heard = page.heard
        /\ page'.found = page.found /\ page'.rotated = rotated
    BY <1>1, <1>2, <1>3 DEF LearnerPages
  <1>8. elsewhere' \in Nat /\ elsewhere' # 0
    BY <1>1, <1>2
  <1>9. server' \in Servers /\ server.token \in Nat /\ server'.token \in Nat
        /\ \/ server'.token = server.token + 1
           \/ /\ server'.token = server.token
              /\ Account!Active(server'.requests) => Account!Active(server.requests)
              /\ \A receipt : Answers(server, receipt) => Answers(server', receipt)
    <2>1. server.token \in Nat /\ server.requests \in Requests /\ server.value \in Contents
      BY <1>2 DEF Servers
    <2>2. CASE \E v \in PanelValues : server' = [server EXCEPT !.value = v]
      <3>1. PICK v \in PanelValues : server' = [server EXCEPT !.value = v]
        BY <2>2
      <3>2. /\ server' \in Servers /\ server'.token = server.token
            /\ server'.requests = server.requests
        BY <1>2, <3>1 DEF Servers, Contents
      <3>3. \A receipt : Answers(server, receipt) => Answers(server', receipt)
        BY <3>2 DEF Answers, Account!Matching
      <3> QED BY <2>1, <3>2, <3>3
    <2>3. CASE server' = Account!Requested(server)
      BY <1>2, <2>1, <2>3, RequestedFits
    <2>4. CASE Account!Cancellable(server)
               /\ \E state \in {"cancelled", "processing"} :
                    server' = [server EXCEPT !.requests[1].state = state]
      <3>1. PICK state \in {"cancelled", "processing"} :
                server' = [server EXCEPT !.requests[1].state = state]
        BY <2>4
      <3>2. Len(server.requests) # 0 /\ server.requests[1].state = "requested"
        BY <2>1, <2>4, FirstIsHead DEF Account!Cancellable, Requests
      <3>3. Account!Active(server.requests)
        BY <2>1, <3>2, ActiveIsFirst DEF Requests
      <3>4. state \in RequestStates
        BY DEF RequestStates
      <3>5. /\ server' \in Servers /\ server'.token = server.token
            /\ \A receipt : Answers(server, receipt) => Answers(server', receipt)
        BY <1>2, <3>1, <3>2, <3>4, StateChangeFits
      <3> QED BY <2>1, <3>3, <3>5
    <2> QED BY <2>2, <2>3, <2>4 DEF Account!Elsewhere, Account!Cancelled
  <1>10. PageTypes' /\ CallFits' /\ PreferencesFit' /\ PageIsTold' /\ CancelFits'
    BY <1>1, <1>6, <1>7, <1>8, <1>9
       DEF PageInv, PageTypes, CallFits, PreferencesFit, PageIsTold, CancelFits
  <1>11. AnswersAreFresh'
    BY <1>1, <1>4, <1>6, <1>7 DEF PageInv, AnswersAreFresh
  <1>12. ~Quiet'
    BY <1>8 DEF Quiet
  <1>13. Trusted' => Trusted /\ server'.token = server.token
    BY <1>5, <1>7, <1>12 DEF Trusted, Newest
  <1>14. ActiveIsShown'
    BY <1>6, <1>7, <1>9, <1>13 DEF PageInv, ActiveIsShown
  <1>15. ReceiptFits'
    <2>1. CASE server'.token = server.token
      BY <1>6, <1>9, <1>12, <2>1 DEF PageInv, ReceiptFits
    <2>2. CASE server'.token = server.token + 1
      <3>1. ASSUME call.op = "request" /\ call.pc = "answered"
            PROVE  /\ call.receipt \in Receipts
                   /\ call.receipt.token <= server'.token
                   /\ call.receipt.token # server'.token
        <4>1. call.receipt \in Receipts /\ call.receipt.token <= server.token
          BY <3>1 DEF PageInv, ReceiptFits
        <4>2. call.receipt.token \in Nat
          BY <4>1 DEF Receipts
        <4> QED BY <1>9, <2>2, <4>1, <4>2
      <3> QED BY <1>6, <1>12, <3>1 DEF ReceiptFits
    <2> QED BY <1>9, <2>1, <2>2
  <1>16. ReceiptsAnswer'
    BY <1>5, <1>7, <1>9, <1>12 DEF PageInv, ReceiptsAnswer, Newest
  <1> QED BY <1>10, <1>11, <1>14, <1>15, <1>16 DEF PageInv

\* What comes to the page.
LEMMA AnswerKeeps ==
    ASSUME Account!AccountConstants, PageInv, Account!Answer
    PROVE  PageInv'
  <1>1. call.pc = "answered" /\ UNCHANGED <<panel, server, elsewhere, lost>>
    BY DEF Account!Answer
  <1>2. /\ call \in Calls /\ page \in LearnerPages /\ server \in Servers
        /\ call.requests \in Requests /\ call.value \in Contents
        /\ server.requests \in Requests
    BY DEF PageInv, PageTypes, Calls, Servers
  <1>3. CASE call.op = "load"
    <2>1. ~(panel = "preferences" /\ ~page.heard)
      BY <1>3 DEF PageInv, PreferencesFit
    <2>2. page' = [page EXCEPT !.shown = call.value, !.list = Account!Told(call.requests),
                              !.mode = "ready"]
      BY <1>3, <2>1 DEF Account!Answer, Account!Loaded
    <2>3. /\ Account!Told(call.requests) \in Lines
          /\ Account!Active(Account!Told(call.requests)) <=> Account!Active(call.requests)
      BY <1>2, ToldLines
    <2>4. /\ page' \in LearnerPages /\ page'.list = Account!Told(call.requests)
          /\ page'.shown = call.value
          /\ page'.receipt = page.receipt /\ page'.saved = page.saved
          /\ page'.mode = "ready" /\ page'.heard = page.heard
          /\ page'.found = page.found /\ page'.rotated = page.rotated
      BY <1>2, <2>2, <2>3 DEF LearnerPages
    <2>5. call' = Account!Idle
      BY <1>3 DEF Account!Answer
    <2>6. synced' = (~call.stale /\ page'.mode = "ready")
      BY <1>3 DEF Account!Answer
    <2>7. synced' \in BOOLEAN /\ (synced' => ~call.stale)
      BY <1>2, <2>6 DEF Calls
    <2> QED BY <1>1, <1>3, <2>3, <2>4, <2>5, <2>7, CallRecords
            DEF PageInv, PageTypes, CallFits, PreferencesFit, ActiveIsShown, ReceiptFits,
                ReceiptsAnswer, PageIsTold, AnswersAreFresh, ShowsValue, ShowsRequests, Trusted,
                Quiet, Newest, CancelFits
  <1>4. CASE call.op = "write" /\ panel # "data"
    <2>1. page' = [page EXCEPT !.shown = call.value]
      BY <1>4 DEF Account!Answer
    <2>2. /\ page' \in LearnerPages /\ page'.list = page.list /\ page'.shown = call.value
          /\ page'.receipt = page.receipt /\ page'.saved = page.saved
          /\ page'.mode = page.mode /\ page'.heard = page.heard
          /\ page'.found = page.found /\ page'.rotated = page.rotated
      BY <1>2, <2>1 DEF LearnerPages
    <2>3. call' = Account!Idle
      BY <1>4 DEF Account!Answer
    <2>4. synced' = (~call.stale /\ page'.mode = "ready")
      BY <1>4 DEF Account!Answer
    <2>5. synced' \in BOOLEAN /\ (synced' => ~call.stale /\ page'.mode = "ready")
      BY <1>2, <2>4 DEF Calls
    <2> QED BY <1>1, <1>4, <2>2, <2>3, <2>5, CallRecords
            DEF PageInv, PageTypes, CallFits, PreferencesFit, ActiveIsShown, ReceiptFits,
                ReceiptsAnswer, PageIsTold, AnswersAreFresh, ShowsValue, ShowsRequests, Trusted,
                Quiet, Newest, CancelFits
  <1>5. CASE (call.op = "write" /\ panel = "data") \/ call.op = "export"
    <2>1. page' = page /\ call' = Account!Idle /\ synced' = synced
      BY <1>5 DEF Account!Answer, PageInv, PageTypes
    <2> QED BY <1>1, <1>5, <2>1, CallRecords
            DEF PageInv, PageTypes, CallFits, PreferencesFit, ActiveIsShown, ReceiptFits,
                ReceiptsAnswer, PageIsTold, AnswersAreFresh, ShowsValue, ShowsRequests, Trusted,
                Quiet, Newest, CancelFits
  <1>6. CASE call.op = "unlink"
    <2>1. page' = page /\ call' = Account!Load /\ synced' = FALSE
      BY <1>6 DEF Account!Answer
    <2> QED BY <1>1, <1>6, <2>1, CallRecords
            DEF PageInv, PageTypes, CallFits, PreferencesFit, ActiveIsShown, ReceiptFits,
                ReceiptsAnswer, PageIsTold, AnswersAreFresh, ShowsValue, ShowsRequests, Trusted,
                Quiet, Newest, CancelFits
  <1>7. CASE call.op = "lookup"
    <2>1. /\ page' = [page EXCEPT !.found = call.value] /\ call' = Account!Idle
          /\ synced' = synced
      BY <1>7 DEF Account!Answer, PageInv, PageTypes
    <2>2. /\ page' \in LearnerPages /\ page'.list = page.list /\ page'.shown = page.shown
          /\ page'.receipt = page.receipt /\ page'.saved = page.saved
          /\ page'.mode = page.mode /\ page'.heard = page.heard
          /\ page'.found = call.value /\ page'.rotated = page.rotated
      BY <1>2, <2>1 DEF LearnerPages
    <2> QED BY <1>1, <1>7, <2>1, <2>2, CallRecords
            DEF PageInv, PageTypes, CallFits, PreferencesFit, ActiveIsShown, ReceiptFits,
                ReceiptsAnswer, PageIsTold, AnswersAreFresh, ShowsValue, ShowsRequests, Trusted,
                Quiet, Newest, CancelFits
  <1>8. CASE call.op = "cancel"
    <2> DEFINE list == Account!Replaced(page.list, Head(call.requests))
    <2>1. /\ page' = [page EXCEPT !.list = list] /\ call' = Account!Idle
          /\ synced' = synced
      BY <1>8 DEF Account!Answer, PageInv, PageTypes
    <2>2. list \in Lines
      BY <1>1, <1>2, <1>8, ReplacedLines DEF PageInv, CancelFits, LearnerPages
    <2> HIDE DEF list
    <2>3. /\ page' \in LearnerPages /\ page'.list = list /\ page'.shown = page.shown
          /\ page'.receipt = page.receipt /\ page'.saved = page.saved
          /\ page'.mode = page.mode /\ page'.heard = page.heard
          /\ page'.found = page.found /\ page'.rotated = page.rotated
      BY <1>2, <2>1, <2>2 DEF LearnerPages
    <2> QED BY <1>1, <1>8, <2>1, <2>3, CallRecords
            DEF list, PageInv, PageTypes, CallFits, PreferencesFit, ActiveIsShown, ReceiptFits,
                ReceiptsAnswer, PageIsTold, AnswersAreFresh, ShowsValue, ShowsRequests, Trusted,
                Quiet, Newest, CancelFits
  <1>9. CASE call.op = "request"
    <2> DEFINE list == Account!Prepended(page.list, Head(call.requests))
               rotated == call.receipt.token # server.token
    <2>1. /\ page' = [page EXCEPT !.list = list, !.receipt = call.receipt, !.rotated = rotated]
          /\ call' = Account!Idle /\ synced' = synced
      BY <1>9 DEF Account!Answer, PageInv, PageTypes
    <2>2. Account!Active(call.requests) /\ call.receipt \in Receipts
      BY <1>1, <1>9 DEF PageInv, ActiveIsShown, ReceiptFits
    <2>3. list \in Lines /\ Account!Active(list)
      BY <1>2, <2>2, PrependedLines DEF LearnerPages
    <2>4. rotated \in BOOLEAN /\ (rotated <=> call.receipt.token # server.token)
      BY Zenon
    <2> HIDE DEF list, rotated
    <2>5. /\ page' \in LearnerPages /\ page'.list = list /\ page'.shown = page.shown
          /\ page'.receipt = call.receipt /\ page'.saved = page.saved
          /\ page'.mode = page.mode /\ page'.heard = page.heard
          /\ page'.found = page.found /\ page'.rotated = rotated
      BY <1>2, <2>1, <2>2, <2>3, <2>4 DEF LearnerPages
    <2>6. call.receipt # None
      BY <2>2 DEF Account!AccountConstants, Receipts
    <2>7. PageTypes' /\ CallFits' /\ PreferencesFit' /\ AnswersAreFresh' /\ ReceiptFits'
          /\ CancelFits'
      BY <1>1, <1>9, <2>1, <2>5, CallRecords
         DEF PageInv, PageTypes, CallFits, PreferencesFit, AnswersAreFresh, ReceiptFits, CancelFits
    <2>8. ActiveIsShown'
      BY <2>1, <2>3, <2>5, CallRecords DEF ActiveIsShown
    <2>9. ReceiptsAnswer'
      BY <1>1, <1>9, <2>1, <2>4, <2>5, <2>6, CallRecords
         DEF PageInv, ReceiptsAnswer, ReceiptFits, Newest, Quiet
    <2>10. PageIsTold'
      BY <1>1, <1>9, <2>1, <2>5, CallRecords
         DEF list, PageInv, CallFits, PageIsTold, ShowsValue, ShowsRequests
    <2> QED BY <2>7, <2>8, <2>9, <2>10 DEF PageInv
  <1>10. call.op # "none"
    BY <1>1 DEF PageInv, CallFits
  <1> QED BY <1>2, <1>3, <1>4, <1>5, <1>6, <1>7, <1>8, <1>9, <1>10 DEF Calls

LEMMA PageInvInit == Account!AccountConstants /\ Account!PageInit => PageInv
  <1> SUFFICES ASSUME Account!AccountConstants, Account!PageInit PROVE PageInv
    OBVIOUS
  <1>1. <<>> \in Requests /\ <<>> \in Lines /\ Len(<<>>) = 0
    BY EmptySeq DEF Requests, Lines
  <1>2. ~Account!Active(<<>>)
    BY DEF Account!Active
  <1>3. /\ panel \in {"data", "profile", "preferences", "identities"}
        /\ server \in [value : PanelValues, requests : {<<>>}, token : {0}]
        /\ page = [state |-> "approved", shown |-> None, list |-> <<>>, receipt |-> None,
                   saved |-> None, mode |-> "loading", heard |-> TRUE, found |-> None,
                   rotated |-> FALSE]
        /\ call = Account!Load /\ elsewhere = 0 /\ lost = 0 /\ synced = FALSE
    BY DEF Account!PageInit
  <1> HIDE DEF Requests, Lines
  <1>4. server \in Servers
    BY <1>1, <1>3 DEF Servers, Contents
  <1>5. /\ page \in LearnerPages /\ page.list = <<>> /\ page.receipt = None
        /\ page.saved = None /\ page.mode = "loading" /\ page.heard = TRUE
        /\ page.found = None /\ page.rotated = FALSE
    BY <1>1, <1>3 DEF LearnerPages, Contents
  <1>6. server.requests = <<>> /\ None # "unknown"
    BY <1>3 DEF Account!AccountConstants
  <1> QED BY <1>2, <1>3, <1>4, <1>5, <1>6, CallRecords
          DEF PageInv, PageTypes, CallFits, PreferencesFit, ActiveIsShown, ReceiptFits,
              ReceiptsAnswer, PageIsTold, AnswersAreFresh, ShowsValue, ShowsRequests, Trusted,
              Quiet, Newest, CancelFits

LEMMA PageInvNext ==
    ASSUME Account!AccountConstants, PageInv, [Account!PageNext]_Account!pageVars
    PROVE  PageInv'
  <1>1. CASE UNCHANGED Account!pageVars
    BY <1>1 DEF Account!pageVars, PageInv, PageTypes, CallFits, PreferencesFit, ActiveIsShown,
                ReceiptFits, ReceiptsAnswer, PageIsTold, AnswersAreFresh, ShowsValue,
                ShowsRequests, Trusted, Quiet, Newest, CancelFits
  <1>2. CASE Account!PageNext
    BY <1>2, RefreshKeeps, ToggleConsentKeeps, SaveKeeps, SaveInSessionKeeps, UnlinkKeeps,
       RequestDeletionKeeps, CancelDeletionKeeps, SaveReceiptKeeps, ExportDataKeeps, LookupKeeps,
       ServeKeeps, RefusedKeeps, LoseKeepsPage, AnswerKeeps, FailKeeps, ElsewhereKeeps,
       AccountChangesKeeps DEF Account!PageNext
  <1> QED BY <1>1, <1>2

LEMMA PagePromises ==
    ASSUME PageInv
    PROVE  /\ Account!PanelIsCurrent /\ Account!ReceiptIsLive
           /\ Account!LookupIsHonest /\ Account!LoadingEnds
  <1>1. Account!PanelIsCurrent
    BY DEF PageInv, CallFits, PageIsTold, ShowsValue, ShowsRequests, Account!PanelIsCurrent
  <1>2. Account!ReceiptIsLive
    <2>1. server \in Servers
      BY DEF PageInv, PageTypes
    <2>2. Newest(page) # None /\ ~page.rotated =>
            Account!Status(server, Newest(page)) \in RequestStates
      BY <2>1, StatusIsKnown DEF PageInv, ReceiptsAnswer
    <2> QED BY <2>2 DEF Account!ReceiptIsLive, Newest, RequestStates
  <1>3. Account!LookupIsHonest
    BY DEF PageInv, PageTypes, ReceiptsAnswer, Quiet, Account!LookupIsHonest
  <1>4. Account!LoadingEnds
    BY DEF PageInv, PreferencesFit, Account!LoadingEnds
  <1> QED BY <1>1, <1>2, <1>3, <1>4

\* An idle panel of the learner's page shows what the account holds unless another tab or a
\* lost answer came between; a deletion receipt answers until a later request replaces it, and
\* a tab that hears all its answers disowns none; the preferences do not stay in "Loading":
\* for any number of calls, refusals and losses (the editors of AccountDashboard and
\* DeletionStatusLookup, with the account API).
THEOREM LearnerPanelsAreCurrent == PagesSpec => []PanelsAreCurrent
  <1> DEFINE Inv == machine = "account" => PageInv
  <1>1. PagesInit => Inv
    BY PagesConstants, PageInvInit DEF PagesInit
  <1>2. Inv /\ [PagesNext]_<<machine, registers>> => Inv'
    <2> SUFFICES ASSUME Inv, [PagesNext]_<<machine, registers>>, machine' = "account"
                 PROVE  PageInv'
      OBVIOUS
    <2>1. machine = "account" /\ PageInv
      BY DEF PagesNext
    <2>2. [Account!PageNext]_Account!pageVars
      BY <2>1 DEF PagesNext, registers, Account!pageVars
    <2> QED BY <2>1, <2>2, PagesConstants, PageInvNext
  <1>3. Inv => PanelsAreCurrent
    BY PagePromises DEF PanelsAreCurrent
  <1> QED BY <1>1, <1>2, <1>3, PTL DEF PagesSpec

-----------------------------------------------------------------------------
(***************************************************************************)
(* The installation of the portal (PortalMaterialise): what the registers  *)
(* hold, and the inductive invariant.                                      *)
(***************************************************************************)

ships == r1
release == r2
files == r3
tracked == r4
ignored == r5
git == r6
bundle == r7
run == r8
finished == r9
stops == r10
edits == r11

USE DEF ships, release, files, tracked, ignored, git, bundle, run, finished, stops, edits

Steps == {"none", "prune", "remove", "copy", "catalogue", "appearance", "repository", "platform",
          "index"}

Runs == [step : Steps, force : BOOLEAN, planned : SUBSET Paths, tracked : SUBSET Paths,
         remove : SUBSET Paths, copy : SUBSET Paths]

Bundles == [folder : BOOLEAN, shipped : BOOLEAN,
            installed : {"none", "adopter", "repository", "platform"},
            claim : {"none", "tracked", "locked"}]

PortalTypes ==
    /\ ships \in SUBSET (Paths \ Generated) /\ release \in 1..MaxRelease
    /\ files \in [Paths -> Portal!Mine..MaxRelease]
    /\ tracked \in SUBSET Paths /\ git \in BOOLEAN
    /\ bundle \in Bundles /\ run \in Runs
    /\ finished \in 0..release /\ edits \in Nat

\* A run works on what the release ships and on what git said when it began; both stay as
\* they are until it ends.  What it removes nobody has claimed.
RunFits ==
    /\ run.step = "none" <=> run = Portal!NoRun
    /\ run.step # "none" =>
          /\ finished = 0
          /\ run.planned = ships \ Exceptions /\ run.tracked = Portal!trackedFiles
          /\ run.force \/ run.planned \cap Portal!trackedFiles = {}
    /\ run.copy \subseteq run.planned /\ run.remove \cap run.planned = {}
    /\ \A p \in run.remove : git /\ p \notin tracked /\ p \in ignored /\ p \notin Portal!Protected
    /\ run.step = "repository" => bundle.folder
    /\ run.step = "platform" => bundle.installed = "none"
    /\ run.step = "index" => bundle.installed # "none"

\* Nothing is left that only an earlier release shipped, except what is still to remove.
Pruned(left) ==
    git => \A p \in Paths \ (ships \cup Portal!Protected) :
              files[p] > 0 => p \in tracked \/ p \notin ignored \/ p \in left

Written(paths) == \A p \in paths : files[p] = release

RunProgress ==
    /\ run.step = "remove" => run.copy = run.planned /\ Pruned(run.remove)
    /\ run.step = "copy" => Pruned({}) /\ Written(run.planned \ run.copy)
    /\ run.step \in {"catalogue", "appearance", "repository", "platform", "index"} =>
          Pruned({}) /\ Written(run.planned)
    /\ run.step \in {"appearance", "repository", "platform", "index"} =>
          Written(Generated \ {ThemeIndex})
    /\ finished = release /\ edits = 0 =>
          /\ Written((ships \ Exceptions) \cup Generated) /\ Pruned({})
          /\ bundle.installed # "none"

PortalInv == PortalTypes /\ RunFits /\ RunProgress

LEMMA PortalInvInit == Portal!PortalConstants /\ Portal!PortalInit => PortalInv
  <1> SUFFICES ASSUME Portal!PortalConstants, Portal!PortalInit PROVE PortalInv
    OBVIOUS
  <1>1. release = 1 /\ run = Portal!NoRun /\ finished = 0 /\ edits = 0
    BY DEF Portal!PortalInit
  <1>2. files \in [Paths -> Portal!Mine..MaxRelease]
    BY DEF Portal!PortalInit, Portal!PortalConstants, Portal!Mine
  <1>3. Portal!NoRun \in Runs /\ Portal!NoRun.step = "none" /\ Portal!NoRun.copy = {}
        /\ Portal!NoRun.remove = {}
    BY DEF Portal!NoRun, Runs, Steps
  <1>4. /\ ships \in SUBSET (Paths \ Generated) /\ tracked \in SUBSET Paths /\ git \in BOOLEAN
        /\ bundle \in Bundles
    BY DEF Portal!PortalInit, Bundles
  <1>5. PortalTypes
    BY <1>1, <1>2, <1>3, <1>4 DEF PortalTypes, Portal!PortalConstants
  <1> QED BY <1>1, <1>3, <1>5 DEF PortalInv, RunFits, RunProgress

LEMMA MaterialiseKeeps ==
    ASSUME PortalInv, NEW force \in BOOLEAN, Portal!materialise(force)
    PROVE  PortalInv'
  <1>1. UNCHANGED <<ships, release, files, tracked, ignored, git, bundle, edits>>
        /\ run = Portal!NoRun
    BY DEF Portal!materialise, Portal!repository
  <1>2. CASE UNCHANGED <<run, finished>>
    BY <1>1, <1>2 DEF PortalInv, PortalTypes, RunFits, RunProgress, Pruned, Written,
                      Portal!trackedFiles
  <1>3. CASE /\ force \/ (ships \ Exceptions) \cap Portal!trackedFiles = {}
             /\ run' = [Portal!NoRun EXCEPT !.step = "prune", !.force = force,
                          !.planned = ships \ Exceptions, !.tracked = Portal!trackedFiles]
             /\ finished' = 0
    <2>1. Portal!trackedFiles \in SUBSET Paths
      BY DEF PortalInv, PortalTypes, Portal!trackedFiles
    <2>2. /\ run' \in Runs /\ run'.step = "prune" /\ run'.force = force
          /\ run'.planned = ships \ Exceptions /\ run'.tracked = Portal!trackedFiles
          /\ run'.remove = {} /\ run'.copy = {}
      BY <1>3, <2>1 DEF Runs, Steps, Portal!NoRun, PortalInv, PortalTypes
    <2>3. Portal!NoRun.step = "none"
      BY DEF Portal!NoRun
    <2>4. Portal!trackedFiles' = Portal!trackedFiles
      BY <1>1 DEF Portal!trackedFiles
    <2>5. PortalTypes'
      BY <1>1, <1>3, <2>2 DEF PortalInv, PortalTypes
    <2>6. RunFits'
      BY <1>1, <1>3, <2>2, <2>3, <2>4 DEF PortalInv, RunFits
    <2>7. RunProgress'
      BY <1>1, <1>3, <2>2, <2>5 DEF RunProgress, PortalTypes
    <2> QED BY <2>5, <2>6, <2>7 DEF PortalInv
  <1> QED BY <1>2, <1>3 DEF Portal!materialise

LEMMA PruneKeeps ==
    ASSUME PortalInv, Portal!prune
    PROVE  PortalInv'
  <1> DEFINE candidates == {p \in Paths : files[p] # 0} \ (run.planned \cup Portal!Protected)
             gone == IF git THEN {p \in candidates : ~Portal!Claimed(p)} ELSE {}
  <1>1. /\ UNCHANGED <<ships, release, files, tracked, ignored, git, bundle, edits, finished>>
        /\ run.step = "prune"
        /\ run' = [run EXCEPT !.step = "remove", !.copy = run.planned, !.remove = gone]
    BY DEF Portal!prune, Portal!repository
  <1>2. run \in Runs /\ gone \in SUBSET Paths
    BY DEF PortalInv, PortalTypes
  <1>3. \A p \in gone : git /\ p \notin tracked /\ p \in ignored /\ p \notin Portal!Protected
                        /\ p \notin run.planned
    BY <1>1 DEF PortalInv, RunFits, Portal!Claimed, Portal!trackedFiles
  <1>4. Pruned(gone)
    BY <1>1 DEF Pruned, PortalInv, PortalTypes, RunFits, Portal!Claimed, Portal!trackedFiles
  <1> HIDE DEF candidates, gone
  <1>5. /\ run' \in Runs /\ run'.step = "remove" /\ run'.force = run.force
        /\ run'.planned = run.planned /\ run'.tracked = run.tracked
        /\ run'.remove = gone /\ run'.copy = run.planned
    BY <1>1, <1>2 DEF Runs, Steps
  <1>6. Portal!NoRun.step = "none" /\ Portal!trackedFiles' = Portal!trackedFiles
        /\ (Pruned(gone) => Pruned(run.remove)')
    BY <1>1, <1>5 DEF Portal!NoRun, Portal!trackedFiles, Pruned
  <1>7. PortalTypes'
    BY <1>1, <1>5 DEF PortalInv, PortalTypes
  <1>8. RunFits'
    BY <1>1, <1>3, <1>5, <1>6 DEF PortalInv, RunFits
  <1>9. RunProgress'
    BY <1>1, <1>4, <1>5, <1>6, <1>7 DEF PortalInv, RunProgress, RunFits, PortalTypes
  <1> QED BY <1>7, <1>8, <1>9 DEF PortalInv

LEMMA RemoveFileKeeps ==
    ASSUME Portal!PortalConstants, PortalInv, Portal!removeFile
    PROVE  PortalInv'
  <1>1. /\ UNCHANGED <<ships, release, tracked, ignored, git, bundle, edits, finished>>
        /\ run.step = "remove"
    BY DEF Portal!removeFile, Portal!repository
  <1>2. /\ run \in Runs /\ files \in [Paths -> Portal!Mine..MaxRelease]
        /\ 0 \in Portal!Mine..MaxRelease
    BY DEF PortalInv, PortalTypes, Portal!PortalConstants, Portal!Mine
  <1>3. Portal!NoRun.step = "none" /\ Portal!trackedFiles' = Portal!trackedFiles
    BY <1>1 DEF Portal!NoRun, Portal!trackedFiles
  <1>4. CASE \E p \in run.remove : /\ files' = [files EXCEPT ![p] = 0]
                                   /\ run' = [run EXCEPT !.remove = @ \ {p}]
    <2>1. PICK p \in run.remove : /\ files' = [files EXCEPT ![p] = 0]
                                  /\ run' = [run EXCEPT !.remove = @ \ {p}]
      BY <1>4
    <2>2. /\ run' \in Runs /\ run'.step = "remove" /\ run'.force = run.force
          /\ run'.planned = run.planned /\ run'.tracked = run.tracked
          /\ run'.remove = run.remove \ {p} /\ run'.copy = run.copy
      BY <1>1, <1>2, <2>1 DEF Runs
    <2>3. files' \in [Paths -> Portal!Mine..MaxRelease]
      BY <1>2, <2>1
    <2>4. PortalTypes'
      BY <1>1, <2>2, <2>3 DEF PortalInv, PortalTypes
    <2>5. RunFits'
      BY <1>1, <1>3, <2>2 DEF PortalInv, RunFits
    <2>6. Pruned(run.remove)'
      BY <1>1, <1>2, <2>1, <2>2 DEF PortalInv, RunProgress, Pruned, Portal!Mine
    <2>7. RunProgress'
      BY <1>1, <2>2, <2>4, <2>6 DEF PortalInv, RunProgress, RunFits, PortalTypes
    <2> QED BY <2>4, <2>5, <2>7 DEF PortalInv
  <1>5. CASE run.remove = {} /\ files' = files /\ run' = [run EXCEPT !.step = "copy"]
    <2>1. /\ run' \in Runs /\ run'.step = "copy" /\ run'.force = run.force
          /\ run'.planned = run.planned /\ run'.tracked = run.tracked
          /\ run'.remove = {} /\ run'.copy = run.planned
      BY <1>1, <1>2, <1>5 DEF Runs, Steps, PortalInv, RunProgress
    <2>2. PortalTypes'
      BY <1>1, <1>5, <2>1 DEF PortalInv, PortalTypes
    <2>3. RunFits'
      BY <1>1, <1>3, <1>5, <2>1 DEF PortalInv, RunFits
    <2>4. Pruned({})'
      BY <1>1, <1>5 DEF PortalInv, RunProgress, Pruned
    <2>5. RunProgress'
      BY <1>1, <2>1, <2>2, <2>4 DEF PortalInv, RunProgress, RunFits, PortalTypes, Written
    <2> QED BY <2>2, <2>3, <2>5 DEF PortalInv
  <1> QED BY <1>4, <1>5 DEF Portal!removeFile

LEMMA CopyFileKeeps ==
    ASSUME Portal!PortalConstants, PortalInv, Portal!copyFile
    PROVE  PortalInv'
  <1>1. /\ UNCHANGED <<ships, release, tracked, ignored, git, bundle, edits, finished>>
        /\ run.step = "copy"
    BY DEF Portal!copyFile, Portal!repository
  <1>2. /\ run \in Runs /\ files \in [Paths -> Portal!Mine..MaxRelease]
        /\ release \in Portal!Mine..MaxRelease
    BY DEF PortalInv, PortalTypes, Portal!PortalConstants, Portal!Mine
  <1>3. Portal!NoRun.step = "none" /\ Portal!trackedFiles' = Portal!trackedFiles
    BY <1>1 DEF Portal!NoRun, Portal!trackedFiles
  <1>4. CASE \E p \in run.copy : files' = Portal!Copied(p) /\ run' = [run EXCEPT !.copy = @ \ {p}]
    <2>1. PICK p \in run.copy : /\ files' = [files EXCEPT ![p] = release]
                                /\ run' = [run EXCEPT !.copy = @ \ {p}]
      BY <1>4 DEF Portal!Copied
    <2>2. /\ run' \in Runs /\ run'.step = "copy" /\ run'.force = run.force
          /\ run'.planned = run.planned /\ run'.tracked = run.tracked
          /\ run'.remove = run.remove /\ run'.copy = run.copy \ {p}
      BY <1>1, <1>2, <2>1 DEF Runs
    <2>3. files' \in [Paths -> Portal!Mine..MaxRelease]
      BY <1>2, <2>1
    <2>4. PortalTypes'
      BY <1>1, <2>2, <2>3 DEF PortalInv, PortalTypes
    <2>5. RunFits'
      BY <1>1, <1>3, <2>2 DEF PortalInv, RunFits
    <2>6. p \in ships /\ p \in Paths
      BY <1>1, <1>2 DEF PortalInv, RunFits, Runs
    <2>7. Pruned({})' /\ Written(run.planned \ run.copy)'
      <3>1. Pruned({}) /\ Written(run.planned \ run.copy) /\ run.planned \in SUBSET Paths
        BY <1>1, <1>2 DEF PortalInv, RunProgress, Runs
      <3> QED BY <1>1, <1>2, <2>1, <2>2, <2>6, <3>1 DEF Pruned, Written
    <2>8. RunProgress'
      BY <1>1, <2>2, <2>4, <2>7 DEF PortalInv, RunProgress, RunFits, PortalTypes
    <2> QED BY <2>4, <2>5, <2>8 DEF PortalInv
  <1>5. CASE run.copy = {} /\ files' = files /\ run' = [run EXCEPT !.step = "catalogue"]
    <2>1. /\ run' \in Runs /\ run'.step = "catalogue" /\ run'.force = run.force
          /\ run'.planned = run.planned /\ run'.tracked = run.tracked
          /\ run'.remove = run.remove /\ run'.copy = run.copy
      BY <1>1, <1>2, <1>5 DEF Runs, Steps
    <2>2. PortalTypes'
      BY <1>1, <1>5, <2>1 DEF PortalInv, PortalTypes
    <2>3. RunFits'
      BY <1>1, <1>3, <1>5, <2>1 DEF PortalInv, RunFits
    <2>4. Pruned({})' /\ Written(run.planned)'
      BY <1>1, <1>5, <2>1 DEF PortalInv, RunProgress, Pruned, Written
    <2>5. RunProgress'
      BY <1>1, <2>1, <2>2, <2>4 DEF PortalInv, RunProgress, RunFits, PortalTypes
    <2> QED BY <2>2, <2>3, <2>5 DEF PortalInv
  <1> QED BY <1>4, <1>5 DEF Portal!copyFile

\* A run that ends early leaves everything as it is.
LEMMA EarlyEndKeeps ==
    ASSUME PortalInv, run.step # "none", run' = Portal!NoRun,
           UNCHANGED <<ships, release, files, tracked, ignored, git, bundle, edits, finished>>
    PROVE  PortalInv'
  <1>1. Portal!NoRun \in Runs /\ Portal!NoRun.step = "none" /\ Portal!NoRun.copy = {}
        /\ Portal!NoRun.remove = {}
    BY DEF Portal!NoRun, Runs, Steps
  <1>2. PortalTypes'
    BY <1>1 DEF PortalInv, PortalTypes
  <1> QED BY <1>1, <1>2 DEF PortalInv, PortalTypes, RunFits, RunProgress

LEMMA WriteSiteCatalogKeeps ==
    ASSUME Portal!PortalConstants, PortalInv, Portal!writeSiteCatalog
    PROVE  PortalInv'
  <1>1. /\ UNCHANGED <<ships, release, tracked, ignored, git, bundle, edits, finished>>
        /\ run.step = "catalogue"
    BY DEF Portal!writeSiteCatalog, Portal!repository
  <1>2. /\ run \in Runs /\ files \in [Paths -> Portal!Mine..MaxRelease]
        /\ release \in Portal!Mine..MaxRelease
    BY DEF PortalInv, PortalTypes, Portal!PortalConstants, Portal!Mine
  <1>3. Portal!NoRun.step = "none" /\ Portal!trackedFiles' = Portal!trackedFiles
    BY <1>1 DEF Portal!NoRun, Portal!trackedFiles
  <1>4. CASE /\ files' = [p \in Paths |->
                          IF p \in Generated \ {ThemeIndex} THEN release ELSE files[p]]
             /\ run' = [run EXCEPT !.step = "appearance"]
    <2>1. /\ run' \in Runs /\ run'.step = "appearance" /\ run'.force = run.force
          /\ run'.planned = run.planned /\ run'.tracked = run.tracked
          /\ run'.remove = run.remove /\ run'.copy = run.copy
      BY <1>1, <1>2, <1>4 DEF Runs, Steps
    <2>2. files' \in [Paths -> Portal!Mine..MaxRelease]
      BY <1>2, <1>4
    <2>3. PortalTypes'
      BY <1>1, <2>1, <2>2 DEF PortalInv, PortalTypes
    <2>4. RunFits'
      BY <1>1, <1>3, <2>1 DEF PortalInv, RunFits
    <2>5. /\ run.planned \in SUBSET Paths /\ run.planned \cap Generated = {}
          /\ Pruned({}) /\ Written(run.planned)
      BY <1>1, <1>2 DEF PortalInv, PortalTypes, RunFits, RunProgress, Runs
    <2>6. Pruned({})'
      BY <1>1, <1>4, <2>5 DEF Pruned, Portal!Protected
    <2>7. Written(run.planned)' /\ Written(Generated \ {ThemeIndex})'
      BY <1>1, <1>4, <2>1, <2>5 DEF Written, Portal!PortalConstants
    <2>8. RunProgress'
      BY <1>1, <2>1, <2>3, <2>6, <2>7 DEF PortalInv, RunProgress, RunFits, PortalTypes
    <2> QED BY <2>3, <2>4, <2>8 DEF PortalInv
  <1>5. CASE files' = files /\ run' = Portal!NoRun
    BY <1>1, <1>5, EarlyEndKeeps
  <1> QED BY <1>4, <1>5 DEF Portal!writeSiteCatalog

\* The steps of a run that concern the bundle only.
LEMMA BundleStepKeeps ==
    ASSUME PortalInv, NEW step \in {"repository", "platform", "index"},
           run.step \in {"appearance", "repository", "platform"},
           run' = [run EXCEPT !.step = step], bundle' \in Bundles,
           step = "repository" => bundle'.folder,
           step = "platform" => bundle'.installed = "none",
           step = "index" => bundle'.installed # "none",
           UNCHANGED <<ships, release, files, tracked, ignored, git, edits, finished>>
    PROVE  PortalInv'
  <1>1. run \in Runs
    BY DEF PortalInv, PortalTypes
  <1>2. /\ run' \in Runs /\ run'.step = step /\ run'.force = run.force
        /\ run'.planned = run.planned /\ run'.tracked = run.tracked
        /\ run'.remove = run.remove /\ run'.copy = run.copy
    BY <1>1 DEF Runs, Steps
  <1>3. Portal!NoRun.step = "none" /\ Portal!trackedFiles' = Portal!trackedFiles
    BY DEF Portal!NoRun, Portal!trackedFiles
  <1>4. PortalTypes'
    BY <1>2 DEF PortalInv, PortalTypes
  <1>5. RunFits'
    BY <1>2, <1>3 DEF PortalInv, RunFits
  <1>6. Pruned({})' /\ Written(run.planned)' /\ Written(Generated \ {ThemeIndex})'
    BY <1>2 DEF PortalInv, RunProgress, Pruned, Written
  <1>7. RunProgress'
    BY <1>2, <1>4, <1>6 DEF PortalInv, RunProgress, RunFits, PortalTypes
  <1> QED BY <1>4, <1>5, <1>7 DEF PortalInv

LEMMA ResolveBundleKeeps ==
    ASSUME PortalInv, Portal!resolveBundle
    PROVE  PortalInv'
  <1>1. /\ UNCHANGED <<ships, release, files, tracked, ignored, git, edits, finished>>
        /\ run.step = "appearance" /\ bundle \in Bundles
    BY DEF Portal!resolveBundle, Portal!repository, PortalInv, PortalTypes
  <1>2. CASE bundle.folder /\ Portal!copyBundle("repository")
    <2>1. bundle' \in Bundles /\ bundle'.folder
      BY <1>1, <1>2 DEF Bundles, Portal!copyBundle
    <2> QED BY <1>1, <1>2, <2>1, BundleStepKeeps DEF Portal!copyBundle
  <1>3. CASE /\ ~bundle.folder /\ Portal!Vendored(bundle)
             /\ run' = [run EXCEPT !.step = "index"] /\ bundle' = bundle
    BY <1>1, <1>3, BundleStepKeeps DEF Portal!Vendored
  <1>4. CASE Portal!copyBundle("platform")
    <2>1. bundle' \in Bundles /\ bundle'.installed = "none"
      BY <1>1, <1>4 DEF Bundles, Portal!copyBundle
    <2> QED BY <1>1, <1>4, <2>1, BundleStepKeeps DEF Portal!copyBundle
  <1>5. CASE run' = Portal!NoRun /\ bundle' = bundle
    BY <1>1, <1>5, EarlyEndKeeps
  <1> QED BY <1>2, <1>3, <1>4, <1>5 DEF Portal!resolveBundle

LEMMA WriteBundleKeeps ==
    ASSUME PortalInv, Portal!writeBundle
    PROVE  PortalInv'
  <1>1. /\ UNCHANGED <<ships, release, files, tracked, ignored, git, edits, finished>>
        /\ run.step \in {"repository", "platform"} /\ bundle \in Bundles
        /\ bundle' = [bundle EXCEPT !.installed = run.step]
        /\ run' = [run EXCEPT !.step = "index"]
    BY DEF Portal!writeBundle, Portal!repository, PortalInv, PortalTypes
  <1>2. bundle' \in Bundles /\ bundle'.installed # "none"
    BY <1>1 DEF Bundles
  <1> QED BY <1>1, <1>2, BundleStepKeeps

LEMMA WriteThemeIndexKeeps ==
    ASSUME Portal!PortalConstants, PortalInv, Portal!writeThemeIndex
    PROVE  PortalInv'
  <1>1. /\ UNCHANGED <<ships, release, tracked, ignored, git, bundle, edits>>
        /\ run.step = "index" /\ run' = Portal!NoRun /\ finished' = release
        /\ files' = [files EXCEPT ![ThemeIndex] = release]
    BY DEF Portal!writeThemeIndex, Portal!repository
  <1>2. /\ files \in [Paths -> Portal!Mine..MaxRelease] /\ release \in Portal!Mine..MaxRelease
        /\ release \in 0..release
    BY DEF PortalInv, PortalTypes, Portal!PortalConstants, Portal!Mine
  <1>3. Portal!NoRun \in Runs /\ Portal!NoRun.step = "none" /\ Portal!NoRun.copy = {}
        /\ Portal!NoRun.remove = {}
    BY DEF Portal!NoRun, Runs, Steps
  <1>4. /\ Pruned({}) /\ Written(ships \ Exceptions) /\ Written(Generated \ {ThemeIndex})
        /\ bundle.installed # "none" /\ ships \in SUBSET (Paths \ Generated)
    BY <1>1 DEF PortalInv, PortalTypes, RunFits, RunProgress
  <1>5. files' \in [Paths -> Portal!Mine..MaxRelease]
    BY <1>1, <1>2
  <1>6. PortalTypes'
    BY <1>1, <1>2, <1>3, <1>5 DEF PortalInv, PortalTypes
  <1>7. RunFits'
    BY <1>1, <1>3 DEF RunFits
  <1>8. Pruned({})'
    BY <1>1, <1>2, <1>4 DEF Pruned, Portal!Protected, Portal!PortalConstants
  <1>9. Written((ships \ Exceptions) \cup Generated)'
    BY <1>1, <1>2, <1>4 DEF Written, Portal!PortalConstants
  <1>10. RunProgress'
    BY <1>1, <1>3, <1>4, <1>8, <1>9 DEF RunProgress
  <1> QED BY <1>6, <1>7, <1>10 DEF PortalInv

LEMMA StopKeeps ==
    ASSUME PortalInv, Portal!Stop
    PROVE  PortalInv'
  BY EarlyEndKeeps DEF Portal!Stop, PortalInv, RunFits

LEMMA UpgradeKeeps ==
    ASSUME Portal!PortalConstants, PortalInv, Portal!Upgrade
    PROVE  PortalInv'
  <1>1. /\ UNCHANGED <<files, tracked, ignored, git, bundle, run, finished, edits>>
        /\ run = Portal!NoRun /\ release < MaxRelease /\ release' = release + 1
    BY DEF Portal!Upgrade
  <1>2. ships' \in SUBSET (Paths \ Generated)
    BY DEF Portal!Upgrade, PortalInv, PortalTypes
  <1>3. /\ release \in 1..MaxRelease /\ finished \in 0..release /\ MaxRelease \in Nat
        /\ release' \in 1..MaxRelease /\ finished \in 0..release' /\ finished # release'
    BY <1>1 DEF PortalInv, PortalTypes, Portal!PortalConstants
  <1>4. Portal!NoRun.step = "none" /\ Portal!NoRun.copy = {} /\ Portal!NoRun.remove = {}
    BY DEF Portal!NoRun
  <1>5. PortalTypes'
    BY <1>1, <1>2, <1>3 DEF PortalInv, PortalTypes
  <1> QED BY <1>1, <1>3, <1>4, <1>5 DEF PortalInv, RunFits, RunProgress

LEMMA EditKeeps ==
    ASSUME Portal!PortalConstants, PortalInv, Portal!Edit
    PROVE  PortalInv'
  <1>1. /\ UNCHANGED <<ships, release, git, bundle, run, finished>>
        /\ run = Portal!NoRun /\ edits' = edits + 1
    BY DEF Portal!Edit
  <1>2. /\ files \in [Paths -> Portal!Mine..MaxRelease] /\ Portal!Mine \in Portal!Mine..MaxRelease
        /\ tracked \in SUBSET Paths /\ edits \in Nat
    BY DEF PortalInv, PortalTypes, Portal!PortalConstants, Portal!Mine
  <1>3. files' \in [Paths -> Portal!Mine..MaxRelease] /\ tracked' \in SUBSET Paths
    BY <1>2 DEF Portal!Edit
  <1>4. Portal!NoRun.step = "none" /\ Portal!NoRun.copy = {} /\ Portal!NoRun.remove = {}
        /\ edits' \in Nat /\ edits' # 0
    BY <1>1, <1>2 DEF Portal!NoRun
  <1>5. PortalTypes'
    BY <1>1, <1>3, <1>4 DEF PortalInv, PortalTypes
  <1> QED BY <1>1, <1>4, <1>5 DEF PortalInv, RunFits, RunProgress

LEMMA PortalInvNext ==
    ASSUME Portal!PortalConstants, PortalInv, [Portal!PortalNext]_Portal!portalVars
    PROVE  PortalInv'
  <1>1. CASE UNCHANGED Portal!portalVars
    BY <1>1 DEF Portal!portalVars, PortalInv, PortalTypes, RunFits, RunProgress, Pruned, Written,
                Portal!trackedFiles
  <1>2. CASE Portal!PortalNext
    BY <1>2, MaterialiseKeeps, PruneKeeps, RemoveFileKeeps, CopyFileKeeps, WriteSiteCatalogKeeps,
       ResolveBundleKeeps, WriteBundleKeeps, WriteThemeIndexKeeps, StopKeeps, UpgradeKeeps,
       EditKeeps DEF Portal!PortalNext
  <1> QED BY <1>1, <1>2

LEMMA PortalPromises ==
    ASSUME Portal!PortalConstants, PortalInv
    PROVE  Portal!PortalTypeOK /\ Portal!FinishedIsCurrent
  <1>1. Portal!PortalTypeOK
    BY DEF PortalInv, PortalTypes, RunFits, Portal!PortalTypeOK
  <1> QED BY <1>1 DEF PortalInv, RunProgress, Written, Pruned, Portal!FinishedIsCurrent

\* What a step may overwrite or remove.
LEMMA WorkSurvivesStep ==
    ASSUME Portal!PortalConstants, PortalInv, [Portal!PortalNext]_Portal!portalVars
    PROVE  Portal!AdoptersWorkSurvives
  <1>1. files \in [Paths -> Portal!Mine..MaxRelease] /\ bundle \in Bundles
    BY DEF PortalInv, PortalTypes
  <1>2. ASSUME NEW p \in Paths, files[p] = Portal!Mine, ~run.force, git, p \notin Generated,
               p \in tracked \/ p \in Exceptions \/ (p \notin ignored /\ p \notin ships)
        PROVE  files'[p] = Portal!Mine
    <2>1. CASE Portal!removeFile
      <3>1. p \notin run.remove
        BY <1>2 DEF PortalInv, RunFits, Portal!Protected
      <3> QED BY <1>1, <1>2, <2>1, <3>1 DEF Portal!removeFile
    <2>2. CASE Portal!copyFile
      <3>1. p \notin run.copy
        BY <1>2, <2>2 DEF PortalInv, RunFits, Portal!copyFile, Portal!trackedFiles
      <3> QED BY <1>1, <1>2, <2>2, <3>1 DEF Portal!copyFile, Portal!Copied
    <2>3. CASE Portal!writeSiteCatalog
      BY <1>1, <1>2, <2>3 DEF Portal!writeSiteCatalog
    <2>4. CASE Portal!writeThemeIndex
      BY <1>1, <1>2, <2>4 DEF Portal!writeThemeIndex, Portal!PortalConstants
    <2>5. CASE Portal!Edit
      BY <1>1, <1>2, <2>5 DEF Portal!Edit
    <2>6. CASE files' = files
      BY <1>2, <2>6
    <2> QED BY <2>1, <2>2, <2>3, <2>4, <2>5, <2>6
            DEF Portal!PortalNext, Portal!portalVars, Portal!materialise, Portal!prune,
                Portal!resolveBundle, Portal!writeBundle, Portal!Stop, Portal!Upgrade
  <1>3. ASSUME bundle.installed = "adopter", bundle.claim # "none", ~bundle.folder
        PROVE  bundle'.installed = "adopter"
    <2>1. ~Portal!writeBundle
      BY <1>3 DEF PortalInv, RunFits, Portal!writeBundle
    <2>2. CASE Portal!resolveBundle
      BY <1>3, <2>2 DEF Portal!resolveBundle, Portal!Vendored
    <2>3. CASE bundle' = bundle
      BY <1>3, <2>3
    <2> QED BY <2>1, <2>2, <2>3
            DEF Portal!PortalNext, Portal!portalVars, Portal!materialise, Portal!prune,
                Portal!removeFile, Portal!copyFile, Portal!writeSiteCatalog,
                Portal!writeThemeIndex, Portal!Stop, Portal!Upgrade, Portal!Edit
  <1> QED BY <1>2, <1>3 DEF Portal!AdoptersWorkSurvives

LEMMA PortalSteps ==
    ASSUME machine = "portal", PortalInv, [PagesNext]_<<machine, registers>>
    PROVE  [Portal!PortalNext]_Portal!portalVars
  BY DEF PagesNext, registers, Portal!portalVars

LEMMA PortalInvariant == PagesSpec => [](machine = "portal" => PortalInv)
  <1> DEFINE Inv == machine = "portal" => PortalInv
  <1>1. PagesInit => Inv
    BY PagesConstants, PortalInvInit DEF PagesInit
  <1>2. Inv /\ [PagesNext]_<<machine, registers>> => Inv'
    <2> SUFFICES ASSUME Inv, [PagesNext]_<<machine, registers>>, machine' = "portal"
                 PROVE  PortalInv'
      OBVIOUS
    <2>1. machine = "portal" /\ PortalInv
      BY DEF PagesNext
    <2> QED BY <2>1, PagesConstants, PortalSteps, PortalInvNext
  <1> QED BY <1>1, <1>2, PTL DEF PagesSpec

\* A run of `materialise' that ends well leaves what the release ships and generates, nothing
\* that only an earlier release shipped, and a bundle: for any number of paths, releases and
\* runs that were stopped at any file (bin/project42-portal.mjs).
THEOREM PortalEndsCurrent ==
    PagesSpec => [](machine = "portal" => Portal!PortalTypeOK /\ Portal!FinishedIsCurrent)
  <1>1. (machine = "portal" => PortalInv)
          => (machine = "portal" => Portal!PortalTypeOK /\ Portal!FinishedIsCurrent)
    BY PagesConstants, PortalPromises
  <1> QED BY <1>1, PortalInvariant, PTL

\* No step of any run without --force takes the adopter's own text where git tracks it, where
\* it is an exception, or where the release does not ship the path and nothing ignores it; nor
\* a bundle of the Gallery that no folder replaces (materialise, prune and resolveBundle).
THEOREM PortalSparesAdopters ==
    PagesSpec => [][machine = "portal" => Portal!AdoptersWorkSurvives]_<<machine, registers>>
  <1>1. (machine = "portal" => PortalInv) /\ [PagesNext]_<<machine, registers>>
          => [machine = "portal" => Portal!AdoptersWorkSurvives]_<<machine, registers>>
    BY PagesConstants, PortalSteps, WorkSurvivesStep
  <1> QED BY <1>1, PortalInvariant, PTL DEF PagesSpec

-----------------------------------------------------------------------------
(***************************************************************************)
(* The learner's record (ProgressSync): the inductive invariant.           *)
(*                                                                         *)
(* What is said of the tab is said of any tab: an action first builds the  *)
(* new one, with the effects that run after it, and then puts it in place. *)
(***************************************************************************)

cookie == r1
live == r2
acct == r3
device == r4
tab == r5
wire == r6
sends == r7
by == r10
dropped == r11

USE DEF cookie, live, acct, device, tab, wire, sends, by, dropped

Records == SUBSET Sync!Evidence

SyncTabs == [account : Pair \cup {Nobody}, auth : {"loading", "idle", "signing-out"},
             progress : Records, hydrated : BOOLEAN, status : Sync!Statuses,
             lastSynchronized : Records \cup {None}, syncEnabled : BOOLEAN,
             unsyncedBuffer : Records \cup {None}, pendingWrite : Records \cup {None},
             pendingReplacement : BOOLEAN, saveAttempt : Nat, readFailed : BOOLEAN,
             deviceRecordSeeded : BOOLEAN, hydrationDue : BOOLEAN,
             read : [pc : {"none", "sent", "read", "failed"}, who : Pair \cup {Nobody},
                     rec : Records],
             readRetry : BOOLEAN, debounce : BOOLEAN,
             save : [pc : {"none", "sent", "accepted", "refused", "failed"}, id : Nat,
                     rec : Records],
             saveRetry : BOOLEAN, made : Records]

Saves == [id : Nat, who : Pair \cup {Nobody}, rec : Records]

\* Evidence that exists, and evidence one account may hold.
Exists(rec) == \A e \in rec : by[e] # None
Owned(rec, who) == \A e \in rec : by[e] \in {who, Nobody}

\* The history of a learner is in a record, or was taken out by that learner.
HasOld(rec, l) == Sync!Old(l) \in rec \cup dropped[l]

\* The accounts, the device and the saves on their way.
StoreFits ==
    /\ cookie \in Pair \cup {Nobody} /\ live \subseteq Pair
    /\ acct \in [Pair -> Records] /\ dropped \in [Pair -> Records] /\ device \in Records
    /\ by \in [Sync!Evidence -> Pair \cup {Nobody, None}]
    /\ sends \in Nat /\ wire \subseteq Saves
    /\ \A l \in Pair : by[Sync!Old(l)] = l
    /\ \A l \in Pair : Owned(acct[l], l) /\ HasOld(acct[l], l)
    /\ \A m \in wire : m.id > 0 /\ m.id <= sends /\ Exists(m.rec)
    /\ \A m \in wire : m.who # Nobody => Owned(m.rec, m.who) /\ HasOld(m.rec, m.who)
    /\ \A m, n \in wire : m.id = n.id => m = n
    /\ Owned(device, Nobody)

\* A visitor's tab after its first hydration owes the account nothing.
Visits(t) ==
    /\ t.status = "local-only" /\ t.hydrated /\ ~t.syncEnabled /\ ~t.pendingReplacement
    /\ t.pendingWrite = None /\ t.unsyncedBuffer = None /\ t.lastSynchronized = None

\* What the tab shows, reads and may write.
TabFits(t) ==
    /\ ~Sync!Approved(t) => t.read = Sync!NoRead /\ ~t.readRetry
    /\ ~Sync!Approved(t) /\ ~t.hydrationDue => Visits(t)
    /\ Sync!Approved(t) => t.hydrated
    /\ t.auth = "loading" => ~Sync!Approved(t)
    /\ t.read.pc # "none" => t.deviceRecordSeeded /\ t.read.who \in {t.account, Nobody}
    /\ t.read.pc = "read" => t.read.who = t.account
    /\ ~t.deviceRecordSeeded => ~t.syncEnabled
    /\ ~t.syncEnabled => t.pendingWrite = None /\ t.lastSynchronized = None
    /\ Sync!Approved(t) /\ ~t.pendingReplacement /\ t.unsyncedBuffer # None =>
          t.unsyncedBuffer \subseteq t.progress

\* Whose evidence the tab holds.
OwnerFits(t) ==
    /\ Exists(t.progress) /\ Exists(t.read.rec) /\ Exists(t.made)
    /\ t.unsyncedBuffer # None => Exists(t.unsyncedBuffer)
    /\ t.lastSynchronized # None => Exists(t.lastSynchronized)
    /\ t.pendingWrite # None => Exists(t.pendingWrite)
    /\ Sync!Approved(t) =>
          /\ cookie \in {t.account, Nobody}
          /\ Owned(t.progress, t.account) /\ Owned(t.read.rec, t.account)
          /\ t.unsyncedBuffer # None => Owned(t.unsyncedBuffer, t.account)
    /\ ~Sync!Approved(t) /\ t.status = "local-only" => Owned(t.progress, Nobody)
    /\ cookie # Nobody /\ t.pendingWrite # None => Owned(t.pendingWrite, cookie)

\* A record that may replace the account's holds the history of its learner.
OldFits(t) ==
    /\ cookie # Nobody /\ t.pendingWrite # None => HasOld(t.pendingWrite, cookie)
    /\ Sync!Approved(t) /\ (t.syncEnabled \/ t.pendingReplacement) =>
          HasOld(t.progress, t.account)
    /\ t.read.pc = "read" => HasOld(t.read.rec, t.account)
    /\ ~t.deviceRecordSeeded => \A l \in Pair : Sync!Old(l) \notin t.progress

Untouched(e) ==
    /\ \A l \in Pair : e \notin acct[l]
    /\ \A m \in wire : m.who # Nobody => e \notin m.rec

\* Once a piece of evidence is on the account, every save on its way has it, and every
\* save that was sent after one that has it.
Kept(e, l) ==
    /\ e \in acct[l] => \A m \in wire : m.who = l => e \in m.rec
    /\ \A m, n \in wire :
          m.who = l /\ n.who = l /\ m.id < n.id /\ e \in m.rec => e \in n.rec

\* What was made in the tab: nothing of it was sent before the session is writable; after
\* that the account keeps what it has, and has what the tab takes for synchronized.
MadeFits(t) ==
    /\ ~Sync!Approved(t) \/ ~t.syncEnabled =>
          \A e \in t.made : Untouched(e) /\ (t.pendingWrite # None => e \notin t.pendingWrite)
    /\ Sync!Approved(t) /\ dropped[t.account] = {} =>
          /\ ~t.pendingReplacement
          /\ \A e \in t.made : Untouched(e) \/ (e \in t.progress /\ Kept(e, t.account))
          /\ \A e \in t.made :
                \/ t.lastSynchronized # None /\ e \in t.lastSynchronized
                \/ t.read.pc = "read" /\ e \in t.read.rec
                => e \in acct[t.account]

\* The debounce and the save in flight are about the record that is shown.
TimersFit(t) ==
    /\ ~Sync!Approved(t) \/ ~t.syncEnabled => ~t.debounce /\ t.save = Sync!NoSave
    /\ Sync!Approved(t) /\ t.pendingWrite # None => t.pendingWrite = t.progress
    /\ t.debounce => t.pendingWrite = t.progress
    /\ t.save.pc # "none" => t.save.rec = t.progress /\ ~t.debounce
    /\ t.save.pc = "none" => t.save = Sync!NoSave
    /\ t.save.id <= sends
    /\ \A m \in wire : t.save.pc # "none" /\ m.id = t.save.id =>
          m.rec = t.save.rec /\ m.who \in {t.account, Nobody}
    /\ Sync!Approved(t) /\ dropped[t.account] = {} /\ t.save.pc = "accepted" =>
          \A e \in t.made : e \in t.save.rec => e \in acct[t.account]

\* The status says what is under way.
StatusFits(t) ==
    Sync!Approved(t) =>
        /\ t.status = "local-only" => t.hydrationDue
        /\ t.status = "checking" => t.hydrationDue \/ t.read.pc # "none"
        /\ t.status \in {"synced", "syncing"} /\ ~t.pendingReplacement => t.syncEnabled

\* A tab that calls itself saved is, or is about to save.
SavesFit(t) ==
    Sync!Approved(t) /\ t.status \in {"synced", "syncing"} /\ ~t.pendingReplacement =>
        t.progress = t.lastSynchronized \/ t.debounce \/ t.save.pc # "none"

Holds(t) == TabFits(t) /\ OwnerFits(t) /\ OldFits(t) /\ MadeFits(t)
Fits(t) == t \in SyncTabs /\ Holds(t) /\ TimersFit(t) /\ StatusFits(t) /\ SavesFit(t)

SyncInv == StoreFits /\ Fits(tab)

-----------------------------------------------------------------------------
(* The effects of a state change *)

\* What the sync effect leaves alone.
SameShown(t, u) ==
    /\ u.account = t.account /\ u.progress = t.progress
    /\ u.hydrated = t.hydrated /\ u.status = t.status
    /\ u.lastSynchronized = t.lastSynchronized /\ u.syncEnabled = t.syncEnabled
    /\ u.pendingReplacement = t.pendingReplacement
    /\ u.deviceRecordSeeded = t.deviceRecordSeeded /\ u.hydrationDue = t.hydrationDue
    /\ u.read = t.read /\ u.readRetry = t.readRetry /\ u.made = t.made

\* Only the way the session is being asked for differs.
SameTab(t, u) ==
    /\ SameShown(t, u) /\ u.pendingWrite = t.pendingWrite
    /\ u.unsyncedBuffer = t.unsyncedBuffer /\ u.debounce = t.debounce /\ u.save = t.save

Writable(t) == t.hydrated /\ Sync!Approved(t) /\ t.syncEnabled

SyncsTo(t, u) ==
    /\ u \in SyncTabs /\ SameShown(t, u) /\ u.auth = t.auth /\ u.save = Sync!NoSave
    /\ u.debounce => Writable(t)
    /\ Writable(t) =>
          \/ u.pendingWrite = None /\ t.progress = t.lastSynchronized /\ ~u.debounce
          \/ u.pendingWrite = t.progress /\ u.debounce
    /\ ~Writable(t) => u.pendingWrite = t.pendingWrite
    /\ \/ u.unsyncedBuffer = t.unsyncedBuffer
       \/ u.unsyncedBuffer = t.progress /\ Sync!Approved(t)
    /\ t.hydrated /\ Sync!Approved(t) /\ ~t.syncEnabled /\ t.progress # {} =>
          u.unsyncedBuffer = t.progress

LEMMA SyncEffect ==
    ASSUME NEW t \in SyncTabs
    PROVE  SyncsTo(t, Sync!syncEffect(t))
  <1> DEFINE s == [t EXCEPT !.debounce = FALSE, !.save = Sync!NoSave]
             u == Sync!syncEffect(t)
  <1>1. Sync!NoSave \in [pc : {"none", "sent", "accepted", "refused", "failed"}, id : Nat,
                         rec : Records]
    BY DEF Sync!NoSave, Records
  <1>2. /\ s \in SyncTabs /\ SameShown(t, s) /\ s.auth = t.auth
        /\ s.save = Sync!NoSave /\ ~s.debounce
        /\ s.pendingWrite = t.pendingWrite /\ s.unsyncedBuffer = t.unsyncedBuffer
    BY <1>1 DEF SyncTabs, SameShown
  <1>3. /\ Sync!Approved(s) <=> Sync!Approved(t)
        /\ s.hydrated = t.hydrated /\ s.syncEnabled = t.syncEnabled
        /\ s.progress = t.progress /\ s.lastSynchronized = t.lastSynchronized
    BY <1>2 DEF SameShown, Sync!Approved
  <1>4. u = IF ~s.hydrated \/ ~Sync!Approved(s) THEN s
            ELSE IF ~s.syncEnabled
                 THEN IF Sync!hasLearningEvidence(s.progress)
                      THEN [s EXCEPT !.unsyncedBuffer = s.progress] ELSE s
            ELSE IF s.progress = s.lastSynchronized THEN [s EXCEPT !.pendingWrite = None]
            ELSE [s EXCEPT !.pendingWrite = s.progress, !.debounce = TRUE]
    BY DEF Sync!syncEffect
  <1> SUFFICES SyncsTo(t, u)
    OBVIOUS
  <1> HIDE DEF s, u
  <1>5. CASE ~Writable(t)
    <2>1. \/ /\ u = s
             /\ ~ (t.hydrated /\ Sync!Approved(t) /\ ~t.syncEnabled /\ t.progress # {})
          \/ u = [s EXCEPT !.unsyncedBuffer = s.progress] /\ Sync!Approved(t)
      BY <1>3, <1>4, <1>5 DEF Writable, Sync!hasLearningEvidence
    <2>2. /\ u \in SyncTabs /\ SameShown(s, u) /\ u.auth = s.auth /\ u.save = s.save /\ ~u.debounce
          /\ u.pendingWrite = s.pendingWrite
          /\ \/ /\ u.unsyncedBuffer = s.unsyncedBuffer
                /\ ~ (t.hydrated /\ Sync!Approved(t) /\ ~t.syncEnabled /\ t.progress # {})
             \/ u.unsyncedBuffer = s.progress /\ Sync!Approved(t)
      BY <1>2, <2>1 DEF SyncTabs, SameShown
    <2> QED BY <1>2, <1>3, <1>5, <2>2 DEF SyncsTo, SameShown
  <1>6. CASE Writable(t)
    <2>1. \/ u = [s EXCEPT !.pendingWrite = None] /\ t.progress = t.lastSynchronized
          \/ u = [s EXCEPT !.pendingWrite = s.progress, !.debounce = TRUE]
      BY <1>3, <1>4, <1>6 DEF Writable
    <2>2. CASE u = [s EXCEPT !.pendingWrite = None] /\ t.progress = t.lastSynchronized
      <3>1. /\ u \in SyncTabs /\ SameShown(s, u) /\ u.auth = s.auth
            /\ u.save = s.save /\ ~u.debounce
            /\ u.unsyncedBuffer = s.unsyncedBuffer /\ u.pendingWrite = None
        BY <1>2, <2>2 DEF SyncTabs, SameShown
      <3> QED BY <1>2, <1>6, <2>2, <3>1 DEF SyncsTo, SameShown, Writable
    <2>3. CASE u = [s EXCEPT !.pendingWrite = s.progress, !.debounce = TRUE]
      <3>1. /\ u \in SyncTabs /\ SameShown(s, u) /\ u.auth = s.auth /\ u.save = s.save /\ u.debounce
            /\ u.unsyncedBuffer = s.unsyncedBuffer /\ u.pendingWrite = s.progress
        BY <1>2, <2>3 DEF SyncTabs, SameShown
      <3> QED BY <1>2, <1>3, <1>6, <2>3, <3>1 DEF SyncsTo, SameShown, Writable
    <2> QED BY <2>1, <2>2, <2>3
  <1> QED BY <1>5, <1>6

\* The sync effect keeps what the tab holds, and arms the timers for it.
LEMMA CommitKeeps ==
    ASSUME Sync!SyncConstants, sends \in Nat, NEW t \in SyncTabs, NEW u, SyncsTo(t, u), Holds(t)
    PROVE  Holds(u) /\ TimersFit(u)
  <1> USE DEF SyncsTo, SameShown, Sync!Approved
  <1>0. u \in SyncTabs /\ Sync!NoSave.pc = "none" /\ Sync!NoSave.id = 0
    BY DEF Sync!NoSave
  <1>1. TabFits(u)
    <2>1. u.read.pc # "none" => u.deviceRecordSeeded /\ u.read.who \in {u.account, Nobody}
      BY DEF Holds, TabFits
    <2>2. ~Sync!Approved(u) /\ ~u.hydrationDue => Visits(u)
      BY <1>0 DEF Holds, TabFits, Visits, Writable, SyncTabs
    <2>3. Sync!Approved(u) /\ ~u.pendingReplacement /\ u.unsyncedBuffer # None =>
             u.unsyncedBuffer \subseteq u.progress
      BY DEF Holds, TabFits
    <2>4. ~u.syncEnabled => u.pendingWrite = None /\ u.lastSynchronized = None
      BY DEF Holds, TabFits, Writable
    <2> QED BY <2>1, <2>2, <2>3, <2>4 DEF Holds, TabFits
  <1>2. OwnerFits(u)
    BY <1>0 DEF Holds, TabFits, OwnerFits, Owned, Writable
  <1>3. OldFits(u)
    <2>1. HasOld(u.progress, u.account) \/ ~Sync!Approved(u)
          \/ ~ (u.syncEnabled \/ u.pendingReplacement)
      BY DEF Holds, OldFits
    <2>2. cookie # Nobody /\ u.pendingWrite # None => HasOld(u.pendingWrite, cookie)
      BY <2>1 DEF Holds, OldFits, OwnerFits, Writable
    <2> QED BY <2>1, <2>2 DEF Holds, OldFits
  <1>4. MadeFits(u)
    BY <1>0 DEF Holds, TabFits, MadeFits, Writable
  <1>5. TimersFit(u)
    BY <1>0 DEF Holds, TabFits, TimersFit, Writable
  <1> QED BY <1>1, <1>2, <1>3, <1>4, <1>5 DEF Holds

LEMMA CommitFits ==
    ASSUME Sync!SyncConstants, sends \in Nat, NEW t \in SyncTabs, NEW u, SyncsTo(t, u), Holds(t),
           StatusFits(t)
    PROVE  Fits(u)
  <1>1. Holds(u) /\ TimersFit(u)
    BY CommitKeeps
  <1>2. StatusFits(u)
    BY DEF SyncsTo, SameShown, StatusFits, Sync!Approved
  <1>3. SavesFit(u)
    BY DEF SyncsTo, SameShown, SavesFit, StatusFits, Holds, TabFits, Writable, Sync!Approved
  <1> QED BY <1>1, <1>2, <1>3 DEF Fits, SyncsTo

LEMMA CommitIsSafe ==
    Sync!SyncConstants /\ sends \in Nat =>
        \A t \in SyncTabs : Holds(t) /\ StatusFits(t) => Fits(Sync!syncEffect(t))
  BY SyncEffect, CommitFits

\* The same of the next state, for the actions that change what is said of the evidence.
LEMMA CommitFitsNext ==
    (Sync!SyncConstants /\ sends \in Nat =>
        \A t \in SyncTabs : Holds(t) /\ StatusFits(t) => Fits(Sync!syncEffect(t)))'
  BY CommitIsSafe, PTL

\* The status may be set before the effect or after it.
LEMMA CommitAndStatus ==
    ASSUME Sync!SyncConstants, sends \in Nat, NEW t \in SyncTabs, NEW s \in Sync!Statuses,
           Holds([t EXCEPT !.status = s]), StatusFits([t EXCEPT !.status = s])
    PROVE  /\ Sync!syncEffect(t) \in SyncTabs /\ Sync!syncEffect(t).account = t.account
           /\ Fits([Sync!syncEffect(t) EXCEPT !.status = s])
  <1> DEFINE u == Sync!syncEffect(t)
             v == [t EXCEPT !.status = s]
             w == [u EXCEPT !.status = s]
  <1>1. SyncsTo(t, u)
    BY SyncEffect
  <1> HIDE DEF u
  <1>2. /\ v \in SyncTabs /\ v.status = s /\ v.account = t.account /\ v.auth = t.auth
        /\ v.progress = t.progress
        /\ v.hydrated = t.hydrated /\ v.lastSynchronized = t.lastSynchronized
        /\ v.syncEnabled = t.syncEnabled /\ v.pendingReplacement = t.pendingReplacement
        /\ v.deviceRecordSeeded = t.deviceRecordSeeded /\ v.hydrationDue = t.hydrationDue
        /\ v.read = t.read /\ v.readRetry = t.readRetry /\ v.made = t.made
        /\ v.pendingWrite = t.pendingWrite /\ v.unsyncedBuffer = t.unsyncedBuffer
    BY DEF SyncTabs
  <1>3. /\ w \in SyncTabs /\ w.status = s /\ w.account = u.account /\ w.auth = u.auth
        /\ w.progress = u.progress
        /\ w.hydrated = u.hydrated /\ w.lastSynchronized = u.lastSynchronized
        /\ w.syncEnabled = u.syncEnabled /\ w.pendingReplacement = u.pendingReplacement
        /\ w.deviceRecordSeeded = u.deviceRecordSeeded /\ w.hydrationDue = u.hydrationDue
        /\ w.read = u.read /\ w.readRetry = u.readRetry /\ w.made = u.made
        /\ w.pendingWrite = u.pendingWrite /\ w.unsyncedBuffer = u.unsyncedBuffer
        /\ w.debounce = u.debounce /\ w.save = u.save
    BY <1>1 DEF SyncTabs, SyncsTo
  <1> HIDE DEF v, w
  <1>4. SyncsTo(v, w)
    BY <1>1, <1>2, <1>3 DEF SyncsTo, SameShown, Writable, Sync!Approved
  <1>5. Fits(w)
    BY <1>2, <1>4, CommitFits DEF v
  <1>6. u \in SyncTabs /\ u.account = t.account
    BY <1>1 DEF SyncsTo, SameShown
  <1> QED BY <1>5, <1>6 DEF u, w

\* The reconnect effect empties the buffer into the record.
LEMMA ReconnectFits ==
    ASSUME Sync!SyncConstants, StoreFits, NEW t, Fits(t), Sync!Approved(t)
    PROVE  Fits(Sync!reconnectEffect(t))
  <1> DEFINE plan == Sync!planUnsyncedProgressFlush(t)
  <1>1. CASE plan = "wait"
    BY <1>1 DEF Sync!reconnectEffect
  <1>2. CASE plan = "discard"
    <2> DEFINE u == [t EXCEPT !.unsyncedBuffer = None]
    <2>1. Sync!reconnectEffect(t) = u
      BY <1>2 DEF Sync!reconnectEffect
    <2>2. u \in SyncTabs /\ SameShown(t, u) /\ u.auth = t.auth /\ u.unsyncedBuffer = None
          /\ u.pendingWrite = t.pendingWrite /\ u.debounce = t.debounce /\ u.save = t.save
      BY DEF Fits, SyncTabs, SameShown
    <2> HIDE DEF u
    <2> USE DEF Fits, Holds, SameShown, Sync!Approved
    <2>3. TabFits(u)
      BY <2>2 DEF TabFits, Visits
    <2>4. OwnerFits(u) /\ OldFits(u) /\ MadeFits(u)
      BY <2>2 DEF OwnerFits, OldFits, MadeFits
    <2>5. TimersFit(u) /\ StatusFits(u) /\ SavesFit(u)
      BY <2>2 DEF TimersFit, StatusFits, SavesFit
    <2> QED BY <2>1, <2>2, <2>3, <2>4, <2>5
  <1>3. CASE plan \notin {"wait", "discard"}
    <2> DEFINE u == [t EXCEPT !.unsyncedBuffer = None,
                              !.progress = Sync!mergeLearnerProgress(t.progress, t.unsyncedBuffer)]
    <2>1. /\ t.status = "synced" /\ t.syncEnabled /\ t.unsyncedBuffer # None
          /\ ~t.pendingReplacement
      BY <1>3 DEF Sync!planUnsyncedProgressFlush
    <2>2. Sync!reconnectEffect(t) = Sync!syncEffect(u)
      BY <1>3 DEF Sync!reconnectEffect
    <2>3. Sync!mergeLearnerProgress(t.progress, t.unsyncedBuffer) = t.progress
      BY <2>1 DEF Fits, Holds, TabFits, Sync!mergeLearnerProgress
    <2>4. u \in SyncTabs /\ SameShown(t, u) /\ u.auth = t.auth /\ u.unsyncedBuffer = None
          /\ u.pendingWrite = t.pendingWrite
      BY <2>3 DEF Fits, SyncTabs, SameShown
    <2> HIDE DEF u
    <2> USE DEF Fits, Holds, SameShown, Sync!Approved
    <2>5. TabFits(u)
      BY <2>4 DEF TabFits, Visits
    <2>6. OwnerFits(u) /\ OldFits(u) /\ MadeFits(u)
      BY <2>4 DEF OwnerFits, OldFits, MadeFits
    <2>7. StatusFits(u)
      BY <2>4 DEF StatusFits
    <2>8. Fits(Sync!syncEffect(u))
      <3> HIDE DEF Fits
      <3> QED BY <2>4, <2>5, <2>6, <2>7, SyncEffect, CommitFits DEF StoreFits
    <2> HIDE DEF Fits
    <2> QED BY <2>2, <2>8
  <1> QED BY <1>1, <1>2, <1>3

LEMMA WithStatusFits ==
    ASSUME Sync!SyncConstants, StoreFits, NEW t \in SyncTabs, NEW s \in Sync!Statuses,
           Sync!Approved(t), Fits([t EXCEPT !.status = s])
    PROVE  Fits(Sync!WithStatus(t, s))
  <1> DEFINE u == [t EXCEPT !.status = s]
  <1>1. Sync!Approved(u)
    BY DEF SyncTabs, Sync!Approved
  <1>2. Fits(Sync!reconnectEffect(u))
    BY <1>1, ReconnectFits
  <1>3. CASE t.status = s
    <2>1. u = t
      BY <1>3 DEF SyncTabs
    <2> QED BY <1>3, <2>1 DEF Sync!WithStatus
  <1>4. CASE t.status # s
    BY <1>2, <1>4 DEF Sync!WithStatus
  <1> QED BY <1>3, <1>4

\* Without a session that may be written the reconnect effect does nothing.
LEMMA QuietStatus ==
    ASSUME NEW t \in SyncTabs, NEW s \in Sync!Statuses \ {"synced"}
    PROVE  Sync!WithStatus(t, s) = [t EXCEPT !.status = s]
  <1> DEFINE u == [t EXCEPT !.status = s]
  <1>1. u.status # "synced"
    BY DEF SyncTabs
  <1>2. Sync!reconnectEffect(u) = u
    BY <1>1 DEF Sync!reconnectEffect, Sync!planUnsyncedProgressFlush
  <1>3. t.status = s => u = t
    BY DEF SyncTabs
  <1> QED BY <1>2, <1>3 DEF Sync!WithStatus

\* A tab that fits is put in place.
LEMMA BecomesFits ==
    ASSUME StoreFits, NEW t, Fits(t), NEW stored \in Records, Owned(stored, Nobody),
           Sync!Becomes(t, stored), UNCHANGED <<cookie, live, acct, wire, sends, by, dropped>>
    PROVE  SyncInv'
  <1>1. tab' = t /\ device' = IF Sync!writesDevice(t) THEN t.progress ELSE stored
    BY DEF Sync!Becomes
  <1>2. device' \in Records /\ Owned(device', Nobody)
    BY <1>1 DEF Fits, SyncTabs, Holds, OwnerFits, Sync!writesDevice
  <1>3. StoreFits'
    BY <1>2 DEF StoreFits, Owned, HasOld, Exists
  <1>4. Fits(tab)'
    BY <1>1 DEF Fits, Holds, TabFits, OwnerFits, OldFits, MadeFits, TimersFit, StatusFits, SavesFit,
                Owned, HasOld, Exists, Untouched, Kept, Sync!Approved, Visits
  <1> QED BY <1>3, <1>4 DEF SyncInv

-----------------------------------------------------------------------------
(* The session *)

LEMMA SetAccountFits ==
    ASSUME Sync!SyncConstants, SyncInv, ~tab.hydrationDue, NEW who \in Pair \cup {Nobody},
           who = Nobody \/ who = cookie
    PROVE  Fits(Sync!SetAccount(tab, who))
  <1> DEFINE made == IF who = Nobody THEN {} ELSE tab.made
             s == [tab EXCEPT !.account = who, !.auth = "idle", !.hydrationDue = TRUE,
                              !.read = Sync!NoRead, !.readRetry = FALSE, !.made = made]
  <1>1. Sync!SetAccount(tab, who) = Sync!syncEffect(s)
    BY DEF Sync!SetAccount, Sync!Committed
  <1>2. /\ Sync!NoRead \in [pc : {"none", "sent", "read", "failed"}, who : Pair \cup {Nobody},
                            rec : Records]
        /\ Sync!NoRead.pc = "none" /\ Sync!NoRead.rec = {}
    BY DEF Sync!NoRead, Records
  <1>3. made \in Records /\ (made = {} \/ (made = tab.made /\ who # Nobody))
    BY DEF SyncInv, Fits, SyncTabs, Records
  <1> HIDE DEF made
  <1>4. /\ s \in SyncTabs /\ s.account = who /\ s.auth = "idle" /\ s.hydrationDue
        /\ s.read = Sync!NoRead /\ ~s.readRetry
        /\ s.made = {} \/ (s.made = tab.made /\ who # Nobody)
        /\ s.progress = tab.progress /\ s.hydrated = tab.hydrated /\ s.status = tab.status
        /\ s.lastSynchronized = tab.lastSynchronized /\ s.syncEnabled = tab.syncEnabled
        /\ s.pendingReplacement = tab.pendingReplacement
        /\ s.deviceRecordSeeded = tab.deviceRecordSeeded
        /\ s.pendingWrite = tab.pendingWrite /\ s.unsyncedBuffer = tab.unsyncedBuffer
    <2>1. s \in SyncTabs
      BY <1>2, <1>3 DEF SyncInv, Fits, SyncTabs
    <2>2. s.account = who /\ s.auth = "idle" /\ s.hydrationDue
      BY <1>2, <1>3 DEF SyncInv, Fits, SyncTabs
    <2>3. s.read = Sync!NoRead /\ ~s.readRetry
      BY <1>2, <1>3 DEF SyncInv, Fits, SyncTabs
    <2>8. s.made = {} \/ (s.made = tab.made /\ who # Nobody)
      BY <1>2, <1>3 DEF SyncInv, Fits, SyncTabs
    <2>4. s.progress = tab.progress /\ s.hydrated = tab.hydrated
      BY <1>2, <1>3 DEF SyncInv, Fits, SyncTabs
    <2>5. /\ s.status = tab.status
          /\ s.lastSynchronized = tab.lastSynchronized
          /\ s.syncEnabled = tab.syncEnabled
      BY <1>2, <1>3 DEF SyncInv, Fits, SyncTabs
    <2>6. /\ s.pendingReplacement = tab.pendingReplacement
          /\ s.deviceRecordSeeded = tab.deviceRecordSeeded
          /\ s.pendingWrite = tab.pendingWrite
      BY <1>2, <1>3 DEF SyncInv, Fits, SyncTabs
    <2>7. s.unsyncedBuffer = tab.unsyncedBuffer
      BY <1>2, <1>3 DEF SyncInv, Fits, SyncTabs
    <2> QED BY <2>1, <2>2, <2>3, <2>4, <2>5, <2>6, <2>7, <2>8
  <1>5. ~Sync!Approved(tab) => Visits(tab)
    BY DEF SyncInv, Fits, Holds, TabFits
  <1> HIDE DEF s
  <1> USE DEF SyncInv, Fits, Holds, Sync!Approved
  <1>6. TabFits(s)
    BY <1>2, <1>4, <1>5 DEF TabFits, Visits, OwnerFits
  <1>7. OwnerFits(s)
    BY <1>2, <1>4, <1>5 DEF OwnerFits, StatusFits, Visits, Owned, Exists
  <1>8. OldFits(s)
    BY <1>2, <1>4, <1>5 DEF OldFits, OwnerFits, Visits
  <1>9. MadeFits(s)
    BY <1>2, <1>4, <1>5 DEF MadeFits, OwnerFits, Visits, TabFits
  <1>10. StatusFits(s)
    BY <1>2, <1>4, <1>5 DEF StatusFits, Visits
  <1> HIDE DEF SyncInv, Fits
  <1> QED BY <1>1, <1>4, <1>6, <1>7, <1>8, <1>9, <1>10, SyncEffect, CommitFits
          DEF SyncInv, StoreFits

LEMMA LoadAccountKeeps ==
    ASSUME Sync!SyncConstants, SyncInv, Sync!loadAccount
    PROVE  SyncInv'
  <1>1. /\ tab.auth = "loading" /\ ~tab.hydrationDue
        /\ UNCHANGED <<cookie, live, acct, wire, sends, by, dropped>>
        /\ device \in Records /\ Owned(device, Nobody) /\ StoreFits /\ live \subseteq Pair
    BY DEF Sync!loadAccount, Sync!CanAnswer, SyncInv, StoreFits
  <1>2. CASE cookie \notin live
    <2> DEFINE t == [tab EXCEPT !.auth = "idle"]
    <2>1. Sync!Becomes(t, device)
      BY <1>2 DEF Sync!loadAccount
    <2>2. t \in SyncTabs /\ SameTab(tab, t) /\ t.auth = "idle"
      BY DEF SyncInv, Fits, SyncTabs, SameTab, SameShown
    <2> HIDE DEF t
    <2>3. Fits(t)
      BY <2>2 DEF SyncInv, Fits, Holds, Sync!Approved, TabFits, OwnerFits, OldFits, MadeFits,
                  TimersFit, StatusFits, SavesFit, Visits, SameTab, SameShown
    <2> QED BY <1>1, <2>1, <2>3, BecomesFits
  <1>3. CASE cookie \in live
    <2>1. Fits(Sync!SetAccount(tab, cookie))
      BY <1>1, <1>3, SetAccountFits
    <2>2. Sync!Becomes(Sync!SetAccount(tab, cookie), device)
      BY <1>3 DEF Sync!loadAccount
    <2> QED BY <1>1, <2>1, <2>2, BecomesFits
  <1> QED BY <1>2, <1>3

LEMMA RefreshAccountKeeps ==
    ASSUME Sync!SyncConstants, SyncInv, NEW who \in Pair \cup {Nobody}, Sync!refreshAccount(who)
    PROVE  SyncInv'
  <1>1. /\ ~tab.hydrationDue /\ Sync!Becomes(Sync!SetAccount(tab, who), device)
        /\ who = Nobody \/ who = cookie
        /\ UNCHANGED <<cookie, live, acct, wire, sends, by, dropped>>
        /\ device \in Records /\ Owned(device, Nobody) /\ StoreFits
    BY DEF Sync!refreshAccount, Sync!CanAnswer, SyncInv, StoreFits
  <1>2. Fits(Sync!SetAccount(tab, who))
    BY <1>1, SetAccountFits
  <1> QED BY <1>1, <1>2, BecomesFits

LEMMA SignedOutKeeps ==
    ASSUME Sync!SyncConstants, SyncInv, Sync!signedOut
    PROVE  SyncInv'
  <1>1. /\ ~tab.hydrationDue /\ Sync!Becomes(Sync!SetAccount(tab, Nobody), device)
        /\ UNCHANGED <<cookie, live, acct, wire, sends, by, dropped>>
        /\ device \in Records /\ Owned(device, Nobody) /\ StoreFits
    BY DEF Sync!signedOut, Sync!CanAnswer, SyncInv, StoreFits
  <1>2. Fits(Sync!SetAccount(tab, Nobody))
    BY <1>1, SetAccountFits
  <1> QED BY <1>1, <1>2, BecomesFits

LEMMA SignOutKeeps ==
    ASSUME Sync!SyncConstants, SyncInv, Sync!signOut
    PROVE  SyncInv'
  <1>1. /\ Sync!Approved(tab) /\ cookie' = Nobody /\ live' = live \ {cookie}
        /\ tab' = [tab EXCEPT !.auth = "signing-out"]
        /\ UNCHANGED <<acct, device, wire, sends, by, dropped>>
    BY DEF Sync!signOut
  <1>2. tab' \in SyncTabs /\ SameTab(tab, tab') /\ tab'.auth = "signing-out"
    BY <1>1 DEF SyncInv, Fits, SyncTabs, SameTab, SameShown
  <1>3. StoreFits'
    BY <1>1 DEF SyncInv, StoreFits, Owned, HasOld, Exists
  <1> USE DEF SyncInv, Fits, Holds, SameTab, SameShown, Sync!Approved
  <1>4. TabFits(tab)'
    BY <1>1, <1>2 DEF TabFits, Visits
  <1>5. OwnerFits(tab)'
    BY <1>1, <1>2 DEF OwnerFits, Owned, Exists
  <1>6. OldFits(tab)' /\ MadeFits(tab)'
    BY <1>1, <1>2 DEF OldFits, HasOld, MadeFits, Untouched, Kept
  <1>7. TimersFit(tab)' /\ StatusFits(tab)' /\ SavesFit(tab)'
    BY <1>1, <1>2 DEF TimersFit, StatusFits, SavesFit
  <1> QED BY <1>2, <1>3, <1>4, <1>5, <1>6, <1>7

LEMMA SessionEndsKeeps ==
    ASSUME SyncInv, Sync!SessionEnds
    PROVE  SyncInv'
  <1>1. /\ live' = live \ {cookie}
        /\ UNCHANGED <<cookie, acct, device, tab, wire, sends, by, dropped>>
    BY DEF Sync!SessionEnds
  <1>2. StoreFits'
    BY <1>1 DEF SyncInv, StoreFits, Owned, HasOld, Exists
  <1>3. Fits(tab)'
    BY <1>1 DEF SyncInv, Fits, Holds, TabFits, OwnerFits, OldFits, MadeFits, TimersFit, StatusFits,
                SavesFit, Owned, HasOld, Exists, Untouched, Kept, Sync!Approved, Visits
  <1> QED BY <1>2, <1>3 DEF SyncInv

LEMMA OtherTabKeeps ==
    ASSUME Sync!SyncConstants, SyncInv, NEW who \in Pair \cup {Nobody}, Sync!OtherTab(who)
    PROVE  SyncInv'
  <1>1. /\ ~Sync!Approved(tab) /\ ~tab.hydrationDue /\ cookie' = who /\ live' \subseteq Pair
        /\ UNCHANGED <<acct, device, tab, wire, sends, by, dropped>>
    BY DEF Sync!OtherTab, Sync!CanAnswer, SyncInv, StoreFits
  <1>2. StoreFits'
    BY <1>1 DEF SyncInv, StoreFits, Owned, HasOld, Exists
  <1>3. Visits(tab)
    BY <1>1 DEF SyncInv, Fits, Holds, TabFits
  <1>4. Fits(tab)'
    BY <1>1, <1>3 DEF SyncInv, Fits, Holds, TabFits, OwnerFits, OldFits, MadeFits, TimersFit,
                StatusFits, SavesFit, Owned, HasOld, Exists, Untouched, Kept, Sync!Approved, Visits
  <1> QED BY <1>2, <1>4 DEF SyncInv

-----------------------------------------------------------------------------
(* Sending *)

\* A save of what is owed, as the browser's cookie signs it.
Owing(m) ==
    /\ m = [id |-> sends + 1, who |-> cookie, rec |-> tab.pendingWrite]
    /\ wire' = wire \cup {m} /\ sends' = sends + 1

LEMMA FlushSends ==
    ASSUME SyncInv, Sync!Flush
    PROVE  \/ UNCHANGED <<wire, sends>>
           \/ tab.pendingWrite # None /\ tab.syncEnabled /\ \E m : Owing(m)
  <1> DEFINE m == [id |-> sends + 1, who |-> cookie, rec |-> tab.pendingWrite]
  <1>1. \A S : Sync!Cardinality(S) = Cardinality(S)
    BY DEF Sync!Cardinality, Cardinality
  <1>2. sends \in Nat
    BY DEF SyncInv, StoreFits
  <1>3. /\ wire' = wire \cup Sync!Flushed(tab)
        /\ sends' = sends + Cardinality(Sync!Flushed(tab))
    BY <1>1 DEF Sync!Flush
  <1>4. CASE Sync!Flushes(tab)
    <2>1. Sync!Flushed(tab) = {m}
      BY <1>4 DEF Sync!Flushed
    <2>2. Cardinality({m}) = 1
      BY FS_Singleton
    <2> HIDE DEF m
    <2>3. wire' = wire \cup {m} /\ sends' = sends + 1
      BY <1>3, <2>1, <2>2
    <2>4. Owing(m)
      BY <2>3 DEF Owing, m
    <2> QED BY <1>4, <2>4 DEF Sync!Flushes
  <1>5. CASE ~Sync!Flushes(tab)
    <2>1. Sync!Flushed(tab) = {}
      BY <1>5 DEF Sync!Flushed
    <2>2. Cardinality({}) = 0
      BY FS_EmptySet
    <2> QED BY <1>2, <1>3, <2>1, <2>2
  <1> QED BY <1>4, <1>5

LEMMA OwingFits ==
    ASSUME Sync!SyncConstants, SyncInv, NEW m, Owing(m), tab.pendingWrite # None, tab.syncEnabled,
           cookie' \in Pair \cup {Nobody}, live' \subseteq Pair,
           UNCHANGED <<acct, device, by, dropped>>
    PROVE  m \in Saves /\ m.id = sends + 1 /\ sends \in Nat /\ StoreFits'
  <1>1. m \in Saves /\ m.id = sends + 1 /\ m.who = cookie /\ m.rec = tab.pendingWrite
    BY DEF Owing, Saves, SyncInv, StoreFits, Fits, SyncTabs
  <1>2. Exists(m.rec) /\ (m.who # Nobody => Owned(m.rec, m.who) /\ HasOld(m.rec, m.who))
    BY <1>1 DEF SyncInv, Fits, Holds, OwnerFits, OldFits
  <1>3. wire' = wire \cup {m} /\ sends' = sends + 1
    BY DEF Owing
  <1>4. StoreFits'
    <2>1. StoreFits /\ sends \in Nat /\ sends' \in Nat /\ m.id > 0 /\ m.id <= sends'
      BY <1>1, <1>3 DEF SyncInv, StoreFits
    <2>2. wire' \subseteq Saves /\ \A n \in wire' : n.id > 0 /\ n.id <= sends'
      BY <1>1, <1>3, <2>1 DEF StoreFits, Saves
    <2>3. \A p, n \in wire' : p.id = n.id => p = n
      BY <1>1, <1>3, <2>1 DEF StoreFits, Saves
    <2>4. \A n \in wire' : /\ Exists(n.rec)
                           /\ n.who # Nobody => Owned(n.rec, n.who) /\ HasOld(n.rec, n.who)
      BY <1>2, <1>3, <2>1 DEF StoreFits
    <2>5. Owned(device, Nobody) /\ \A l \in Pair : Owned(acct[l], l) /\ HasOld(acct[l], l)
      BY <2>1 DEF StoreFits
    <2>6. (\A n \in wire : n.id > 0 /\ n.id <= sends /\ Exists(n.rec))'
      BY <2>2, <2>4 DEF Exists
    <2>7. (\A n \in wire : n.who # Nobody => Owned(n.rec, n.who))'
      BY <2>4 DEF Owned
    <2>8. (\A n \in wire : n.who # Nobody => HasOld(n.rec, n.who))'
      BY <2>4 DEF HasOld
    <2>9. (\A l \in Pair : Owned(acct[l], l) /\ HasOld(acct[l], l))' /\ Owned(device, Nobody)'
      BY <2>5 DEF Owned, HasOld
    <2> QED BY <2>1, <2>2, <2>3, <2>6, <2>7, <2>8, <2>9 DEF StoreFits
  <1> QED BY <1>1, <1>4 DEF SyncInv, StoreFits

\* What the tab made stays with every save: one more save of it changes nothing.
LEMMA OwingKeepsMade ==
    ASSUME Sync!SyncConstants, SyncInv, NEW m, Owing(m), tab.pendingWrite # None, tab.syncEnabled,
           UNCHANGED <<acct, dropped>>, tab'.account = tab.account
    PROVE  /\ ~Sync!Approved(tab) => \A e \in tab.made : Untouched(e)'
           /\ Sync!Approved(tab) /\ dropped[tab.account] = {} =>
                 \A e \in tab.made : Untouched(e)' \/ (e \in tab.progress /\ Kept(e, tab.account)')
  <1>1. m.id = sends + 1 /\ m.rec = tab.pendingWrite /\ wire' = wire \cup {m} /\ sends \in Nat
    BY DEF Owing, SyncInv, StoreFits
  <1>2. ASSUME ~Sync!Approved(tab), NEW e \in tab.made
        PROVE  Untouched(e)'
    <2>1. Untouched(e) /\ e \notin m.rec
      BY <1>1, <1>2 DEF SyncInv, Fits, Holds, MadeFits
    <2> QED BY <1>1, <2>1 DEF Untouched
  <1>3. ASSUME Sync!Approved(tab), dropped[tab.account] = {}, NEW e \in tab.made
        PROVE  Untouched(e)' \/ (e \in tab.progress /\ Kept(e, tab.account)')
    <2>1. m.rec = tab.progress
      BY <1>1, <1>3 DEF SyncInv, Fits, TimersFit
    <2>2. Untouched(e) \/ (e \in tab.progress /\ Kept(e, tab.account))
      BY <1>3 DEF SyncInv, Fits, Holds, MadeFits
    <2>3. CASE e \notin tab.progress
      BY <1>1, <2>1, <2>2, <2>3 DEF Untouched
    <2>4. CASE e \in tab.progress
      <3>1. tab.account \in Pair /\ tab.account # Nobody
        BY <1>3 DEF SyncInv, Fits, SyncTabs, Sync!Approved
      <3>2. Kept(e, tab.account)
        BY <2>2, <3>1 DEF Untouched, Kept
      <3>3. \A n \in wire : n.id \in Nat /\ n.id < m.id
        BY <1>1 DEF SyncInv, StoreFits, Saves
      <3>4. Kept(e, tab.account)'
        BY <1>1, <2>1, <2>4, <3>2, <3>3 DEF Kept
      <3> QED BY <2>4, <3>4
    <2> QED BY <2>3, <2>4
  <1> QED BY <1>2, <1>3

LEMMA HideKeeps ==
    ASSUME Sync!SyncConstants, SyncInv, Sync!Hide
    PROVE  SyncInv'
  <1>1. Sync!Flush /\ UNCHANGED <<cookie, live, acct, device, tab, by, dropped>>
    BY DEF Sync!Hide
  <1>2. CASE UNCHANGED <<wire, sends>>
    <2>1. StoreFits'
      BY <1>1, <1>2 DEF SyncInv, StoreFits, Owned, HasOld, Exists
    <2>2. Fits(tab)'
      BY <1>1, <1>2 DEF SyncInv, Fits, Holds, TabFits, OwnerFits, OldFits, MadeFits, TimersFit,
                StatusFits, SavesFit, Owned, HasOld, Exists, Untouched, Kept, Sync!Approved, Visits
    <2> QED BY <2>1, <2>2 DEF SyncInv
  <1>3. ASSUME NEW m, Owing(m), tab.pendingWrite # None, tab.syncEnabled
        PROVE  SyncInv'
    <2>1. m \in Saves /\ m.id = sends + 1 /\ sends \in Nat /\ StoreFits'
      BY <1>1, <1>3, OwingFits DEF SyncInv, StoreFits
    <2>2. wire' = wire \cup {m} /\ sends' = sends + 1
      BY <1>3 DEF Owing
    <2>3. /\ ~Sync!Approved(tab) => \A e \in tab.made : Untouched(e)'
          /\ Sync!Approved(tab) /\ dropped[tab.account] = {} =>
                \A e \in tab.made : Untouched(e)' \/ (e \in tab.progress /\ Kept(e, tab.account)')
      BY <1>1, <1>3, OwingKeepsMade
    <2>4. MadeFits(tab)'
      BY <1>1, <1>3, <2>3 DEF SyncInv, Fits, Holds, MadeFits, Sync!Approved
    <2>5. TimersFit(tab)'
      BY <1>1, <2>1, <2>2 DEF SyncInv, Fits, TimersFit, Sync!Approved, SyncTabs
    <2>6. TabFits(tab)' /\ OwnerFits(tab)' /\ OldFits(tab)' /\ StatusFits(tab)' /\ SavesFit(tab)'
      BY <1>1 DEF SyncInv, Fits, Holds, TabFits, OwnerFits, OldFits, StatusFits, SavesFit,
                  Owned, HasOld, Exists, Sync!Approved, Visits
    <2> QED BY <1>1, <2>1, <2>4, <2>5, <2>6 DEF SyncInv, Fits, Holds
  <1> QED BY <1>1, <1>2, <1>3, FlushSends

\* A document that has just been loaded holds nothing.
LEMMA FreshFits ==
    ASSUME Sync!SyncConstants, StoreFits', tab' = Sync!FreshTab
    PROVE  Fits(tab)'
  <1>1. /\ tab' \in SyncTabs /\ tab'.account = Nobody /\ tab'.auth = "loading"
        /\ tab'.progress = {} /\ tab'.made = {} /\ tab'.status = "local-only"
        /\ tab'.lastSynchronized = None /\ ~tab'.syncEnabled /\ tab'.unsyncedBuffer = None
        /\ tab'.pendingWrite = None /\ ~tab'.pendingReplacement /\ ~tab'.deviceRecordSeeded
        /\ tab'.hydrationDue /\ tab'.read = Sync!NoRead /\ ~tab'.readRetry /\ ~tab'.debounce
        /\ tab'.save = Sync!NoSave
    BY DEF Sync!FreshTab, SyncTabs, Records, Sync!NoRead, Sync!NoSave, Sync!Statuses
  <1>2. /\ Sync!NoRead.pc = "none" /\ Sync!NoRead.rec = {}
        /\ Sync!NoSave.pc = "none" /\ Sync!NoSave.id = 0
    BY DEF Sync!NoRead, Sync!NoSave
  <1> USE DEF Sync!Approved
  <1>3. TabFits(tab)' /\ OldFits(tab)' /\ MadeFits(tab)'
    BY <1>1, <1>2 DEF TabFits, OldFits, MadeFits
  <1>4. OwnerFits(tab)'
    BY <1>1, <1>2 DEF OwnerFits, Owned, Exists
  <1>5. TimersFit(tab)' /\ StatusFits(tab)' /\ SavesFit(tab)'
    BY <1>1, <1>2 DEF TimersFit, StatusFits, SavesFit, StoreFits
  <1> QED BY <1>1, <1>3, <1>4, <1>5 DEF Fits, Holds

LEMMA LeaveKeeps ==
    ASSUME Sync!SyncConstants, SyncInv, NEW who \in Pair \cup {Nobody}, Sync!Leave(who)
    PROVE  SyncInv'
  <1>1. /\ Sync!Flush /\ cookie' = who /\ tab' = Sync!FreshTab /\ live' \subseteq Pair
        /\ UNCHANGED <<acct, device, by, dropped>>
    BY DEF Sync!Leave, SyncInv, StoreFits
  <1>2. StoreFits'
    <2>1. CASE UNCHANGED <<wire, sends>>
      BY <1>1, <2>1 DEF SyncInv, StoreFits, Owned, HasOld, Exists
    <2>2. ASSUME NEW m, Owing(m), tab.pendingWrite # None, tab.syncEnabled
          PROVE  StoreFits'
      BY <1>1, <2>2, OwingFits
    <2> QED BY <1>1, <2>1, <2>2, FlushSends
  <1>3. Fits(tab)'
    BY <1>1, <1>2, FreshFits
  <1> QED BY <1>2, <1>3 DEF SyncInv

LEMMA SendProgressKeeps ==
    ASSUME Sync!SyncConstants, SyncInv, Sync!sendProgress
    PROVE  SyncInv'
  <1> DEFINE m == [id |-> sends + 1, who |-> cookie, rec |-> tab.progress]
             save == [pc |-> "sent", id |-> sends + 1, rec |-> tab.progress]
  <1>1. /\ tab.debounce /\ wire' = wire \cup {m} /\ sends' = sends + 1
        /\ tab' = [Sync!WithStatus(tab, "syncing") EXCEPT !.debounce = FALSE, !.save = save]
        /\ UNCHANGED <<cookie, live, acct, device, by, dropped>>
    BY DEF Sync!sendProgress
  <1>2. /\ tab \in SyncTabs /\ Sync!Approved(tab) /\ tab.syncEnabled
        /\ tab.pendingWrite = tab.progress
    BY <1>1 DEF SyncInv, Fits, TimersFit
  <1>3. tab.pendingWrite # None
    BY <1>2 DEF Sync!SyncConstants, SyncTabs, Records
  <1>4. Owing(m)
    BY <1>1, <1>2 DEF Owing
  <1>5. /\ tab' = [[tab EXCEPT !.status = "syncing"] EXCEPT !.debounce = FALSE, !.save = save]
        /\ save \in [pc : {"none", "sent", "accepted", "refused", "failed"}, id : Nat,
                     rec : Records]
        /\ save.pc = "sent" /\ save.id = sends + 1 /\ save.rec = tab.progress
    <2>1. Sync!WithStatus(tab, "syncing") = [tab EXCEPT !.status = "syncing"]
      BY <1>2, QuietStatus DEF Sync!Statuses
    <2>2. sends + 1 \in Nat /\ tab.progress \in Records
      BY <1>2 DEF SyncTabs, SyncInv, StoreFits
    <2> QED BY <1>1, <2>1, <2>2
  <1> HIDE DEF save
  <1>6. /\ tab' \in SyncTabs /\ tab'.account = tab.account /\ tab'.auth = tab.auth
        /\ tab'.progress = tab.progress /\ tab'.hydrated = tab.hydrated
        /\ tab'.status = "syncing" /\ tab'.lastSynchronized = tab.lastSynchronized
        /\ tab'.syncEnabled = tab.syncEnabled
        /\ tab'.pendingReplacement = tab.pendingReplacement
        /\ tab'.deviceRecordSeeded = tab.deviceRecordSeeded
        /\ tab'.hydrationDue = tab.hydrationDue /\ tab'.read = tab.read
        /\ tab'.readRetry = tab.readRetry /\ tab'.made = tab.made
        /\ tab'.pendingWrite = tab.pendingWrite /\ tab'.unsyncedBuffer = tab.unsyncedBuffer
        /\ ~tab'.debounce /\ tab'.save = save
    BY <1>2, <1>5 DEF SyncTabs, Sync!Statuses
  <1>7. m \in Saves /\ m.id = sends + 1 /\ sends \in Nat /\ StoreFits'
    BY <1>1, <1>2, <1>3, <1>4, OwingFits DEF SyncInv, StoreFits
  <1>8. \A e \in tab.made : Untouched(e)' \/ (e \in tab.progress /\ Kept(e, tab.account)')
        \/ dropped[tab.account] # {}
    BY <1>1, <1>2, <1>3, <1>4, <1>6, OwingKeepsMade
  <1>9. m.who \in {tab.account, Nobody} /\ m.rec = tab.progress
    BY <1>2 DEF SyncInv, Fits, Holds, OwnerFits
  <1>10. \A n \in wire : n.id \in Nat /\ n.id <= sends
    BY DEF SyncInv, StoreFits, Saves
  <1> HIDE DEF m
  <1> USE DEF SyncInv, Fits, Holds, Sync!Approved
  <1>11. MadeFits(tab)'
    BY ZenonT(40), <1>1, <1>2, <1>6, <1>8 DEF MadeFits
  <1>12. TimersFit(tab)'
    <2>1. \A n \in wire' : n.id = tab'.save.id =>
             n.rec = tab'.save.rec /\ n.who \in {tab'.account, Nobody}
      BY <1>1, <1>5, <1>6, <1>7, <1>9, <1>10
    <2>2. tab'.save.id <= sends' /\ tab'.save.pc = "sent" /\ tab'.save.rec = tab'.progress
      BY <1>1, <1>5, <1>6, <1>7
    <2> QED BY <1>2, <1>6, <2>1, <2>2 DEF TimersFit
  <1>13. TabFits(tab)' /\ OwnerFits(tab)' /\ OldFits(tab)'
    BY ZenonT(40), <1>1, <1>2, <1>6 DEF TabFits, OwnerFits, OldFits, Owned, HasOld, Exists, Visits
  <1>14. StatusFits(tab)' /\ SavesFit(tab)'
    BY <1>2, <1>5, <1>6 DEF StatusFits, SavesFit
  <1> QED BY <1>6, <1>7, <1>11, <1>12, <1>13, <1>14

-----------------------------------------------------------------------------
(* Deciding *)

Decided(m, pc) ==
    /\ tab' \in SyncTabs /\ SameShown(tab, tab') /\ tab'.auth = tab.auth
    /\ tab'.pendingWrite = tab.pendingWrite /\ tab'.unsyncedBuffer = tab.unsyncedBuffer
    /\ tab'.debounce = tab.debounce
    /\ tab'.save.id = tab.save.id /\ tab'.save.rec = tab.save.rec
    /\ tab.save.id = m.id => tab'.save.pc = pc /\ tab.save.pc # "none"
    /\ tab.save.id # m.id => tab'.save = tab.save

LEMMA DecideSays ==
    ASSUME SyncInv, NEW m \in wire, NEW pc \in {"accepted", "refused", "failed"},
           Sync!Decide(m, pc)
    PROVE  wire' = wire \ {m} /\ Decided(m, pc)
  <1>1. /\ wire' = wire \ {m}
        /\ tab' = IF tab.save.id = m.id THEN [tab EXCEPT !.save.pc = pc] ELSE tab
    BY DEF Sync!Decide
  <1>2. tab \in SyncTabs /\ m.id # 0
    BY DEF SyncInv, Fits, StoreFits, Saves
  <1>3. CASE tab.save.id = m.id
    <2> DEFINE save == [tab.save EXCEPT !.pc = pc]
    <2>1. /\ save \in [pc : {"none", "sent", "accepted", "refused", "failed"}, id : Nat,
                       rec : Records]
          /\ save.pc = pc /\ save.id = tab.save.id /\ save.rec = tab.save.rec
      BY <1>2 DEF SyncTabs
    <2>2. tab' = [tab EXCEPT !.save = save]
      BY <1>1, <1>2, <1>3 DEF SyncTabs
    <2> HIDE DEF save
    <2>3. tab.save.pc # "none"
      BY <1>2, <1>3 DEF SyncInv, Fits, TimersFit, Sync!NoSave
    <2> QED BY <1>1, <1>2, <1>3, <2>1, <2>2, <2>3 DEF Decided, SyncTabs, SameShown
  <1>4. CASE tab.save.id # m.id
    BY <1>1, <1>2, <1>4 DEF Decided, SameShown
  <1> QED BY <1>1, <1>3, <1>4

\* A save that is not accepted leaves the account as it was.
LEMMA DropKeeps ==
    ASSUME Sync!SyncConstants, SyncInv, NEW m \in wire, NEW pc \in {"refused", "failed"},
           Sync!Decide(m, pc), UNCHANGED <<cookie, live, acct, device, sends, by, dropped>>
    PROVE  SyncInv'
  <1>1. wire' = wire \ {m} /\ Decided(m, pc)
    BY DecideSays
  <1>2. StoreFits'
    BY <1>1 DEF SyncInv, StoreFits, Owned, HasOld, Exists
  <1> USE DEF SyncInv, Fits, Holds, Sync!Approved, Decided, SameShown
  <1>3. TabFits(tab)' /\ OwnerFits(tab)' /\ OldFits(tab)' /\ StatusFits(tab)'
    BY <1>1 DEF TabFits, OwnerFits, OldFits, Owned, HasOld, Exists, Visits, StatusFits
  <1>4. MadeFits(tab)'
    BY <1>1 DEF MadeFits, Untouched, Kept
  <1>5. TimersFit(tab)'
    BY <1>1 DEF TimersFit, Sync!NoSave
  <1>6. SavesFit(tab)'
    BY <1>1 DEF SavesFit
  <1> QED BY <1>1, <1>2, <1>3, <1>4, <1>5, <1>6

LEMMA RefuseSaveKeeps ==
    ASSUME Sync!SyncConstants, SyncInv, NEW m \in wire, Sync!RefuseSave(m)
    PROVE  SyncInv'
  BY DropKeeps DEF Sync!RefuseSave

LEMMA LoseSaveKeeps ==
    ASSUME Sync!SyncConstants, SyncInv, NEW m \in wire, Sync!LoseSave(m)
    PROVE  SyncInv'
  BY DropKeeps DEF Sync!LoseSave

LEMMA AcceptSaveKeeps ==
    ASSUME Sync!SyncConstants, SyncInv, NEW m \in wire, Sync!AcceptSave(m)
    PROVE  SyncInv'
  <1>1. /\ wire' = wire \ {m} /\ Decided(m, "accepted") /\ m.who \in live
        /\ \A n \in wire : m.id <= n.id
        /\ acct' = [acct EXCEPT ![m.who] = m.rec]
        /\ UNCHANGED <<cookie, live, device, sends, by, dropped>>
    BY DecideSays DEF Sync!AcceptSave, Sync!InTurn
  <1>2. m.who \in Pair /\ m.who # Nobody /\ m.rec \in Records /\ acct \in [Pair -> Records]
    BY <1>1 DEF SyncInv, StoreFits, Saves, Sync!SyncConstants
  <1>3. StoreFits'
    BY <1>1, <1>2 DEF SyncInv, StoreFits, Owned, HasOld, Exists
  <1>4. \A n \in wire' : n \in wire /\ m.id < n.id
    BY <1>1 DEF SyncInv, StoreFits, Saves
  <1>5. \A e : Untouched(e) => Untouched(e)'
    BY <1>1, <1>2 DEF Untouched
  <1>6. ASSUME NEW e, NEW l \in Pair, Kept(e, l)
        PROVE  Kept(e, l)' /\ (e \in acct[l] => e \in acct'[l])
    <2>1. CASE m.who = l
      BY <1>1, <1>2, <1>4, <1>6, <2>1 DEF Kept
    <2>2. CASE m.who # l
      BY <1>1, <1>2, <1>4, <1>6, <2>2 DEF Kept
    <2> QED BY <2>1, <2>2
  <1> USE DEF SyncInv, Fits, Holds, Sync!Approved, Decided, SameShown
  <1>7. TabFits(tab)' /\ OwnerFits(tab)' /\ OldFits(tab)' /\ StatusFits(tab)' /\ SavesFit(tab)'
    BY <1>1 DEF TabFits, OwnerFits, OldFits, Owned, HasOld, Exists, Visits, StatusFits, SavesFit
  <1>8. tab.account \in Pair \/ tab.account = Nobody
    BY DEF SyncTabs
  <1>9. ASSUME Sync!Approved(tab), dropped[tab.account] = {}, NEW e \in tab.made
        PROVE  /\ Untouched(e)' \/ (e \in tab.progress /\ Kept(e, tab.account)')
               /\ e \in acct[tab.account] => e \in acct'[tab.account]
    <2>1. Untouched(e) \/ (e \in tab.progress /\ Kept(e, tab.account))
      BY <1>9 DEF MadeFits
    <2>2. tab'.account = tab.account
      BY <1>1
    <2>3. Untouched(e) => e \notin acct[tab.account]
      BY <1>8, <1>9 DEF Untouched
    <2> QED BY <1>5, <1>6, <1>8, <1>9, <2>1, <2>2, <2>3
  <1>10. MadeFits(tab)'
    BY <1>1, <1>5, <1>9 DEF MadeFits
  <1>11. TimersFit(tab)'
    <2>1. ASSUME Sync!Approved(tab), dropped[tab.account] = {}, tab'.save.pc = "accepted",
                 NEW e \in tab.made, e \in tab.save.rec
          PROVE  e \in acct'[tab.account]
      <3>1. CASE tab.save.id = m.id
        BY <1>1, <1>2, <2>1, <3>1 DEF TimersFit
      <3>2. CASE tab.save.id # m.id
        BY <1>1, <1>9, <2>1, <3>2 DEF TimersFit
      <3> QED BY <3>1, <3>2
    <2> QED BY <1>1, <2>1 DEF TimersFit, Sync!NoSave
  <1> QED BY <1>1, <1>3, <1>7, <1>10, <1>11

-----------------------------------------------------------------------------
(* The answers *)

\* A tab that fits is put in place, and the device stays as it is.
LEMMA PutKeeps ==
    ASSUME StoreFits, Fits(tab'),
           UNCHANGED <<cookie, live, acct, device, wire, sends, by, dropped>>
    PROVE  SyncInv'
  <1>1. StoreFits'
    BY DEF StoreFits, Owned, HasOld, Exists
  <1>2. Fits(tab)'
    BY DEF Fits, Holds, TabFits, OwnerFits, OldFits, MadeFits, TimersFit, StatusFits, SavesFit,
           Owned, HasOld, Exists, Untouched, Kept, Sync!Approved, Visits
  <1> QED BY <1>1, <1>2 DEF SyncInv

LEMMA SaveAcceptedFits ==
    ASSUME Sync!SyncConstants, SyncInv, tab.save.pc = "accepted"
    PROVE  Fits(Sync!saveAccepted(tab))
  <1> DEFINE t == [tab EXCEPT !.lastSynchronized = tab.save.rec, !.unsyncedBuffer = None,
                              !.pendingWrite = None, !.pendingReplacement = FALSE,
                              !.saveAttempt = 0, !.save = Sync!NoSave]
             u == [t EXCEPT !.status = "synced"]
  <1>1. /\ Sync!NoSave \in [pc : {"none", "sent", "accepted", "refused", "failed"}, id : Nat,
                            rec : Records]
        /\ Sync!NoSave.pc = "none" /\ Sync!NoSave.id = 0
    BY DEF Sync!NoSave, Records
  <1>2. /\ Sync!Approved(tab) /\ tab.syncEnabled /\ tab.save.rec = tab.progress /\ ~tab.debounce
        /\ tab \in SyncTabs
    BY DEF SyncInv, Fits, TimersFit, Sync!NoSave
  <1>3. /\ t \in SyncTabs /\ t.account = tab.account
        /\ Sync!saveAccepted(tab) = Sync!WithStatus(t, "synced")
    BY ZenonT(40), <1>1, <1>2 DEF SyncTabs, Sync!saveAccepted
  <1>4. /\ u \in SyncTabs /\ u.account = tab.account /\ u.auth = tab.auth
        /\ u.progress = tab.progress /\ u.hydrated = tab.hydrated /\ u.status = "synced"
        /\ u.lastSynchronized = tab.progress /\ u.syncEnabled /\ ~u.pendingReplacement
        /\ u.deviceRecordSeeded = tab.deviceRecordSeeded /\ u.hydrationDue = tab.hydrationDue
        /\ u.read = tab.read /\ u.readRetry = tab.readRetry /\ u.made = tab.made
        /\ u.pendingWrite = None /\ u.unsyncedBuffer = None /\ ~u.debounce
        /\ u.save = Sync!NoSave
    <2>1. u \in SyncTabs
      BY ZenonT(40), <1>1, <1>2 DEF SyncTabs, Sync!Statuses
    <2>2. u.account = tab.account /\ u.auth = tab.auth /\ u.progress = tab.progress
      BY <1>1, <1>2 DEF SyncTabs, Sync!Statuses
    <2>3. u.hydrated = tab.hydrated /\ u.status = "synced" /\ u.lastSynchronized = tab.progress
      BY <1>1, <1>2 DEF SyncTabs, Sync!Statuses
    <2>4. /\ u.syncEnabled
          /\ ~u.pendingReplacement
          /\ u.deviceRecordSeeded = tab.deviceRecordSeeded
      BY <1>1, <1>2 DEF SyncTabs, Sync!Statuses
    <2>5. u.hydrationDue = tab.hydrationDue /\ u.read = tab.read /\ u.readRetry = tab.readRetry
      BY <1>1, <1>2 DEF SyncTabs, Sync!Statuses
    <2>6. u.made = tab.made /\ u.pendingWrite = None /\ u.unsyncedBuffer = None
      BY <1>1, <1>2 DEF SyncTabs, Sync!Statuses
    <2>7. ~u.debounce /\ u.save = Sync!NoSave
      BY <1>1, <1>2 DEF SyncTabs, Sync!Statuses
    <2> QED BY <2>1, <2>2, <2>3, <2>4, <2>5, <2>6, <2>7
  <1> HIDE DEF u
  <1>5. Fits(u)
    <2> USE DEF SyncInv, Fits, Holds, Sync!Approved
    <2>1. TabFits(u)
      BY <1>2, <1>4 DEF TabFits
    <2>2. OwnerFits(u) /\ OldFits(u)
      BY <1>2, <1>4 DEF OwnerFits, OldFits
    <2>3. MadeFits(u)
      BY <1>2, <1>4 DEF MadeFits, TimersFit
    <2>4. TimersFit(u) /\ StatusFits(u) /\ SavesFit(u)
      BY <1>1, <1>2, <1>4 DEF TimersFit, StatusFits, SavesFit, StoreFits
    <2> QED BY <1>4, <2>1, <2>2, <2>3, <2>4
  <1> HIDE DEF t
  <1>6. Fits(Sync!WithStatus(t, "synced"))
    BY <1>2, <1>3, <1>5, WithStatusFits DEF u, SyncInv, Sync!Approved, Sync!Statuses
  <1> QED BY <1>3, <1>6

LEMMA SaveFailedFits ==
    ASSUME Sync!SyncConstants, SyncInv, tab.save.pc # "none", NEW status
    PROVE  Fits(Sync!saveFailed(tab, status))
  <1> DEFINE attempt == IF tab.saveAttempt < MaxSaveTries THEN tab.saveAttempt + 1
                        ELSE tab.saveAttempt
             plan == Sync!planProgressSaveRetry(status, attempt)
             replacing == tab.pendingReplacement /\ plan # "not-retryable"
             retrying == tab.saveRetry \/ plan = "retry"
             t == [tab EXCEPT !.unsyncedBuffer = tab.progress, !.save = Sync!NoSave,
                              !.saveAttempt = attempt, !.pendingReplacement = replacing,
                              !.saveRetry = retrying]
             u == [t EXCEPT !.status = "error"]
  <1>1. /\ Sync!NoSave \in [pc : {"none", "sent", "accepted", "refused", "failed"}, id : Nat,
                            rec : Records]
        /\ Sync!NoSave.pc = "none" /\ Sync!NoSave.id = 0
    BY DEF Sync!NoSave, Records
  <1>2. /\ Sync!Approved(tab) /\ tab.syncEnabled /\ ~tab.debounce /\ tab \in SyncTabs
    BY DEF SyncInv, Fits, TimersFit, Sync!NoSave
  <1>3. attempt \in Nat
    BY <1>2 DEF SyncTabs
  <1>4. replacing \in BOOLEAN /\ retrying \in BOOLEAN /\ (replacing => tab.pendingReplacement)
    <2> HIDE DEF plan
    <2> QED BY Zenon
  <1>5. Sync!saveFailed(tab, status) = Sync!WithStatus(t, "error")
    BY DEF Sync!saveFailed
  <1> HIDE DEF attempt, plan, replacing, retrying
  <1>6. /\ t \in SyncTabs /\ t.account = tab.account /\ t.auth = tab.auth
        /\ t.progress = tab.progress /\ t.hydrated = tab.hydrated
        /\ t.lastSynchronized = tab.lastSynchronized /\ t.syncEnabled = tab.syncEnabled
        /\ t.deviceRecordSeeded = tab.deviceRecordSeeded /\ t.hydrationDue = tab.hydrationDue
        /\ t.read = tab.read /\ t.readRetry = tab.readRetry /\ t.made = tab.made
        /\ t.pendingWrite = tab.pendingWrite /\ t.unsyncedBuffer = tab.progress
        /\ t.debounce = tab.debounce /\ t.save = Sync!NoSave
    <2>1. t \in SyncTabs
      BY <1>1, <1>2, <1>3, <1>4 DEF SyncTabs
    <2>2. t.account = tab.account /\ t.auth = tab.auth /\ t.progress = tab.progress
      BY <1>1, <1>2, <1>3, <1>4 DEF SyncTabs
    <2>3. /\ t.hydrated = tab.hydrated
          /\ t.lastSynchronized = tab.lastSynchronized
          /\ t.syncEnabled = tab.syncEnabled
      BY <1>1, <1>2, <1>3, <1>4 DEF SyncTabs
    <2>4. /\ t.deviceRecordSeeded = tab.deviceRecordSeeded
          /\ t.hydrationDue = tab.hydrationDue
          /\ t.read = tab.read
      BY <1>1, <1>2, <1>3, <1>4 DEF SyncTabs
    <2>5. t.readRetry = tab.readRetry /\ t.made = tab.made /\ t.pendingWrite = tab.pendingWrite
      BY <1>1, <1>2, <1>3, <1>4 DEF SyncTabs
    <2>6. t.unsyncedBuffer = tab.progress /\ t.debounce = tab.debounce /\ t.save = Sync!NoSave
      BY <1>1, <1>2, <1>3, <1>4 DEF SyncTabs
    <2> QED BY <2>1, <2>2, <2>3, <2>4, <2>5, <2>6
  <1>7. t.pendingReplacement = replacing
    BY <1>1, <1>2, <1>3, <1>4 DEF SyncTabs
  <1> HIDE DEF t
  <1>8. /\ u \in SyncTabs /\ u.account = tab.account /\ u.auth = tab.auth
        /\ u.progress = tab.progress /\ u.hydrated = tab.hydrated
        /\ u.lastSynchronized = tab.lastSynchronized /\ u.syncEnabled = tab.syncEnabled
        /\ u.deviceRecordSeeded = tab.deviceRecordSeeded /\ u.hydrationDue = tab.hydrationDue
        /\ u.read = tab.read /\ u.readRetry = tab.readRetry /\ u.made = tab.made
        /\ u.pendingWrite = tab.pendingWrite /\ u.unsyncedBuffer = tab.progress
        /\ u.debounce = tab.debounce /\ u.save = Sync!NoSave
        /\ u.status = "error" /\ u.pendingReplacement = t.pendingReplacement
    BY <1>6 DEF SyncTabs, Sync!Statuses
  <1>9. u.pendingReplacement => tab.pendingReplacement
    BY <1>4, <1>7, <1>8
  <1>10. Sync!WithStatus(t, "error") = u
    BY <1>6, QuietStatus DEF Sync!Statuses
  <1> HIDE DEF u
  <1>11. Fits(u)
    <2> USE DEF SyncInv, Fits, Holds, Sync!Approved
    <2>1. TabFits(u)
      BY <1>2, <1>8, <1>9 DEF TabFits
    <2>2. OwnerFits(u) /\ OldFits(u)
      BY <1>2, <1>8, <1>9 DEF OwnerFits, OldFits
    <2>3. MadeFits(u)
      BY <1>2, <1>8, <1>9 DEF MadeFits
    <2>4. TimersFit(u) /\ StatusFits(u) /\ SavesFit(u)
      BY <1>1, <1>2, <1>8 DEF TimersFit, StatusFits, SavesFit, StoreFits
    <2> QED BY <1>8, <2>1, <2>2, <2>3, <2>4
  <1> QED BY <1>5, <1>10, <1>11

LEMMA AnswerSaveKeeps ==
    ASSUME Sync!SyncConstants, SyncInv, Sync!AnswerSave
    PROVE  SyncInv'
  <1>1. /\ tab.save.pc \in {"accepted", "refused", "failed"}
        /\ UNCHANGED <<cookie, live, acct, device, wire, sends, by, dropped>>
        /\ \/ tab.save.pc = "accepted" /\ tab' = Sync!saveAccepted(tab)
           \/ \E status : tab' = Sync!saveFailed(tab, status)
    BY DEF Sync!AnswerSave
  <1>2. Fits(tab')
    BY <1>1, SaveAcceptedFits, SaveFailedFits
  <1> QED BY <1>1, <1>2, PutKeeps DEF SyncInv

\* The sync effect alone: nothing else of the tab has changed.
LEMMA RecommitKeeps ==
    ASSUME Sync!SyncConstants, SyncInv, NEW t \in SyncTabs, SameTab(tab, t), t.auth = tab.auth,
           tab' = Sync!Committed(t),
           UNCHANGED <<cookie, live, acct, device, wire, sends, by, dropped>>
    PROVE  SyncInv'
  <1>1. Holds(t) /\ StatusFits(t)
    BY DEF SyncInv, Fits, Holds, Sync!Approved, TabFits, OwnerFits, OldFits, MadeFits, StatusFits,
           Visits, SameTab, SameShown
  <1>2. Fits(Sync!syncEffect(t))
    BY <1>1, SyncEffect, CommitFits DEF SyncInv, StoreFits
  <1> QED BY <1>2, PutKeeps DEF SyncInv, Sync!Committed

LEMMA RetrySaveKeeps ==
    ASSUME Sync!SyncConstants, SyncInv, Sync!RetrySave
    PROVE  SyncInv'
  <1> DEFINE t == [tab EXCEPT !.saveRetry = FALSE]
  <1>1. t \in SyncTabs /\ SameTab(tab, t) /\ t.auth = tab.auth
    BY DEF SyncInv, Fits, SyncTabs, SameTab, SameShown
  <1>2. /\ tab' = Sync!Committed(t)
        /\ UNCHANGED <<cookie, live, acct, device, wire, sends, by, dropped>>
    BY DEF Sync!RetrySave
  <1> HIDE DEF t
  <1> QED BY <1>1, <1>2, RecommitKeeps

LEMMA OnlineKeeps ==
    ASSUME Sync!SyncConstants, SyncInv, Sync!Online
    PROVE  SyncInv'
  <1> DEFINE t == [tab EXCEPT !.saveRetry = FALSE, !.saveAttempt = 0]
  <1>1. t \in SyncTabs /\ SameTab(tab, t) /\ t.auth = tab.auth
    BY DEF SyncInv, Fits, SyncTabs, SameTab, SameShown
  <1>2. /\ tab' = Sync!Committed(t)
        /\ UNCHANGED <<cookie, live, acct, device, wire, sends, by, dropped>>
    BY DEF Sync!Online
  <1> HIDE DEF t
  <1> QED BY <1>1, <1>2, RecommitKeeps

-----------------------------------------------------------------------------
(* Reading the account *)

LEMMA ReadAccountKeeps ==
    ASSUME Sync!SyncConstants, SyncInv, Sync!ReadAccount
    PROVE  SyncInv'
  <1>1. /\ tab.read.pc = "sent"
        /\ UNCHANGED <<cookie, live, acct, device, wire, sends, by, dropped>>
        /\ \/ /\ tab.read.who \in live
              /\ tab' = [tab EXCEPT !.read.pc = "read", !.read.rec = acct[tab.read.who]]
           \/ tab' = [tab EXCEPT !.read.pc = "failed"]
    BY DEF Sync!ReadAccount
  <1>2. /\ tab \in SyncTabs /\ Sync!Approved(tab) /\ tab.read.who \in {tab.account, Nobody}
    BY <1>1 DEF SyncInv, Fits, Holds, TabFits, Sync!NoRead
  <1>3. \E read : /\ tab' = [tab EXCEPT !.read = read]
                  /\ read \in [pc : {"none", "sent", "read", "failed"}, who : Pair \cup {Nobody},
                               rec : Records]
                  /\ read.pc \in {"read", "failed"} /\ read.who = tab.read.who
                  /\ read.rec = tab.read.rec \/ read.rec = acct[tab.account]
                  /\ read.pc = "read" => /\ read.who = tab.account /\ read.rec = acct[tab.account]
    <2>1. CASE tab' = [tab EXCEPT !.read.pc = "failed"]
      <3> DEFINE read == [tab.read EXCEPT !.pc = "failed"]
      <3>1. tab' = [tab EXCEPT !.read = read]
        BY <1>2, <2>1 DEF SyncTabs
      <3>2. /\ read \in [pc : {"none", "sent", "read", "failed"}, who : Pair \cup {Nobody},
                         rec : Records]
            /\ read.pc = "failed" /\ read.who = tab.read.who /\ read.rec = tab.read.rec
        BY <1>2 DEF SyncTabs
      <3> HIDE DEF read
      <3> QED BY <3>1, <3>2
    <2>2. CASE /\ tab.read.who \in live
               /\ tab' = [tab EXCEPT !.read.pc = "read", !.read.rec = acct[tab.read.who]]
      <3> DEFINE read == [tab.read EXCEPT !.pc = "read", !.rec = acct[tab.read.who]]
      <3>1. tab.read.who \in Pair /\ tab.read.who # Nobody
        BY <2>2 DEF SyncInv, StoreFits, Sync!SyncConstants
      <3>2. tab.read.who = tab.account /\ acct[tab.read.who] \in Records
        BY <1>2, <3>1 DEF SyncInv, StoreFits
      <3>3. tab' = [tab EXCEPT !.read = read]
        BY <1>2, <2>2 DEF SyncTabs
      <3>4. /\ read \in [pc : {"none", "sent", "read", "failed"}, who : Pair \cup {Nobody},
                         rec : Records]
            /\ read.pc = "read" /\ read.who = tab.read.who /\ read.rec = acct[tab.read.who]
        BY <1>2, <3>2 DEF SyncTabs
      <3> HIDE DEF read
      <3> QED BY <3>2, <3>3, <3>4
    <2> QED BY <1>1, <2>1, <2>2
  <1>4. PICK read : /\ tab' = [tab EXCEPT !.read = read]
                    /\ read \in [pc : {"none", "sent", "read", "failed"}, who : Pair \cup {Nobody},
                                 rec : Records]
                    /\ read.pc \in {"read", "failed"} /\ read.who = tab.read.who
                    /\ read.rec = tab.read.rec \/ read.rec = acct[tab.account]
                    /\ read.pc = "read" => /\ read.who = tab.account /\ read.rec = acct[tab.account]
    BY <1>3
  <1> DEFINE u == [tab EXCEPT !.read = read]
  <1>5. /\ u \in SyncTabs /\ u.account = tab.account /\ u.auth = tab.auth
        /\ u.progress = tab.progress /\ u.hydrated = tab.hydrated /\ u.status = tab.status
        /\ u.lastSynchronized = tab.lastSynchronized /\ u.syncEnabled = tab.syncEnabled
        /\ u.pendingReplacement = tab.pendingReplacement
        /\ u.deviceRecordSeeded = tab.deviceRecordSeeded /\ u.hydrationDue = tab.hydrationDue
        /\ u.read = read /\ u.readRetry = tab.readRetry /\ u.made = tab.made
        /\ u.pendingWrite = tab.pendingWrite /\ u.unsyncedBuffer = tab.unsyncedBuffer
        /\ u.debounce = tab.debounce /\ u.save = tab.save
    BY <1>2, <1>4 DEF SyncTabs
  <1> HIDE DEF u
  <1>6. tab.account \in Pair /\ Owned(acct[tab.account], tab.account)
        /\ HasOld(acct[tab.account], tab.account)
    BY <1>2 DEF SyncInv, StoreFits, SyncTabs, Sync!Approved
  <1>7. Exists(acct[tab.account])
    BY <1>6 DEF Exists, Owned, Sync!SyncConstants
  <1>8. Fits(u)
    <2> USE DEF SyncInv, Fits, Holds, Sync!Approved
    <2>1. TabFits(u)
      BY <1>1, <1>2, <1>4, <1>5 DEF TabFits, Visits
    <2>2. OwnerFits(u) /\ OldFits(u)
      BY <1>2, <1>4, <1>5, <1>6, <1>7 DEF OwnerFits, OldFits
    <2>3. MadeFits(u)
      BY <1>2, <1>4, <1>5 DEF MadeFits
    <2>4. TimersFit(u) /\ StatusFits(u) /\ SavesFit(u)
      BY <1>2, <1>4, <1>5 DEF TimersFit, StatusFits, SavesFit
    <2> QED BY <1>5, <2>1, <2>2, <2>3, <2>4
  <1> QED BY <1>1, <1>4, <1>8, PutKeeps DEF u, SyncInv

LEMMA RetryReadKeeps ==
    ASSUME Sync!SyncConstants, SyncInv, Sync!RetryRead
    PROVE  SyncInv'
  <1> DEFINE u == [tab EXCEPT !.readRetry = FALSE, !.hydrationDue = TRUE]
  <1>1. /\ tab.readRetry /\ tab' = u
        /\ UNCHANGED <<cookie, live, acct, device, wire, sends, by, dropped>>
    BY DEF Sync!RetryRead
  <1>2. Sync!Approved(tab) /\ tab \in SyncTabs
    BY <1>1 DEF SyncInv, Fits, Holds, TabFits
  <1>3. /\ u \in SyncTabs /\ u.account = tab.account /\ u.auth = tab.auth
        /\ u.progress = tab.progress /\ u.hydrated = tab.hydrated /\ u.status = tab.status
        /\ u.lastSynchronized = tab.lastSynchronized /\ u.syncEnabled = tab.syncEnabled
        /\ u.pendingReplacement = tab.pendingReplacement
        /\ u.deviceRecordSeeded = tab.deviceRecordSeeded /\ u.hydrationDue
        /\ u.read = tab.read /\ ~u.readRetry /\ u.made = tab.made
        /\ u.pendingWrite = tab.pendingWrite /\ u.unsyncedBuffer = tab.unsyncedBuffer
        /\ u.debounce = tab.debounce /\ u.save = tab.save
    BY <1>2 DEF SyncTabs
  <1> HIDE DEF u
  <1>4. Fits(u)
    BY <1>2, <1>3 DEF SyncInv, Fits, Holds, Sync!Approved, TabFits, OwnerFits, OldFits, MadeFits,
                TimersFit, StatusFits, SavesFit, Visits
  <1> QED BY <1>1, <1>4, PutKeeps DEF SyncInv

LEMMA ReadSucceededFits ==
    ASSUME Sync!SyncConstants, SyncInv, tab.read.pc = "read"
    PROVE  Fits(Sync!readSucceeded(tab))
  <1> DEFINE progress == Sync!planAccountProgressHydration(tab.read.rec, tab.progress,
                                                           tab.pendingReplacement)
             s == [tab EXCEPT !.lastSynchronized = tab.read.rec, !.read = Sync!NoRead,
                              !.progress = progress, !.syncEnabled = TRUE,
                              !.readFailed = FALSE, !.hydrated = TRUE]
             v == [s EXCEPT !.status = "synced"]
  <1>1. /\ Sync!NoRead \in [pc : {"none", "sent", "read", "failed"}, who : Pair \cup {Nobody},
                            rec : Records]
        /\ Sync!NoRead.pc = "none" /\ Sync!NoRead.rec = {}
    BY DEF Sync!NoRead, Records
  <1>2. /\ tab \in SyncTabs /\ Sync!Approved(tab) /\ tab.hydrated /\ tab.read.rec \in Records
        /\ tab.progress \in Records /\ tab.deviceRecordSeeded /\ sends \in Nat
        /\ tab.pendingReplacement \in BOOLEAN
    BY DEF SyncInv, StoreFits, Fits, SyncTabs, Holds, TabFits, Sync!NoRead
  <1>3. /\ tab.pendingReplacement => progress = tab.progress
        /\ ~tab.pendingReplacement => progress = tab.read.rec \cup tab.progress
    <2>1. CASE tab.pendingReplacement
      BY <2>1 DEF Sync!planAccountProgressHydration
    <2>2. CASE ~tab.pendingReplacement
      BY <1>2, <2>2 DEF Sync!planAccountProgressHydration, Sync!hasLearningEvidence,
                        Sync!mergeLearnerProgress
    <2> QED BY <2>1, <2>2
  <1>4. Sync!readSucceeded(tab) = Sync!WithStatus(IF tab.pendingReplacement /\ tab.hydrated THEN s
                                                  ELSE Sync!Committed(s), "synced")
    BY DEF Sync!readSucceeded
  <1> HIDE DEF progress
  <1>5. progress \in Records
    BY <1>2, <1>3 DEF Records
  <1>6. /\ s \in SyncTabs /\ s.account = tab.account /\ s.auth = tab.auth
        /\ s.progress = progress /\ s.hydrated
        /\ s.lastSynchronized = tab.read.rec /\ s.syncEnabled
        /\ s.pendingReplacement = tab.pendingReplacement
        /\ s.deviceRecordSeeded = tab.deviceRecordSeeded /\ s.hydrationDue = tab.hydrationDue
        /\ s.read = Sync!NoRead /\ s.readRetry = tab.readRetry /\ s.made = tab.made
        /\ s.pendingWrite = tab.pendingWrite /\ s.unsyncedBuffer = tab.unsyncedBuffer
        /\ s.debounce = tab.debounce /\ s.save = tab.save
    <2>1. s \in SyncTabs
      BY <1>1, <1>2, <1>5 DEF SyncTabs
    <2>2. s.account = tab.account /\ s.auth = tab.auth /\ s.progress = progress
      BY <1>1, <1>2, <1>5 DEF SyncTabs
    <2>3. s.hydrated /\ s.lastSynchronized = tab.read.rec /\ s.syncEnabled
      BY <1>1, <1>2, <1>5 DEF SyncTabs
    <2>4. /\ s.pendingReplacement = tab.pendingReplacement
          /\ s.deviceRecordSeeded = tab.deviceRecordSeeded
          /\ s.hydrationDue = tab.hydrationDue
      BY <1>1, <1>2, <1>5 DEF SyncTabs
    <2>5. s.read = Sync!NoRead /\ s.readRetry = tab.readRetry /\ s.made = tab.made
      BY <1>1, <1>2, <1>5 DEF SyncTabs
    <2>6. /\ s.pendingWrite = tab.pendingWrite
          /\ s.unsyncedBuffer = tab.unsyncedBuffer
          /\ s.debounce = tab.debounce
      BY <1>1, <1>2, <1>5 DEF SyncTabs
    <2>7. s.save = tab.save
      BY <1>1, <1>2, <1>5 DEF SyncTabs
    <2> QED BY <2>1, <2>2, <2>3, <2>4, <2>5, <2>6, <2>7
  <1> HIDE DEF s
  <1>7. /\ v \in SyncTabs /\ v.account = tab.account /\ v.auth = tab.auth
        /\ v.progress = progress /\ v.hydrated /\ v.status = "synced"
        /\ v.lastSynchronized = tab.read.rec /\ v.syncEnabled
        /\ v.pendingReplacement = tab.pendingReplacement
        /\ v.deviceRecordSeeded = tab.deviceRecordSeeded /\ v.hydrationDue = tab.hydrationDue
        /\ v.read = Sync!NoRead /\ v.readRetry = tab.readRetry /\ v.made = tab.made
        /\ v.pendingWrite = tab.pendingWrite /\ v.unsyncedBuffer = tab.unsyncedBuffer
        /\ v.debounce = tab.debounce /\ v.save = tab.save
    BY <1>6 DEF SyncTabs, Sync!Statuses
  <1> HIDE DEF v
  <1>8. Holds(v) /\ StatusFits(v)
    <2> USE DEF SyncInv, Fits, Holds, Sync!Approved
    <2>1. TabFits(v)
      BY <1>1, <1>2, <1>3, <1>7 DEF TabFits, Visits
    <2>2. OwnerFits(v)
      BY <1>1, <1>2, <1>3, <1>7 DEF OwnerFits, Owned, Exists
    <2>3. OldFits(v)
      BY <1>1, <1>2, <1>3, <1>7 DEF OldFits, HasOld
    <2>4. MadeFits(v)
      BY <1>1, <1>2, <1>3, <1>7 DEF MadeFits
    <2>5. StatusFits(v)
      BY <1>7 DEF StatusFits
    <2> QED BY <2>1, <2>2, <2>3, <2>4, <2>5
  <1>9. CASE tab.pendingReplacement
    <2>1. TimersFit(v) /\ SavesFit(v)
      BY <1>2, <1>3, <1>7, <1>9 DEF SyncInv, Fits, TimersFit, SavesFit, MadeFits, Holds,
                                    Sync!Approved
    <2>2. Fits(v)
      BY <1>7, <1>8, <2>1 DEF Fits
    <2>3. Fits(Sync!WithStatus(s, "synced"))
      BY <1>2, <1>6, <2>2, WithStatusFits DEF v, SyncInv, Sync!Approved, Sync!Statuses
    <2> QED BY <1>2, <1>4, <1>9, <2>3
  <1>10. CASE ~tab.pendingReplacement
    <2> DEFINE c == Sync!Committed(s)
    <2>1. c \in SyncTabs /\ c.account = tab.account /\ Fits([c EXCEPT !.status = "synced"])
      BY <1>2, <1>6, <1>8, CommitAndStatus DEF v, Sync!Committed, Sync!Statuses
    <2> HIDE DEF c
    <2>2. Fits(Sync!WithStatus(c, "synced"))
      BY <1>2, <2>1, WithStatusFits DEF SyncInv, Sync!Approved, Sync!Statuses
    <2> QED BY <1>4, <1>10, <2>2 DEF c
  <1> QED BY <1>9, <1>10

LEMMA ReadFailedFits ==
    ASSUME Sync!SyncConstants, SyncInv, tab.read.pc # "none"
    PROVE  Fits(Sync!readFailed(tab))
  <1> DEFINE buffer == IF Sync!hasLearningEvidence(tab.progress) THEN tab.progress
                       ELSE tab.unsyncedBuffer
             s == [tab EXCEPT !.read = Sync!NoRead, !.readRetry = TRUE, !.readFailed = TRUE,
                              !.hydrated = TRUE, !.unsyncedBuffer = buffer]
             v == [s EXCEPT !.status = "error"]
             changed == \/ ~tab.hydrated
                        \/ ~Sync!hasLearningEvidence(tab.progress) /\ ~tab.readFailed
  <1>1. /\ Sync!NoRead \in [pc : {"none", "sent", "read", "failed"}, who : Pair \cup {Nobody},
                            rec : Records]
        /\ Sync!NoRead.pc = "none" /\ Sync!NoRead.rec = {}
    BY DEF Sync!NoRead, Records
  <1>2. /\ tab \in SyncTabs /\ Sync!Approved(tab) /\ tab.hydrated /\ sends \in Nat
        /\ StoreFits
    BY DEF SyncInv, StoreFits, Fits, SyncTabs, Holds, TabFits, Sync!NoRead
  <1>3. buffer \in Records \cup {None} /\ (buffer = tab.progress \/ buffer = tab.unsyncedBuffer)
    BY <1>2 DEF SyncTabs
  <1>4. Sync!readFailed(tab) = Sync!WithStatus(IF changed THEN Sync!Committed(s) ELSE s, "error")
    BY DEF Sync!readFailed
  <1> HIDE DEF buffer, changed
  <1>5. /\ s \in SyncTabs /\ s.account = tab.account /\ s.auth = tab.auth
        /\ s.progress = tab.progress /\ s.hydrated
        /\ s.lastSynchronized = tab.lastSynchronized /\ s.syncEnabled = tab.syncEnabled
        /\ s.pendingReplacement = tab.pendingReplacement
        /\ s.deviceRecordSeeded = tab.deviceRecordSeeded /\ s.hydrationDue = tab.hydrationDue
        /\ s.read = Sync!NoRead /\ s.readRetry /\ s.made = tab.made
        /\ s.pendingWrite = tab.pendingWrite /\ s.unsyncedBuffer = buffer
        /\ s.debounce = tab.debounce /\ s.save = tab.save
    <2> DEFINE s0 == [tab EXCEPT !.read = Sync!NoRead, !.readRetry = TRUE, !.readFailed = TRUE]
    <2>1. /\ s0 \in SyncTabs /\ s0.account = tab.account /\ s0.auth = tab.auth
          /\ s0.progress = tab.progress
          /\ s0.lastSynchronized = tab.lastSynchronized /\ s0.syncEnabled = tab.syncEnabled
          /\ s0.pendingReplacement = tab.pendingReplacement
          /\ s0.deviceRecordSeeded = tab.deviceRecordSeeded /\ s0.hydrationDue = tab.hydrationDue
          /\ s0.read = Sync!NoRead /\ s0.readRetry /\ s0.made = tab.made
          /\ s0.pendingWrite = tab.pendingWrite
          /\ s0.debounce = tab.debounce /\ s0.save = tab.save
      BY <1>1, <1>2 DEF SyncTabs
    <2>2. s = [s0 EXCEPT !.hydrated = TRUE, !.unsyncedBuffer = buffer]
      BY <1>2 DEF SyncTabs
    <2> HIDE DEF s, s0
    <2> QED BY <1>3, <2>1, <2>2 DEF SyncTabs
  <1> HIDE DEF s
  <1>6. /\ v \in SyncTabs /\ v.account = tab.account /\ v.auth = tab.auth
        /\ v.progress = tab.progress /\ v.hydrated /\ v.status = "error"
        /\ v.lastSynchronized = tab.lastSynchronized /\ v.syncEnabled = tab.syncEnabled
        /\ v.pendingReplacement = tab.pendingReplacement
        /\ v.deviceRecordSeeded = tab.deviceRecordSeeded /\ v.hydrationDue = tab.hydrationDue
        /\ v.read = Sync!NoRead /\ v.readRetry /\ v.made = tab.made
        /\ v.pendingWrite = tab.pendingWrite /\ v.unsyncedBuffer = buffer
        /\ v.debounce = tab.debounce /\ v.save = tab.save
    BY <1>5 DEF SyncTabs, Sync!Statuses
  <1> HIDE DEF v
  <1>7. Holds(v) /\ StatusFits(v)
    <2> USE DEF SyncInv, Fits, Holds, Sync!Approved
    <2>1. TabFits(v)
      BY <1>1, <1>2, <1>3, <1>6 DEF TabFits, Visits
    <2>2. OwnerFits(v)
      BY <1>1, <1>2, <1>3, <1>6 DEF OwnerFits, Owned, Exists
    <2>3. OldFits(v) /\ MadeFits(v) /\ StatusFits(v)
      BY <1>1, <1>2, <1>3, <1>6 DEF OldFits, MadeFits, StatusFits
    <2> QED BY <2>1, <2>2, <2>3
  <1>8. CASE changed
    <2> DEFINE c == Sync!Committed(s)
    <2>1. c \in SyncTabs /\ Fits([c EXCEPT !.status = "error"])
      BY <1>2, <1>5, <1>7, CommitAndStatus DEF v, Sync!Committed, Sync!Statuses
    <2> HIDE DEF c
    <2>2. Sync!WithStatus(c, "error") = [c EXCEPT !.status = "error"]
      BY <2>1, QuietStatus DEF Sync!Statuses
    <2> QED BY <1>4, <1>8, <2>1, <2>2 DEF c
  <1>9. CASE ~changed
    <2>1. TimersFit(v) /\ SavesFit(v)
      BY <1>2, <1>6 DEF SyncInv, Fits, TimersFit, SavesFit, Sync!Approved
    <2>2. Sync!WithStatus(s, "error") = v
      BY <1>5, QuietStatus DEF v, Sync!Statuses
    <2> QED BY <1>4, <1>6, <1>7, <1>9, <2>1, <2>2 DEF Fits
  <1> QED BY <1>8, <1>9

LEMMA AnswerReadKeeps ==
    ASSUME Sync!SyncConstants, SyncInv, Sync!AnswerRead
    PROVE  SyncInv'
  <1>1. /\ tab.read.pc \in {"read", "failed"}
        /\ UNCHANGED <<cookie, live, acct, wire, sends, by, dropped>>
        /\ \/ tab.read.pc = "read" /\ Sync!Becomes(Sync!readSucceeded(tab), {})
           \/ Sync!Becomes(Sync!readFailed(tab), device)
    BY DEF Sync!AnswerRead
  <1>2. /\ StoreFits /\ device \in Records /\ Owned(device, Nobody)
        /\ {} \in Records /\ Owned({}, Nobody)
    BY DEF SyncInv, StoreFits, Records, Owned
  <1>3. CASE tab.read.pc = "read" /\ Sync!Becomes(Sync!readSucceeded(tab), {})
    BY <1>1, <1>2, <1>3, ReadSucceededFits, BecomesFits
  <1>4. CASE Sync!Becomes(Sync!readFailed(tab), device)
    BY <1>1, <1>2, <1>4, ReadFailedFits, BecomesFits
  <1> QED BY <1>1, <1>3, <1>4

LEMMA VisitorTabFits ==
    ASSUME Sync!SyncConstants, SyncInv, ~Sync!Approved(tab)
    PROVE  Fits(Sync!visitorTab(tab, device))
  <1> DEFINE seeded == tab.deviceRecordSeeded \/ Sync!hasLearningEvidence(device)
             s0 == [tab EXCEPT !.hydrationDue = FALSE, !.progress = device, !.hydrated = TRUE,
                               !.status = "local-only", !.deviceRecordSeeded = seeded,
                               !.syncEnabled = FALSE]
             s1 == [s0 EXCEPT !.pendingReplacement = FALSE, !.pendingWrite = None,
                              !.unsyncedBuffer = None, !.lastSynchronized = None]
             s == [s1 EXCEPT !.saveAttempt = 0, !.readFailed = FALSE, !.saveRetry = FALSE]
  <1>1. Sync!visitorTab(tab, device) = Sync!syncEffect(s)
    BY DEF Sync!visitorTab, Sync!Committed
  <1>2. /\ tab \in SyncTabs /\ tab.account = Nobody /\ tab.read = Sync!NoRead /\ ~tab.readRetry
        /\ device \in Records /\ StoreFits /\ Exists(tab.made)
        /\ Sync!NoRead.pc = "none" /\ Sync!NoRead.rec = {}
        /\ \A e \in tab.made : Untouched(e)
    BY DEF SyncInv, StoreFits, Fits, Holds, TabFits, OwnerFits, MadeFits, Sync!Approved, Sync!NoRead
  <1>3. seeded \in BOOLEAN /\ (~seeded => device = {})
    BY <1>2 DEF SyncTabs, Sync!hasLearningEvidence
  <1> HIDE DEF seeded
  <1>4. /\ s0 \in SyncTabs /\ s0.account = Nobody /\ ~s0.hydrationDue /\ s0.progress = device
        /\ s0.hydrated /\ s0.status = "local-only" /\ s0.deviceRecordSeeded = seeded
        /\ ~s0.syncEnabled /\ s0.read = Sync!NoRead /\ ~s0.readRetry /\ s0.made = tab.made
        /\ s0.auth = tab.auth
    <2> DEFINE q == [tab EXCEPT !.hydrationDue = FALSE, !.progress = device, !.hydrated = TRUE]
    <2>1. /\ q \in SyncTabs /\ q.account = Nobody /\ ~q.hydrationDue /\ q.progress = device
          /\ q.hydrated /\ q.read = Sync!NoRead /\ ~q.readRetry /\ q.made = tab.made
          /\ q.auth = tab.auth
      <3>0. tab \in SyncTabs /\ device \in Records
        BY <1>2
      <3>1. q \in SyncTabs
        BY <3>0 DEF SyncTabs
      <3>2. q.account = Nobody /\ ~q.hydrationDue /\ q.progress = device
        BY <1>2 DEF SyncTabs
      <3>3. q.hydrated /\ q.read = Sync!NoRead /\ ~q.readRetry
        BY <1>2 DEF SyncTabs
      <3>4. q.made = tab.made /\ q.auth = tab.auth
        BY <1>2 DEF SyncTabs
      <3> QED BY <3>1, <3>2, <3>3, <3>4
    <2> DEFINE p == [q EXCEPT !.status = "local-only", !.syncEnabled = FALSE]
    <2>2. s0 = [p EXCEPT !.deviceRecordSeeded = seeded]
      BY <1>2 DEF SyncTabs
    <2> HIDE DEF s0, q
    <2>3. /\ p \in SyncTabs /\ p.account = Nobody /\ ~p.hydrationDue /\ p.progress = device
          /\ p.hydrated /\ p.status = "local-only" /\ ~p.syncEnabled
          /\ p.read = Sync!NoRead /\ ~p.readRetry /\ p.made = tab.made /\ p.auth = tab.auth
      <3>0. q \in SyncTabs
        BY <2>1
      <3>1. p \in SyncTabs
        BY <3>0 DEF SyncTabs, Sync!Statuses
      <3>2. p.account = Nobody /\ ~p.hydrationDue /\ p.progress = device
        BY <2>1 DEF SyncTabs, Sync!Statuses
      <3>3. p.hydrated /\ p.status = "local-only" /\ ~p.syncEnabled
        BY <2>1 DEF SyncTabs, Sync!Statuses
      <3>4. p.read = Sync!NoRead /\ ~p.readRetry /\ p.made = tab.made
        BY <2>1 DEF SyncTabs, Sync!Statuses
      <3>5. p.auth = tab.auth
        BY <2>1 DEF SyncTabs, Sync!Statuses
      <3> QED BY <3>1, <3>2, <3>3, <3>4, <3>5
    <2> HIDE DEF p
    <2> QED BY <1>3, <2>2, <2>3 DEF SyncTabs
  <1> HIDE DEF s0
  <1>5. /\ s1 \in SyncTabs /\ s1.account = Nobody /\ ~s1.hydrationDue /\ s1.progress = device
        /\ s1.hydrated /\ s1.status = "local-only" /\ s1.deviceRecordSeeded = seeded
        /\ ~s1.syncEnabled /\ s1.read = Sync!NoRead /\ ~s1.readRetry /\ s1.made = tab.made
        /\ s1.auth = tab.auth
        /\ ~s1.pendingReplacement /\ s1.pendingWrite = None /\ s1.unsyncedBuffer = None
        /\ s1.lastSynchronized = None
    BY <1>4 DEF SyncTabs
  <1> HIDE DEF s1
  <1>6. /\ s \in SyncTabs /\ s.account = Nobody /\ ~s.hydrationDue /\ s.progress = device
        /\ s.hydrated /\ s.status = "local-only" /\ s.deviceRecordSeeded = seeded
        /\ ~s.syncEnabled /\ s.read = Sync!NoRead /\ ~s.readRetry /\ s.made = tab.made
        /\ s.auth = tab.auth
        /\ ~s.pendingReplacement /\ s.pendingWrite = None /\ s.unsyncedBuffer = None
        /\ s.lastSynchronized = None
    BY <1>5 DEF SyncTabs
  <1> HIDE DEF s
  <1>7. Exists(device) /\ Owned(device, Nobody)
    BY <1>2 DEF StoreFits, Exists, Owned, Sync!SyncConstants
  <1> USE DEF Sync!Approved
  <1>8. TabFits(s)
    BY <1>2, <1>6 DEF TabFits, Visits
  <1>9. OwnerFits(s)
    BY <1>2, <1>6, <1>7 DEF OwnerFits, Exists
  <1>10. OldFits(s) /\ MadeFits(s) /\ StatusFits(s)
    BY <1>2, <1>3, <1>6 DEF OldFits, MadeFits, StatusFits
  <1> QED BY <1>1, <1>2, <1>6, <1>8, <1>9, <1>10, SyncEffect, CommitFits DEF Holds, StoreFits

LEMMA LearnerTabFits ==
    ASSUME Sync!SyncConstants, SyncInv, Sync!Approved(tab)
    PROVE  Fits(Sync!learnerTab(tab, device))
  <1> DEFINE seeds == ~tab.deviceRecordSeeded /\ Sync!hasLearningEvidence(device)
             read == [pc |-> "sent", who |-> cookie, rec |-> {}]
             progress == IF seeds THEN device ELSE tab.progress
             s == [tab EXCEPT !.hydrationDue = FALSE, !.deviceRecordSeeded = TRUE,
                              !.progress = progress, !.read = read]
             v == [s EXCEPT !.status = "checking"]
  <1>1. Sync!learnerTab(tab, device) =
          Sync!WithStatus(IF seeds THEN Sync!Committed(s) ELSE s, "checking")
    BY DEF Sync!learnerTab
  <1>2. /\ tab \in SyncTabs /\ StoreFits /\ tab.hydrated /\ device \in Records
        /\ cookie \in {tab.account, Nobody} /\ sends \in Nat
    BY DEF SyncInv, StoreFits, Fits, Holds, TabFits, OwnerFits
  <1>3. /\ read \in [pc : {"none", "sent", "read", "failed"}, who : Pair \cup {Nobody},
                     rec : Records]
        /\ read.pc = "sent" /\ read.who \in {tab.account, Nobody} /\ read.rec = {}
    BY <1>2 DEF StoreFits, Records
  <1>4. /\ progress \in Records
        /\ seeds => progress = device /\ device # {} /\ ~tab.deviceRecordSeeded
        /\ ~seeds => progress = tab.progress
    BY <1>2 DEF SyncTabs, Sync!hasLearningEvidence
  <1> HIDE DEF seeds, read, progress
  <1>5. /\ s \in SyncTabs /\ s.account = tab.account /\ s.auth = tab.auth
        /\ s.progress = progress /\ s.hydrated = tab.hydrated
        /\ s.lastSynchronized = tab.lastSynchronized /\ s.syncEnabled = tab.syncEnabled
        /\ s.pendingReplacement = tab.pendingReplacement
        /\ s.deviceRecordSeeded /\ ~s.hydrationDue
        /\ s.read = read /\ s.readRetry = tab.readRetry /\ s.made = tab.made
        /\ s.pendingWrite = tab.pendingWrite /\ s.unsyncedBuffer = tab.unsyncedBuffer
        /\ s.debounce = tab.debounce /\ s.save = tab.save
    <2>1. s \in SyncTabs
      BY <1>2, <1>3, <1>4 DEF SyncTabs
    <2>2. s.account = tab.account /\ s.auth = tab.auth /\ s.progress = progress
      BY <1>2, <1>3, <1>4 DEF SyncTabs
    <2>3. /\ s.hydrated = tab.hydrated
          /\ s.lastSynchronized = tab.lastSynchronized
          /\ s.syncEnabled = tab.syncEnabled
      BY <1>2, <1>3, <1>4 DEF SyncTabs
    <2>4. /\ s.pendingReplacement = tab.pendingReplacement
          /\ s.deviceRecordSeeded
          /\ ~s.hydrationDue
      BY <1>2, <1>3, <1>4 DEF SyncTabs
    <2>5. s.read = read /\ s.readRetry = tab.readRetry /\ s.made = tab.made
      BY <1>2, <1>3, <1>4 DEF SyncTabs
    <2>6. /\ s.pendingWrite = tab.pendingWrite
          /\ s.unsyncedBuffer = tab.unsyncedBuffer
          /\ s.debounce = tab.debounce
      BY <1>2, <1>3, <1>4 DEF SyncTabs
    <2>7. s.save = tab.save
      BY <1>2, <1>3, <1>4 DEF SyncTabs
    <2> QED BY <2>1, <2>2, <2>3, <2>4, <2>5, <2>6, <2>7
  <1> HIDE DEF s
  <1>6. /\ v \in SyncTabs /\ v.account = tab.account /\ v.auth = tab.auth
        /\ v.progress = progress /\ v.hydrated /\ v.status = "checking"
        /\ v.lastSynchronized = tab.lastSynchronized /\ v.syncEnabled = tab.syncEnabled
        /\ v.pendingReplacement = tab.pendingReplacement
        /\ v.deviceRecordSeeded /\ ~v.hydrationDue
        /\ v.read = read /\ v.readRetry = tab.readRetry /\ v.made = tab.made
        /\ v.pendingWrite = tab.pendingWrite /\ v.unsyncedBuffer = tab.unsyncedBuffer
        /\ v.debounce = tab.debounce /\ v.save = tab.save
    <2>1. v \in SyncTabs
      BY <1>2, <1>5 DEF SyncTabs, Sync!Statuses
    <2>2. v.account = tab.account /\ v.auth = tab.auth /\ v.progress = progress
      BY <1>2, <1>5 DEF SyncTabs, Sync!Statuses
    <2>3. v.hydrated /\ v.status = "checking" /\ v.lastSynchronized = tab.lastSynchronized
      BY <1>2, <1>5 DEF SyncTabs, Sync!Statuses
    <2>4. /\ v.syncEnabled = tab.syncEnabled
          /\ v.pendingReplacement = tab.pendingReplacement
          /\ v.deviceRecordSeeded
      BY <1>2, <1>5 DEF SyncTabs, Sync!Statuses
    <2>5. ~v.hydrationDue /\ v.read = read /\ v.readRetry = tab.readRetry
      BY <1>2, <1>5 DEF SyncTabs, Sync!Statuses
    <2>6. /\ v.made = tab.made
          /\ v.pendingWrite = tab.pendingWrite
          /\ v.unsyncedBuffer = tab.unsyncedBuffer
      BY <1>2, <1>5 DEF SyncTabs, Sync!Statuses
    <2>7. v.debounce = tab.debounce /\ v.save = tab.save
      BY <1>2, <1>5 DEF SyncTabs, Sync!Statuses
    <2> QED BY <2>1, <2>2, <2>3, <2>4, <2>5, <2>6, <2>7
  <1> HIDE DEF v
  <1>7. CASE ~seeds
    <2> USE DEF SyncInv, Fits, Holds, Sync!Approved
    <2>1. TabFits(v)
      BY <1>2, <1>3, <1>4, <1>6, <1>7 DEF TabFits, Visits
    <2>2. OwnerFits(v)
      BY <1>2, <1>3, <1>4, <1>6, <1>7 DEF OwnerFits, Owned, Exists
    <2>3. OldFits(v) /\ MadeFits(v)
      BY <1>2, <1>3, <1>4, <1>6, <1>7 DEF OldFits, MadeFits
    <2>4. TimersFit(v) /\ StatusFits(v) /\ SavesFit(v)
      BY <1>2, <1>3, <1>4, <1>6, <1>7 DEF TimersFit, StatusFits, SavesFit
    <2>5. Sync!WithStatus(s, "checking") = v
      BY <1>5, QuietStatus DEF v, Sync!Statuses
    <2> QED BY <1>1, <1>6, <1>7, <2>1, <2>2, <2>3, <2>4, <2>5
  <1>8. CASE seeds
    <2> DEFINE c == Sync!Committed(s)
               w == [c EXCEPT !.status = "checking"]
               u == [v EXCEPT !.unsyncedBuffer = device]
    <2>1. SyncsTo(s, c)
      BY <1>5, SyncEffect DEF Sync!Committed
    <2>2. Sync!WithStatus(c, "checking") = w
      BY <2>1, QuietStatus DEF SyncsTo, Sync!Statuses
    <2>3. ~tab.syncEnabled /\ tab.pendingWrite = None /\ tab.lastSynchronized = None
      BY <1>4, <1>8 DEF SyncInv, Fits, Holds, TabFits
    <2> HIDE DEF c
    <2>4. c.unsyncedBuffer = device
      BY <1>2, <1>4, <1>5, <1>8, <2>1, <2>3 DEF SyncsTo, Sync!Approved
    <2>5. /\ u \in SyncTabs /\ u.account = tab.account /\ u.auth = tab.auth
          /\ u.progress = device /\ u.hydrated /\ u.status = "checking"
          /\ u.lastSynchronized = None /\ ~u.syncEnabled
          /\ u.pendingReplacement = tab.pendingReplacement
          /\ u.deviceRecordSeeded /\ ~u.hydrationDue
          /\ u.read = read /\ u.readRetry = tab.readRetry /\ u.made = tab.made
          /\ u.pendingWrite = None /\ u.unsyncedBuffer = device
      BY <1>2, <1>4, <1>6, <1>8, <2>3 DEF SyncTabs
    <2>6. /\ w \in SyncTabs /\ w.status = "checking" /\ w.account = c.account /\ w.auth = c.auth
          /\ w.progress = c.progress
          /\ w.hydrated = c.hydrated /\ w.lastSynchronized = c.lastSynchronized
          /\ w.syncEnabled = c.syncEnabled /\ w.pendingReplacement = c.pendingReplacement
          /\ w.deviceRecordSeeded = c.deviceRecordSeeded /\ w.hydrationDue = c.hydrationDue
          /\ w.read = c.read /\ w.readRetry = c.readRetry /\ w.made = c.made
          /\ w.pendingWrite = c.pendingWrite /\ w.unsyncedBuffer = c.unsyncedBuffer
          /\ w.debounce = c.debounce /\ w.save = c.save
      BY <2>1 DEF SyncTabs, SyncsTo, Sync!Statuses
    <2> HIDE DEF u, w
    <2>7. SyncsTo(u, w)
      <3>1. /\ {s.hydrated, s.syncEnabled, s.deviceRecordSeeded, s.hydrationDue} \subseteq BOOLEAN
            /\ {u.hydrated, u.syncEnabled, u.deviceRecordSeeded, u.hydrationDue} \subseteq BOOLEAN
        BY <1>5, <2>5 DEF SyncTabs
      <3>2. SameShown(u, w) /\ w.auth = u.auth
        BY <1>2, <1>4, <1>5, <1>8, <2>1, <2>3, <2>5, <2>6, <3>1 DEF SyncsTo, SameShown
      <3>3. /\ w.save = Sync!NoSave /\ ~w.debounce /\ ~u.syncEnabled
            /\ w.pendingWrite = u.pendingWrite /\ w.unsyncedBuffer = u.progress
        BY <1>5, <2>1, <2>3, <2>4, <2>5, <2>6 DEF SyncsTo, Writable
      <3> QED BY <2>5, <2>6, <3>2, <3>3 DEF SyncsTo, Writable, Sync!Approved
    <2>8. Exists(device) /\ Owned(device, Nobody)
      BY <1>2 DEF StoreFits, Exists, Owned, Sync!SyncConstants
    <2> USE DEF Sync!Approved
    <2>9. TabFits(u) /\ StatusFits(u)
      BY <1>2, <1>3, <2>5 DEF TabFits, StatusFits, Visits, SyncInv, Fits, Holds
    <2>10. OwnerFits(u)
      BY <1>2, <1>3, <2>5, <2>8 DEF OwnerFits, Owned, Exists, SyncInv, Fits, Holds
    <2>11. OldFits(u)
      <3>1. tab.pendingReplacement => HasOld(device, tab.account)
        BY <1>2, <1>4, <1>8 DEF OldFits, HasOld, SyncInv, Fits, Holds, SyncTabs
      <3> QED BY <1>2, <1>3, <2>5, <3>1 DEF OldFits
    <2>12. MadeFits(u)
      BY <1>2, <1>3, <2>3, <2>5 DEF MadeFits, SyncInv, Fits, Holds
    <2>13. Fits(w)
      BY <1>2, <2>5, <2>7, <2>9, <2>10, <2>11, <2>12, CommitFits DEF Holds
    <2> QED BY <1>1, <1>8, <2>2, <2>13 DEF c
  <1> QED BY <1>7, <1>8

LEMMA HydrateKeeps ==
    ASSUME Sync!SyncConstants, SyncInv, Sync!Hydrate
    PROVE  SyncInv'
  <1>1. /\ UNCHANGED <<cookie, live, acct, wire, sends, by, dropped>>
        /\ Sync!Becomes(IF Sync!Approved(tab) THEN Sync!learnerTab(tab, device)
                        ELSE Sync!visitorTab(tab, device), device)
    BY DEF Sync!Hydrate
  <1>2. StoreFits /\ device \in Records /\ Owned(device, Nobody)
    BY DEF SyncInv, StoreFits
  <1>3. CASE Sync!Approved(tab)
    BY <1>1, <1>2, <1>3, LearnerTabFits, BecomesFits
  <1>4. CASE ~Sync!Approved(tab)
    BY <1>1, <1>2, <1>4, VisitorTabFits, BecomesFits
  <1> QED BY <1>3, <1>4

-----------------------------------------------------------------------------
(* What the learner does *)

LEMMA TabIs == \A u : tab = u /\ Fits(u) => Fits(tab)
  OBVIOUS

LEMMA TabIsNext == (\A u : tab = u /\ Fits(u) => Fits(tab))'
  BY TabIs, PTL

\* A change of the record that also changes what is said of the evidence.
LEMMA ChangeFits ==
    ASSUME Sync!SyncConstants, NEW t \in SyncTabs, Holds(t)', StatusFits(t)', sends' \in Nat,
           NEW stored \in Records, Owned(stored, Nobody)',
           (device \in Records /\ Owned(device, Nobody) => StoreFits)',
           Sync!Becomes(Sync!Committed(t), stored)
    PROVE  SyncInv'
  <1>1. PICK u : u = Sync!syncEffect(t)
    OBVIOUS
  <1>2. tab' = u /\ device' = IF Sync!writesDevice(u) THEN u.progress ELSE stored
    BY <1>1 DEF Sync!Becomes, Sync!Committed
  <1>3. Fits(u)'
    BY <1>1, CommitFitsNext
  <1>4. Fits(tab)'
    BY <1>2, <1>3, TabIsNext
  <1>5. device' \in Records /\ Owned(device, Nobody)'
    BY <1>2, <1>3 DEF Fits, SyncTabs, Holds, OwnerFits, Owned, Sync!writesDevice, Sync!Approved
  <1> QED BY <1>4, <1>5 DEF SyncInv

LEMMA WorkKeeps ==
    ASSUME Sync!SyncConstants, SyncInv, NEW e \in Sync!Evidence, Sync!Work(e)
    PROVE  SyncInv'
  <1>1. PICK t : t = [tab EXCEPT !.progress = tab.progress \cup {e}, !.made = tab.made \cup {e}]
    OBVIOUS
  <1>0. PICK stored : stored = device
    OBVIOUS
  <1>2. /\ by[e] = None /\ by' = [by EXCEPT ![e] = tab.account]
        /\ Sync!Becomes(Sync!Committed(t), stored)
        /\ UNCHANGED <<cookie, live, acct, wire, sends, dropped>>
    BY <1>0, <1>1 DEF Sync!Work
  <1>3. /\ StoreFits /\ tab \in SyncTabs /\ Holds(tab) /\ StatusFits(tab)
        /\ tab.account \in Pair \cup {Nobody} /\ by \in [Sync!Evidence -> Pair \cup {Nobody, None}]
    BY DEF SyncInv, StoreFits, Fits, SyncTabs
  <1>4. /\ t \in SyncTabs /\ t.account = tab.account /\ t.auth = tab.auth
        /\ t.progress = tab.progress \cup {e} /\ t.hydrated = tab.hydrated
        /\ t.status = tab.status
        /\ t.lastSynchronized = tab.lastSynchronized /\ t.syncEnabled = tab.syncEnabled
        /\ t.pendingReplacement = tab.pendingReplacement
        /\ t.deviceRecordSeeded = tab.deviceRecordSeeded /\ t.hydrationDue = tab.hydrationDue
        /\ t.read = tab.read /\ t.readRetry = tab.readRetry /\ t.made = tab.made \cup {e}
        /\ t.pendingWrite = tab.pendingWrite /\ t.unsyncedBuffer = tab.unsyncedBuffer
    BY <1>1, <1>3 DEF SyncTabs, Records
  <1>5. /\ by'[e] = tab.account /\ by'[e] # None
        /\ \A f \in Sync!Evidence : by[f] # None => by'[f] = by[f] /\ f # e
    BY <1>2, <1>3 DEF Sync!SyncConstants
  <1>6. \A rec \in Records : Exists(rec) =>
           /\ e \notin rec /\ Exists(rec)'
           /\ \A who : Owned(rec, who) => Owned(rec, who)'
    BY <1>5 DEF Exists, Owned, Records
  <1>7. \A rec \in Records, who \in Pair \cup {Nobody} : Owned(rec, who) => Exists(rec)
    BY DEF Exists, Owned, Sync!SyncConstants
  <1>8. /\ \A l \in Pair : acct[l] \in Records /\ Exists(acct[l])
        /\ \A m \in wire : m.rec \in Records /\ Exists(m.rec)
        /\ device \in Records /\ Exists(device)
    BY <1>3, <1>7 DEF StoreFits, Saves
  <1>9. \A l \in Pair : Sync!Old(l) # e /\ by'[Sync!Old(l)] = l
    <2>1. \A l \in Pair : Sync!Old(l) \in Sync!Evidence
      BY DEF Sync!Evidence
    <2> QED BY <1>3, <1>5, <2>1 DEF StoreFits, Sync!SyncConstants
  <1>10. (device \in Records /\ Owned(device, Nobody) => StoreFits)'
    <2>1. by' \in [Sync!Evidence -> Pair \cup {Nobody, None}]
      BY <1>2, <1>3
    <2>2. \A l \in Pair : Owned(acct[l], l)' /\ HasOld(acct[l], l)'
      <3> TAKE l \in Pair
      <3>1. PICK rec : rec = acct[l]
        OBVIOUS
      <3>2. Owned(rec, l)'
        BY <1>3, <1>6, <1>8, <3>1 DEF StoreFits
      <3> QED BY <1>2, <1>3, <3>1, <3>2 DEF StoreFits, HasOld, Owned
    <2>3. \A m \in wire : Exists(m.rec)' /\ (m.who # Nobody => Owned(m.rec, m.who)')
      BY <1>3, <1>6, <1>8 DEF StoreFits
    <2> QED BY <1>2, <1>3, <1>9, <2>1, <2>2, <2>3
           DEF StoreFits, HasOld
  <1>11. /\ tab.progress \in Records /\ Exists(tab.progress)
         /\ tab.made \in Records /\ Exists(tab.made)
         /\ tab.read.rec \in Records /\ Exists(tab.read.rec)
         /\ tab.unsyncedBuffer # None =>
               tab.unsyncedBuffer \in Records /\ Exists(tab.unsyncedBuffer)
         /\ tab.lastSynchronized # None =>
               tab.lastSynchronized \in Records /\ Exists(tab.lastSynchronized)
         /\ tab.pendingWrite # None => tab.pendingWrite \in Records /\ Exists(tab.pendingWrite)
    BY <1>3 DEF Holds, OwnerFits, SyncTabs
  <1> USE DEF Sync!Approved
  <1>12. TabFits(t)' /\ StatusFits(t)'
    BY <1>3, <1>4 DEF TabFits, StatusFits, Holds, Visits
  <1>13. OwnerFits(t)'
    <2>1. Exists(t.progress)' /\ Exists(t.made)'
      BY <1>4, <1>5, <1>6, <1>11 DEF Exists
    <2>2. \A who : Owned(tab.progress, who) /\ tab.account \in {who, Nobody}
                      => Owned(t.progress, who)'
      BY <1>4, <1>5, <1>6, <1>11 DEF Owned
    <2> QED BY <1>2, <1>3, <1>4, <1>6, <1>11, <2>1, <2>2 DEF OwnerFits, Holds
  <1>14. OldFits(t)'
    BY <1>2, <1>3, <1>4, <1>9 DEF OldFits, HasOld, Holds
  <1>15. MadeFits(t)'
    <2>1. /\ Untouched(e) /\ e \notin tab.read.rec
          /\ tab.pendingWrite # None => e \notin tab.pendingWrite
          /\ tab.lastSynchronized # None => e \notin tab.lastSynchronized
      BY <1>6, <1>8, <1>11 DEF Untouched
    <2> QED BY <1>2, <1>3, <1>4, <2>1 DEF MadeFits, Holds, Untouched, Kept
  <1>16. stored \in Records /\ Owned(stored, Nobody)' /\ sends' \in Nat
    BY <1>0, <1>2, <1>3, <1>6, <1>8 DEF StoreFits
  <1> QED BY <1>2, <1>4, <1>10, <1>12, <1>13, <1>14, <1>15, <1>16, ChangeFits DEF Holds

\* An import or a reset: what the learner takes out is noted, and the rest is written.
LEMMA ReplacementKeeps ==
    ASSUME Sync!SyncConstants, SyncInv, NEW keep, keep \subseteq tab.progress,
           keep # tab.progress, Sync!Drop(keep), NEW stored \in Records, Owned(stored, Nobody),
           Sync!Becomes(Sync!Replaced(tab, keep), stored),
           UNCHANGED <<cookie, live, acct, wire, sends, by>>
    PROVE  SyncInv'
  <1>1. PICK t : t = IF Sync!Approved(tab)
                     THEN [tab EXCEPT !.pendingReplacement = TRUE, !.lastSynchronized = None,
                                      !.progress = keep]
                     ELSE [tab EXCEPT !.progress = keep]
    OBVIOUS
  <1>2. Sync!Becomes(Sync!Committed(t), stored)
    BY <1>1 DEF Sync!Replaced
  <1>3. /\ StoreFits /\ tab \in SyncTabs /\ Holds(tab) /\ StatusFits(tab)
        /\ tab.account \in Pair \cup {Nobody} /\ keep \in Records
        /\ dropped \in [Pair -> Records] /\ acct \in [Pair -> Records]
    BY DEF SyncInv, StoreFits, Fits, SyncTabs, Records
  <1>4. /\ t \in SyncTabs /\ t.account = tab.account /\ t.auth = tab.auth
        /\ t.progress = keep /\ t.hydrated = tab.hydrated
        /\ t.status = tab.status /\ t.syncEnabled = tab.syncEnabled
        /\ Sync!Approved(tab) => t.pendingReplacement /\ t.lastSynchronized = None
        /\ ~Sync!Approved(tab) => /\ t.pendingReplacement = tab.pendingReplacement
                                  /\ t.lastSynchronized = tab.lastSynchronized
        /\ t.deviceRecordSeeded = tab.deviceRecordSeeded /\ t.hydrationDue = tab.hydrationDue
        /\ t.read = tab.read /\ t.readRetry = tab.readRetry /\ t.made = tab.made
        /\ t.pendingWrite = tab.pendingWrite /\ t.unsyncedBuffer = tab.unsyncedBuffer
    BY ZenonT(40), <1>1, <1>3 DEF SyncTabs
  <1>5. /\ dropped' \in [Pair -> Records]
        /\ \A l \in Pair : dropped[l] \subseteq dropped'[l]
        /\ Sync!Approved(tab) =>
              /\ dropped'[tab.account] # {}
              /\ (tab.progress \cup acct[tab.account]) \ keep \subseteq dropped'[tab.account]
    <2>1. CASE ~Sync!Approved(tab)
      BY <1>3, <2>1 DEF Sync!Drop
    <2>2. CASE Sync!Approved(tab)
      <3>1. tab.account \in Pair
        BY <1>3, <2>2 DEF Sync!Approved
      <3>2. dropped' = [dropped EXCEPT ![tab.account] =
                          @ \cup ((tab.progress \cup acct[tab.account]) \ keep)]
        BY <2>2 DEF Sync!Drop
      <3>3. (tab.progress \cup acct[tab.account]) \ keep \in Records
        BY <1>3, <3>1 DEF SyncTabs, Records
      <3>4. PICK x : x \in tab.progress \ keep
        OBVIOUS
      <3> QED BY <1>3, <3>1, <3>2, <3>3, <3>4 DEF Records
    <2> QED BY <2>1, <2>2
  <1>6. \A rec, l : l \in Pair /\ HasOld(rec, l) => HasOld(rec, l)'
    BY <1>5 DEF HasOld
  <1>7. (device \in Records /\ Owned(device, Nobody) => StoreFits)'
    <2>1. \A l \in Pair : HasOld(acct[l], l)'
      BY <1>3, <1>5 DEF StoreFits, HasOld
    <2>2. \A m \in wire : m.who # Nobody => HasOld(m.rec, m.who)'
      BY <1>3, <1>6 DEF StoreFits, Saves
    <2> QED BY <1>3, <1>5, <2>1, <2>2 DEF StoreFits, Owned, Exists, HasOld
  <1> USE DEF Sync!Approved
  <1>8. TabFits(t)' /\ StatusFits(t)'
    BY <1>3, <1>4 DEF TabFits, StatusFits, Holds, Visits
  <1>9. OwnerFits(t)'
    BY <1>3, <1>4 DEF OwnerFits, Holds, Owned, Exists
  <1>10. OldFits(t)'
    <2>1. Sync!Approved(t) => HasOld(t.progress, t.account)'
      BY <1>3, <1>4, <1>5 DEF StoreFits, HasOld
    <2>2. cookie # Nobody /\ t.pendingWrite # None => HasOld(t.pendingWrite, cookie)'
      BY <1>3, <1>4, <1>6 DEF OldFits, Holds, StoreFits
    <2>3. t.read.pc = "read" => HasOld(t.read.rec, t.account)'
      BY <1>3, <1>4, <1>6 DEF OldFits, Holds, TabFits, Sync!NoRead
    <2> QED BY <1>3, <1>4, <2>1, <2>2, <2>3 DEF OldFits, Holds, TabFits, Visits
  <1>11. MadeFits(t)'
    BY <1>3, <1>4, <1>5 DEF MadeFits, Holds, Untouched
  <1>12. Owned(stored, Nobody)' /\ sends' \in Nat
    BY <1>3 DEF Owned, StoreFits
  <1> QED BY <1>2, <1>4, <1>7, <1>8, <1>9, <1>10, <1>11, <1>12, ChangeFits DEF Holds

LEMMA ReplaceProgressKeeps ==
    ASSUME Sync!SyncConstants, SyncInv, NEW keep, Sync!replaceProgress(keep)
    PROVE  SyncInv'
  <1>1. PICK stored : stored = device
    OBVIOUS
  <1>2. /\ keep # tab.progress /\ keep \subseteq tab.progress /\ Sync!Drop(keep)
        /\ Sync!Becomes(Sync!Replaced(tab, keep), stored)
        /\ UNCHANGED <<cookie, live, acct, wire, sends, by>>
    BY <1>1 DEF Sync!replaceProgress
  <1>3. stored \in Records /\ Owned(stored, Nobody)
    BY <1>1 DEF SyncInv, StoreFits
  <1> QED BY <1>2, <1>3, ReplacementKeeps

LEMMA ResetKeeps ==
    ASSUME Sync!SyncConstants, SyncInv, Sync!reset
    PROVE  SyncInv'
  <1>1. /\ tab.progress # {} /\ Sync!Drop({}) /\ Sync!Becomes(Sync!Replaced(tab, {}), {})
        /\ UNCHANGED <<cookie, live, acct, wire, sends, by>>
    BY DEF Sync!reset
  <1>2. {} \in Records /\ Owned({}, Nobody)
    BY DEF Records, Owned
  <1> QED BY <1>1, <1>2, ReplacementKeeps

-----------------------------------------------------------------------------
(* The invariant, and what it promises *)

LEMMA SyncInvInit == Sync!SyncConstants /\ Sync!Init => SyncInv
  <1> SUFFICES ASSUME Sync!SyncConstants, Sync!Init PROVE SyncInv
    OBVIOUS
  <1>1. /\ cookie \in Pair \cup {Nobody} /\ live = {cookie} \ {Nobody}
        /\ acct = [l \in Pair |-> {Sync!Old(l)}] /\ device = {} /\ tab = Sync!FreshTab
        /\ wire = {} /\ sends = 0 /\ dropped = [l \in Pair |-> {}]
        /\ by = [e \in Sync!Evidence |-> IF \E l \in Pair : e = Sync!Old(l) THEN e[1] ELSE None]
    BY DEF Sync!Init
  <1>2. \A l \in Pair : Sync!Old(l) \in Sync!Evidence /\ Sync!Old(l)[1] = l
    BY DEF Sync!Old, Sync!Evidence
  <1>3. \A l \in Pair : by[Sync!Old(l)] = l
    BY <1>1, <1>2
  <1>4. by \in [Sync!Evidence -> Pair \cup {Nobody, None}]
    BY <1>1, <1>2
  <1>5. StoreFits
    <2>1. \A l \in Pair : acct[l] = {Sync!Old(l)} /\ Owned(acct[l], l) /\ HasOld(acct[l], l)
      BY <1>1, <1>3 DEF Owned, HasOld
    <2>2. acct \in [Pair -> Records] /\ dropped \in [Pair -> Records] /\ device \in Records
      BY <1>1, <1>2 DEF Records
    <2>3. wire = {} /\ wire \subseteq Saves /\ Owned(device, Nobody) /\ live \subseteq Pair
      BY <1>1 DEF Owned
    <2> QED BY <1>1, <1>3, <1>4, <2>1, <2>2, <2>3 DEF StoreFits
  <1>6. /\ tab \in SyncTabs /\ tab.account = Nobody /\ tab.auth = "loading"
        /\ tab.progress = {} /\ tab.made = {} /\ tab.status = "local-only"
        /\ tab.lastSynchronized = None /\ ~tab.syncEnabled /\ tab.unsyncedBuffer = None
        /\ tab.pendingWrite = None /\ ~tab.pendingReplacement /\ ~tab.deviceRecordSeeded
        /\ tab.hydrationDue /\ tab.read = Sync!NoRead /\ ~tab.readRetry /\ ~tab.debounce
        /\ tab.save = Sync!NoSave
    BY <1>1 DEF Sync!FreshTab, SyncTabs, Records, Sync!NoRead, Sync!NoSave, Sync!Statuses
  <1>7. /\ Sync!NoRead.pc = "none" /\ Sync!NoRead.rec = {}
        /\ Sync!NoSave.pc = "none" /\ Sync!NoSave.id = 0
    BY DEF Sync!NoRead, Sync!NoSave
  <1> USE DEF Sync!Approved
  <1>8. TabFits(tab) /\ OldFits(tab) /\ MadeFits(tab)
    BY <1>6, <1>7 DEF TabFits, OldFits, MadeFits
  <1>9. OwnerFits(tab)
    BY <1>6, <1>7 DEF OwnerFits, Owned, Exists
  <1>10. TimersFit(tab) /\ StatusFits(tab) /\ SavesFit(tab)
    BY <1>1, <1>6, <1>7 DEF TimersFit, StatusFits, SavesFit
  <1> QED BY <1>5, <1>6, <1>8, <1>9, <1>10 DEF SyncInv, Fits, Holds

LEMMA SyncInvNext ==
    ASSUME Sync!SyncConstants, SyncInv, Sync!Next
    PROVE  SyncInv'
  <1>1. CASE Sync!loadAccount
    BY <1>1, LoadAccountKeeps
  <1>2. CASE Sync!signOut
    BY <1>2, SignOutKeeps
  <1>3. CASE Sync!signedOut
    BY <1>3, SignedOutKeeps
  <1>4. CASE Sync!SessionEnds
    BY <1>4, SessionEndsKeeps
  <1>5. ASSUME NEW who \in Pair \cup {Nobody},
               Sync!refreshAccount(who) \/ Sync!OtherTab(who) \/ Sync!Leave(who)
        PROVE  SyncInv'
    BY <1>5, RefreshAccountKeeps, OtherTabKeeps, LeaveKeeps
  <1>6. CASE Sync!Hide \/ Sync!sendProgress
    BY <1>6, HideKeeps, SendProgressKeeps
  <1>7. CASE Sync!AnswerSave \/ Sync!RetrySave \/ Sync!Online
    BY <1>7, AnswerSaveKeeps, RetrySaveKeeps, OnlineKeeps
  <1>8. ASSUME NEW m \in wire, Sync!AcceptSave(m) \/ Sync!RefuseSave(m) \/ Sync!LoseSave(m)
        PROVE  SyncInv'
    BY <1>8, AcceptSaveKeeps, RefuseSaveKeeps, LoseSaveKeeps
  <1>9. CASE Sync!Hydrate \/ Sync!ReadAccount
    BY <1>9, HydrateKeeps, ReadAccountKeeps
  <1>10. CASE Sync!AnswerRead \/ Sync!RetryRead
    BY <1>10, AnswerReadKeeps, RetryReadKeeps
  <1>11. ASSUME NEW e \in Sync!Evidence, Sync!Work(e)
         PROVE  SyncInv'
    BY <1>11, WorkKeeps
  <1>12. ASSUME NEW keep \in SUBSET tab.progress, Sync!replaceProgress(keep)
         PROVE  SyncInv'
    BY <1>12, ReplaceProgressKeeps
  <1>13. CASE Sync!reset
    BY <1>13, ResetKeeps
  <1> QED BY <1>1, <1>2, <1>3, <1>4, <1>5, <1>6, <1>7, <1>8, <1>9, <1>10, <1>11, <1>12, <1>13
          DEF Sync!Next

\* Nothing crosses and no history is lost by what is said of the stores.  A quiet tab without
\* an error shows what it takes for synchronized, and of what was made in it the account has that.
LEMMA SyncPromises ==
    ASSUME Sync!SyncConstants, SyncInv
    PROVE  /\ Sync!ProgressTypeOK /\ Sync!NothingCrosses
           /\ Sync!HistoryIsNotOverwritten /\ Sync!QuietIsSaved
  <1>1. Sync!ProgressTypeOK
    BY DEF SyncInv, StoreFits, Fits, SyncTabs, Records, Saves, Sync!ProgressTypeOK
  <1>2. Sync!NothingCrosses
    BY DEF SyncInv, StoreFits, Owned, Sync!NothingCrosses
  <1>3. Sync!HistoryIsNotOverwritten
    BY DEF SyncInv, StoreFits, HasOld, Sync!HistoryIsNotOverwritten
  <1>4. Sync!QuietIsSaved
    <2> SUFFICES ASSUME Sync!Quiet, Sync!Approved(tab), tab.status # "error",
                        dropped[tab.account] = {}
                 PROVE  tab.progress \cap tab.made \subseteq acct[tab.account]
      BY DEF Sync!QuietIsSaved
    <2>1. ~tab.debounce /\ tab.save.pc = "none" /\ ~tab.hydrationDue /\ tab.read.pc = "none"
      BY DEF Sync!Quiet
    <2>2. tab.status \in {"synced", "syncing"}
      BY <2>1 DEF SyncInv, Fits, SyncTabs, StatusFits, Sync!Statuses
    <2>3. ~tab.pendingReplacement
      BY DEF SyncInv, Fits, Holds, MadeFits
    <2>4. tab.progress = tab.lastSynchronized
      BY <2>1, <2>2, <2>3 DEF SyncInv, Fits, SavesFit
    <2>5. tab.lastSynchronized # None
      BY <2>4 DEF SyncInv, Fits, SyncTabs, Records, Sync!SyncConstants
    <2> QED BY <2>4, <2>5 DEF SyncInv, Fits, Holds, MadeFits
  <1> QED BY <1>1, <1>2, <1>3, <1>4

\* For any learners, any bounds on work, sends, visits and faults, and any order of reads,
\* saves, retries, flushes, sign-ins and sign-outs: no account receives another learner's
\* evidence, no history is written over, and a quiet tab has saved what was made in it
\* (ProgressProvider.tsx and AuthProvider.tsx).
THEOREM LearnersWorkIsKept == PagesSpec => []NothingCrosses
  <1> DEFINE Inv == machine = "sync" => SyncInv
  <1>0. Sync!SyncConstants
    BY PagesConstants
  <1>1. PagesInit => Inv
    BY <1>0, SyncInvInit DEF PagesInit
  <1>2. Inv /\ [PagesNext]_<<machine, registers>> => Inv'
    <2> SUFFICES ASSUME Inv, [PagesNext]_<<machine, registers>>, machine' = "sync"
                 PROVE  SyncInv'
      OBVIOUS
    <2>1. CASE PagesNext
      <3>1. machine = "sync" /\ Sync!Next
        BY <2>1 DEF PagesNext
      <3> QED BY <1>0, <3>1, SyncInvNext
    <2>2. CASE UNCHANGED <<machine, registers>>
      <3>1. SyncInv /\ UNCHANGED <<cookie, live, acct, device, tab, wire, sends, by, dropped>>
        BY <2>2 DEF registers
      <3>2. Fits(tab')
        BY <3>1 DEF SyncInv
      <3> QED BY <3>1, <3>2, PutKeeps DEF SyncInv
    <2> QED BY <2>1, <2>2
  <1>3. Inv => NothingCrosses
    BY <1>0, SyncPromises DEF NothingCrosses
  <1> QED BY <1>1, <1>2, <1>3, PTL DEF PagesSpec

-----------------------------------------------------------------------------
(***************************************************************************)
(* Who is signed in, as a tab sees it (AuthTab): the inductive invariant.  *)
(*                                                                         *)
(* The registers hold, in the order of the module's variables: r1 the      *)
(* accounts, r2 the open receipts, r3 the sessions and r4 how many were    *)
(* minted, r5 the terms acceptances and r6 their events, r7 the cookies,   *)
(* r8 the tab, r9 the calls and r10 the troubles.                          *)
(***************************************************************************)

Anybody == Pair \cup {Nobody}

Jars == [session : 0..MaxSessions, receipt : Anybody]

AuthTabs == [status : {"loading", "signed-out", "signed-in", "signing-in", "error"},
             account : Anybody, session : BOOLEAN,
             phase : {"none", "current", "checking", "temporarily-unavailable",
                      "provider-error", "account-unavailable", "expired"},
             asked : BOOLEAN, stored : BOOLEAN, accepted : BOOLEAN, here : BOOLEAN]

TermsPosts == {"terms", "registration terms"}

\* A session cookie that is not honoured.
Dead(n) == n = 0 \/ ~r3[n].live

CallShape(c) ==
    c = [id |-> c.id, op |-> c.op, outcome |-> c.outcome, expected |-> c.expected,
         mine |-> c.mine, sends |-> c.sends, step |-> c.step, answer |-> c.answer,
         who |-> c.who, sets |-> c.sets, at |-> c.at]

CallTyped(c) ==
    /\ CallShape(c)
    /\ c.op \in {"session", "registration", "renew", "signout"} \cup TermsPosts
    /\ c.mine \in BOOLEAN /\ c.sends \in Jars /\ c.sets \in Jars /\ c.at \in Nat
    /\ c.step \in {"sent", "answered", "inserted"} /\ c.who \in Anybody
    /\ c.answer \in {"none", "ok", "401", "409", "failed"}
    /\ c.sends.session <= r4 /\ c.sets.session <= r4

\* A call of the page went out with the session cookie the browser holds, or that cookie is
\* gone and its session dead, and nothing that arrives will say otherwise.
Tied(c) ==
    c.mine => \/ c.sends.session = r7.session
              \/ /\ r7.session = 0 /\ Dead(c.sends.session)
                 /\ ~(c.op = "session" /\ c.answer = "ok")

AnswerFits(c) ==
    /\ c.step = "answered" => c.mine
    /\ c.step # "answered" => c.answer = "none"
    /\ c.step = "inserted" => c.op \in TermsPosts /\ c.who \in r5
    /\ c.op \in TermsPosts /\ c.answer = "ok" => r5 # {}
    /\ c.op \notin {"renew", "signout"} \/ c.answer # "ok" => c.sets = c.sends

SessionFits(c) ==
    /\ c.op = "session" /\ c.answer = "ok" =>
          c.sends.session # 0 /\ c.who = r3[c.sends.session].who /\ c.who \in Pair
    /\ c.op = "session" /\ c.answer = "401" => Dead(c.sends.session)
    /\ c.op = "registration" /\ c.mine => Dead(r7.session)

RenewalFits(c) ==
    c.op = "renew" =>
       /\ c.mine /\ c.sends.session = r7.session
       /\ c.answer = "ok" => /\ c.sends.session # 0 /\ c.sets.session # 0
                             /\ r3[c.sets.session].who = r3[c.sends.session].who
       /\ c.answer = "401" => Dead(c.sends.session)

SignOutFits(c) ==
    c.op = "signout" =>
       /\ c.answer = "ok" => c.sends.session # 0 /\ Dead(c.sends.session)
                             /\ c.sets = Auth!NoCookies
       /\ c.answer = "401" => c.sends.session = 0
       /\ c.answer = "409" => FALSE

AuthCallFits(c) ==
    /\ CallTyped(c) /\ Tied(c) /\ AnswerFits(c)
    /\ SessionFits(c) /\ RenewalFits(c) /\ SignOutFits(c)

AnsweredOf(S) == {c \in S : c.step = "answered"}

\* Answers arrive one after the other, and none that the session lives was given after its end.
InLine(S) ==
    /\ IsFiniteSet(S)
    /\ \A c \in AnsweredOf(S) : c.at \in 1..Cardinality(AnsweredOf(S))
    /\ \A c, d \in AnsweredOf(S) : c # d => c.at # d.at
    /\ \A c, d \in AnsweredOf(S) :
          c.op = "signout" /\ c.answer = "ok" /\ d.op = "session" /\ d.answer = "ok"
          /\ c.at < d.at => c.sends.session # d.sends.session

\* An acceptance that is on record and not yet in the audit trail is there once.
InsertedOnce(S) ==
    /\ \A c \in S : c.step = "inserted" => r6[c.who] = 0
    /\ \A c, d \in S : c.step = "inserted" /\ d.step = "inserted" /\ c # d => c.who # d.who

\* A renewal is the page's only call, and the page shows the session that it renews.
RenewsAlone(S) ==
    \A c \in S : c.op = "renew" => S = {c} /\ r8.here /\ r8.status = "signed-in"

CallsFit(S) ==
    /\ \A c \in S : AuthCallFits(c)
    /\ InLine(S) /\ InsertedOnce(S)

ServerFits ==
    /\ r1 \in [Pair -> Auth!AccountStates] /\ r2 \subseteq {p \in Pair : r1[p] # "none"}
    /\ r3 \in [1..MaxSessions -> [who : Anybody, live : BOOLEAN]] /\ r4 \in 0..MaxSessions
    /\ \A n \in 1..MaxSessions : r3[n].live => r3[n].who \in Pair
    /\ r5 \subseteq Pair /\ r6 \in [Pair -> Nat]
    /\ \A p \in Pair : r6[p] <= (IF p \in r5 THEN 1 ELSE 0)

\* What the header says is so at every moment.
TabShows ==
    /\ r7 \in Jars /\ r7.session <= r4 /\ r8 \in AuthTabs
    /\ r8.status = "signed-in" /\ r8.account # Nobody =>
          r7.session # 0 /\ r3[r7.session].who = r8.account
    /\ r8.status = "signed-out" => Dead(r7.session)
    /\ r8.session => r8.account # Nobody
    /\ r8.accepted => r8.stored \/ r5 # {}

AuthInv == ServerFits /\ TabShows /\ CallsFit(r9) /\ RenewsAlone(r9)

-----------------------------------------------------------------------------
(* A call and what becomes of it.                                          *)

\* The same call with another answer.
SameSent(v, c) ==
    /\ CallShape(v) /\ v.op = c.op /\ v.sends = c.sends /\ v.outcome = c.outcome
    /\ v.expected = c.expected

\* One field changes.
LEMMA CallWithMine ==
  ASSUME NEW c, CallShape(c), NEW x,
         NEW v, v = [c EXCEPT !.mine = x]
  PROVE  /\ SameSent(v, c) /\ v.mine = x /\ v.step = c.step /\ v.answer = c.answer
         /\ v.who = c.who /\ v.sets = c.sets /\ v.at = c.at
  <1>1. CallShape(v)
    BY DEF CallShape
  <1> QED BY <1>1 DEF CallShape, SameSent

LEMMA CallWithStep ==
  ASSUME NEW c, CallShape(c), NEW x,
         NEW v, v = [c EXCEPT !.step = x]
  PROVE  /\ SameSent(v, c) /\ v.step = x /\ v.mine = c.mine /\ v.answer = c.answer
         /\ v.who = c.who /\ v.sets = c.sets /\ v.at = c.at
  <1>1. CallShape(v)
    BY DEF CallShape
  <1> QED BY <1>1 DEF CallShape, SameSent

LEMMA CallWithAnswer ==
  ASSUME NEW c, CallShape(c), NEW x,
         NEW v, v = [c EXCEPT !.answer = x]
  PROVE  /\ SameSent(v, c) /\ v.answer = x /\ v.mine = c.mine /\ v.step = c.step
         /\ v.who = c.who /\ v.sets = c.sets /\ v.at = c.at
  <1>1. CallShape(v)
    BY DEF CallShape
  <1> QED BY <1>1 DEF CallShape, SameSent

LEMMA CallWithWho ==
  ASSUME NEW c, CallShape(c), NEW x,
         NEW v, v = [c EXCEPT !.who = x]
  PROVE  /\ SameSent(v, c) /\ v.who = x /\ v.mine = c.mine /\ v.step = c.step
         /\ v.answer = c.answer /\ v.sets = c.sets /\ v.at = c.at
  <1>1. CallShape(v)
    BY DEF CallShape
  <1> QED BY <1>1 DEF CallShape, SameSent

LEMMA CallWithSets ==
  ASSUME NEW c, CallShape(c), NEW x,
         NEW v, v = [c EXCEPT !.sets = x]
  PROVE  /\ SameSent(v, c) /\ v.sets = x /\ v.mine = c.mine /\ v.step = c.step
         /\ v.answer = c.answer /\ v.who = c.who /\ v.at = c.at
  <1>1. CallShape(v)
    BY DEF CallShape
  <1> QED BY <1>1 DEF CallShape, SameSent

LEMMA CallWithAt ==
  ASSUME NEW c, CallShape(c), NEW x,
         NEW v, v = [c EXCEPT !.at = x]
  PROVE  /\ SameSent(v, c) /\ v.at = x /\ v.mine = c.mine /\ v.step = c.step
         /\ v.answer = c.answer /\ v.who = c.who /\ v.sets = c.sets
  <1>1. CallShape(v)
    BY DEF CallShape
  <1> QED BY <1>1 DEF CallShape, SameSent

GivenAnswer(c, a, w, s, n) ==
    [c EXCEPT !.step = "answered", !.answer = a, !.who = w, !.sets = s, !.at = n]

LEMMA CallAnswered ==
  ASSUME NEW c, CallShape(c), NEW a, NEW w, NEW s, NEW n,
         NEW v, v = GivenAnswer(c, a, w, s, n)
  PROVE  /\ SameSent(v, c) /\ v.mine = c.mine /\ v.step = "answered" /\ v.answer = a
         /\ v.who = w /\ v.sets = s /\ v.at = n
  <1> DEFINE v1 == [c EXCEPT !.step = "answered"]
  <1>1. /\ SameSent(v1, c) /\ v1.step = "answered"
      /\ v1.mine = c.mine /\ v1.answer = c.answer /\ v1.who = c.who
      /\ v1.sets = c.sets /\ v1.at = c.at
    BY CallWithStep
  <1> HIDE DEF v1
  <1> DEFINE v2 == [v1 EXCEPT !.answer = a]
  <1>2. /\ SameSent(v2, v1) /\ v2.answer = a
      /\ v2.mine = v1.mine /\ v2.step = v1.step /\ v2.who = v1.who
      /\ v2.sets = v1.sets /\ v2.at = v1.at
    BY <1>1, CallWithAnswer, SMTT(30) DEF SameSent
  <1> HIDE DEF v2
  <1> DEFINE v3 == [v2 EXCEPT !.who = w]
  <1>3. /\ SameSent(v3, v2) /\ v3.who = w
      /\ v3.mine = v2.mine /\ v3.step = v2.step /\ v3.answer = v2.answer
      /\ v3.sets = v2.sets /\ v3.at = v2.at
    BY <1>2, CallWithWho, SMTT(30) DEF SameSent
  <1> HIDE DEF v3
  <1> DEFINE v4 == [v3 EXCEPT !.sets = s]
  <1>4. /\ SameSent(v4, v3) /\ v4.sets = s
      /\ v4.mine = v3.mine /\ v4.step = v3.step /\ v4.answer = v3.answer
      /\ v4.who = v3.who /\ v4.at = v3.at
    BY <1>3, CallWithSets, SMTT(30) DEF SameSent
  <1> HIDE DEF v4
  <1> DEFINE v5 == [v4 EXCEPT !.at = n]
  <1>5. /\ SameSent(v5, v4) /\ v5.at = n
      /\ v5.mine = v4.mine /\ v5.step = v4.step /\ v5.answer = v4.answer
      /\ v5.who = v4.who /\ v5.sets = v4.sets
    BY <1>4, CallWithAt, SMTT(30) DEF SameSent
  <1> HIDE DEF v5
  <1>6. v = v5
    BY DEF GivenAnswer, v1, v2, v3, v4, v5
  <1> QED BY <1>1, <1>2, <1>3, <1>4, <1>5, <1>6 DEF SameSent

GivenRow(c, w) ==
    [c EXCEPT !.step = "inserted", !.who = w]

LEMMA CallInserted ==
  ASSUME NEW c, CallShape(c), NEW w,
         NEW v, v = GivenRow(c, w)
  PROVE  /\ SameSent(v, c) /\ v.mine = c.mine /\ v.step = "inserted" /\ v.answer = c.answer
         /\ v.who = w /\ v.sets = c.sets /\ v.at = c.at
  <1> DEFINE v1 == [c EXCEPT !.step = "inserted"]
  <1>1. /\ SameSent(v1, c) /\ v1.step = "inserted"
      /\ v1.mine = c.mine /\ v1.answer = c.answer /\ v1.who = c.who
      /\ v1.sets = c.sets /\ v1.at = c.at
    BY CallWithStep
  <1> HIDE DEF v1
  <1> DEFINE v2 == [v1 EXCEPT !.who = w]
  <1>2. /\ SameSent(v2, v1) /\ v2.who = w
      /\ v2.mine = v1.mine /\ v2.step = v1.step /\ v2.answer = v1.answer
      /\ v2.sets = v1.sets /\ v2.at = v1.at
    BY <1>1, CallWithWho, SMTT(30) DEF SameSent
  <1> HIDE DEF v2
  <1>3. v = v2
    BY DEF GivenRow, v1, v2
  <1> QED BY <1>1, <1>2, <1>3 DEF SameSent

GivenError(c, a, s, w) ==
    [c EXCEPT !.answer = a, !.sets = s, !.who = w]

LEMMA CallFails ==
  ASSUME NEW c, CallShape(c), NEW a, NEW s, NEW w,
         NEW v, v = GivenError(c, a, s, w)
  PROVE  /\ SameSent(v, c) /\ v.mine = c.mine /\ v.step = c.step /\ v.answer = a
         /\ v.who = w /\ v.sets = s /\ v.at = c.at
  <1> DEFINE v1 == [c EXCEPT !.answer = a]
  <1>1. /\ SameSent(v1, c) /\ v1.answer = a
      /\ v1.mine = c.mine /\ v1.step = c.step /\ v1.who = c.who
      /\ v1.sets = c.sets /\ v1.at = c.at
    BY CallWithAnswer
  <1> HIDE DEF v1
  <1> DEFINE v2 == [v1 EXCEPT !.sets = s]
  <1>2. /\ SameSent(v2, v1) /\ v2.sets = s
      /\ v2.mine = v1.mine /\ v2.step = v1.step /\ v2.answer = v1.answer
      /\ v2.who = v1.who /\ v2.at = v1.at
    BY <1>1, CallWithSets, SMTT(30) DEF SameSent
  <1> HIDE DEF v2
  <1> DEFINE v3 == [v2 EXCEPT !.who = w]
  <1>3. /\ SameSent(v3, v2) /\ v3.who = w
      /\ v3.mine = v2.mine /\ v3.step = v2.step /\ v3.answer = v2.answer
      /\ v3.sets = v2.sets /\ v3.at = v2.at
    BY <1>2, CallWithWho, SMTT(30) DEF SameSent
  <1> HIDE DEF v3
  <1>4. v = v3
    BY DEF GivenError, v1, v2, v3
  <1> QED BY <1>1, <1>2, <1>3, <1>4 DEF SameSent

-----------------------------------------------------------------------------
(* The server moves, the page does not.                                    *)

\* Sessions are minted and end; nobody's session becomes another's.
ServerMoves ==
    /\ r4' \in r4..MaxSessions
    /\ \A n \in 1..r4 : r3'[n].who = r3[n].who /\ (r3'[n].live => r3[n].live)
    /\ r5 \subseteq r5' /\ UNCHANGED <<r7, r8>>

LEMMA JarFields ==
  ASSUME NEW j \in Jars
  PROVE  /\ j.session \in 0..MaxSessions /\ j.receipt \in Anybody
         /\ j = [session |-> j.session, receipt |-> j.receipt]
BY DEF Jars

LEMMA DeadStays ==
  ASSUME ServerFits, ServerMoves, Auth!AuthConstants, NEW n \in 0..r4, Dead(n)
  PROVE  Dead(n)'
  <1>1. n = 0 \/ n \in 1..r4
    BY DEF ServerFits, Auth!AuthConstants
  <1> QED BY <1>1 DEF ServerMoves, Dead

LEMMA CallStays ==
  ASSUME Auth!AuthConstants, ServerFits, TabShows, ServerMoves, NEW c, AuthCallFits(c)
  PROVE  AuthCallFits(c)'
  <1>1. /\ r4 \in Nat /\ r4 <= r4' /\ r4' \in Nat /\ r7' = r7 /\ r5 \subseteq r5'
        /\ c.sends.session \in 0..r4 /\ c.sets.session \in 0..r4 /\ r7.session \in 0..r4
    BY JarFields DEF Auth!AuthConstants, ServerFits, TabShows, ServerMoves, AuthCallFits, CallTyped
  <1>2. CallTyped(c)'
    BY <1>1 DEF AuthCallFits, CallTyped
  <1>3. \A n \in 0..r4 : Dead(n) => Dead(n)'
    BY DeadStays
  <1>4. Tied(c)'
    BY <1>1, <1>3 DEF AuthCallFits, Tied
  <1>5. AnswerFits(c)'
    BY <1>1 DEF AuthCallFits, AnswerFits
  <1>6. c.sends.session # 0 => r3'[c.sends.session].who = r3[c.sends.session].who
    BY <1>1 DEF ServerMoves
  <1>7. c.sets.session # 0 => r3'[c.sets.session].who = r3[c.sets.session].who
    BY <1>1 DEF ServerMoves
  <1>8. SessionFits(c)'
    BY <1>1, <1>3, <1>6 DEF AuthCallFits, SessionFits
  <1>9. RenewalFits(c)'
    BY <1>1, <1>3, <1>6, <1>7 DEF AuthCallFits, RenewalFits
  <1>10. SignOutFits(c)'
    BY <1>1, <1>3 DEF AuthCallFits, SignOutFits
  <1> QED BY <1>2, <1>4, <1>5, <1>8, <1>9, <1>10 DEF AuthCallFits

LEMMA TabStays ==
  ASSUME Auth!AuthConstants, ServerFits, TabShows, ServerMoves
  PROVE  TabShows'
  <1>1. /\ r4 \in Nat /\ r4 <= r4' /\ r4' \in Nat /\ r7' = r7 /\ r8' = r8 /\ r5 \subseteq r5'
        /\ r7.session \in 0..r4
    BY JarFields DEF Auth!AuthConstants, ServerFits, TabShows, ServerMoves
  <1>2. Dead(r7.session) => Dead(r7.session)'
    BY <1>1, DeadStays
  <1>3. r7.session # 0 => r3'[r7.session].who = r3[r7.session].who
    BY <1>1 DEF ServerMoves
  <1> QED BY <1>1, <1>2, <1>3 DEF TabShows, Dead

LEMMA SameCardinality == \A S : Auth!Cardinality(S) = Cardinality(S)
BY DEF Auth!Cardinality, Cardinality

LEMMA AnsweredSize ==
  ASSUME NEW S, IsFiniteSet(S)
  PROVE  IsFiniteSet(AnsweredOf(S)) /\ Cardinality(AnsweredOf(S)) \in Nat
  <1>1. AnsweredOf(S) \subseteq S
    BY DEF AnsweredOf
  <1> QED BY <1>1, FS_Subset, FS_CardinalityType

\* An answer is given: it queues behind those that are on their way.
LEMMA LineGrows ==
  ASSUME NEW S, InLine(S), NEW c \in S, c.step # "answered", NEW v, v.step = "answered",
         v.at = Cardinality(AnsweredOf(S)) + 1,
         v.op = "session" /\ v.answer = "ok" =>
            \A d \in AnsweredOf(S) : d.op = "signout" /\ d.answer = "ok" =>
               d.sends.session # v.sends.session
  PROVE  InLine((S \ {c}) \cup {v})
  <1> DEFINE A == AnsweredOf(S)
             n == Cardinality(A)
             T == (S \ {c}) \cup {v}
  <1>1. IsFiniteSet(S) /\ IsFiniteSet(A) /\ n \in Nat
    BY AnsweredSize DEF InLine
  <1>2. IsFiniteSet(T)
    BY <1>1, FS_RemoveElement, FS_AddElement
  <1>3. AnsweredOf(T) = A \cup {v}
    BY DEF AnsweredOf
  <1>4. \A d \in A : d.at \in 1..n
    BY DEF InLine
  <1>5. v \notin A
    BY <1>1, <1>4
  <1>6. Cardinality(AnsweredOf(T)) = n + 1
    BY <1>1, <1>3, <1>5, FS_AddElement
  <1>7. \A d \in AnsweredOf(T) : d.at \in 1..(n + 1)
    BY <1>1, <1>3, <1>4
  <1>8. \A d, e \in AnsweredOf(T) : d # e => d.at # e.at
    BY <1>1, <1>3, <1>4 DEF InLine
  <1>9. \A d, e \in AnsweredOf(T) :
          d.op = "signout" /\ d.answer = "ok" /\ e.op = "session" /\ e.answer = "ok"
          /\ d.at < e.at => d.sends.session # e.sends.session
    <2>1. \A d \in A : ~(v.at < d.at)
      BY <1>1, <1>4
    <2>2. ~(v.at < v.at)
      BY <1>1
    <2>3. \A d, e \in A :
            d.op = "signout" /\ d.answer = "ok" /\ e.op = "session" /\ e.answer = "ok"
            /\ d.at < e.at => d.sends.session # e.sends.session
      BY DEF InLine
    <2> HIDE DEF A, T
    <2> QED BY <1>3, <2>1, <2>2, <2>3 DEF A
  <1> HIDE DEF n, T
  <1>10. InLine(T)
    BY <1>2, <1>6, <1>7, <1>8, <1>9 DEF InLine
  <1> QED BY <1>10 DEF T

LEMMA SameLine ==
  ASSUME NEW S, InLine(S), NEW T, IsFiniteSet(T), AnsweredOf(T) = AnsweredOf(S)
  PROVE  InLine(T)
BY DEF InLine

\* A call ends without an answer anybody waits for.
LEMMA LineWithout ==
  ASSUME NEW S, InLine(S), NEW c \in S, c.step # "answered"
  PROVE  InLine(S \ {c})
  <1>1. AnsweredOf(S \ {c}) = AnsweredOf(S)
    BY DEF AnsweredOf
  <1>2. IsFiniteSet(S \ {c})
    BY FS_RemoveElement DEF InLine
  <1> QED BY <1>1, <1>2 DEF InLine

\* What an answer may say.
Answering(c, a, w, s) ==
    /\ a \in {"ok", "401", "409", "failed"} /\ w \in Anybody /\ s \in Jars /\ s.session <= r4'
    /\ c.op = "session" /\ a = "ok" =>
          ~Dead(c.sends.session) /\ w = r3'[c.sends.session].who /\ w \in Pair
    /\ c.op \in {"session", "renew"} /\ a = "401" => Dead(c.sends.session)'
    /\ c.op = "renew" /\ a = "ok" => /\ c.sends.session # 0 /\ s.session # 0
                                    /\ r3'[s.session].who = r3'[c.sends.session].who
    /\ c.op = "signout" /\ a = "ok" =>
          c.sends.session # 0 /\ Dead(c.sends.session)' /\ s = Auth!NoCookies
    /\ c.op = "signout" /\ a = "401" => c.sends.session = 0
    /\ c.op = "signout" => a # "409"
    /\ c.op \in TermsPosts /\ a = "ok" => r5' # {}
    /\ c.op \notin {"renew", "signout"} \/ a # "ok" => s = c.sends

LEMMA AnswerIsGiven ==
  ASSUME Auth!AuthConstants, AuthInv, ServerMoves, NEW c \in r9, c.step # "answered",
         NEW a, NEW w, NEW s, Answering(c, a, w, s), Auth!Answers(c, a, w, s),
         \A d \in r9 \ {c} : d.step = "inserted" => r6'[d.who] = 0
  PROVE  CallsFit(r9)' /\ RenewsAlone(r9)'
  <1>1. PICK n : n = Cardinality(AnsweredOf(r9)) + 1
    OBVIOUS
  <1>2. PICK v : v = GivenAnswer(c, a, w, s, n)
    OBVIOUS
  <1>3. r9' = (r9 \ {c}) \cup (IF c.mine THEN {v} ELSE {})
    BY <1>1, <1>2, SameCardinality
       DEF Auth!Answers, Auth!Answered, AnsweredOf, GivenAnswer
  <1>4. ServerFits /\ TabShows /\ CallsFit(r9) /\ RenewsAlone(r9) /\ InLine(r9)
    BY DEF AuthInv, CallsFit
  <1>5. AuthCallFits(c) /\ CallTyped(c) /\ CallShape(c)
    BY <1>4 DEF CallsFit, AuthCallFits, CallTyped
  <1>6. /\ SameSent(v, c) /\ v.mine = c.mine /\ v.step = "answered" /\ v.answer = a
        /\ v.who = w /\ v.sets = s /\ v.at = n
    BY <1>2, <1>5, CallAnswered
  <1>7. Cardinality(AnsweredOf(r9)) \in Nat
    BY <1>4, AnsweredSize DEF InLine
  <1>8. /\ CallShape(v) /\ v.op = c.op /\ v.sends = c.sends
    BY <1>6 DEF SameSent
  <1>9. ASSUME c.mine PROVE AuthCallFits(v)'
    <2>1. AuthCallFits(c)'
      BY <1>4, <1>5, CallStays
    <2>2. CallTyped(v)'
      BY <1>1, <1>6, <1>7, <1>8, <2>1 DEF AuthCallFits, CallTyped, Answering
    <2>3. c.sends.session \in 0..r4
      BY <1>5, JarFields DEF CallTyped
    <2>4. Dead(c.sends.session) => Dead(c.sends.session)'
      BY <1>4, <2>3, DeadStays
    <2>5. r7' = r7
      BY DEF ServerMoves
    <2>6. Tied(v)'
      BY <1>5, <1>6, <1>8, <2>4, <2>5 DEF AuthCallFits, Tied, Answering
    <2>7. AnswerFits(v)'
      BY <1>6, <1>8, <1>9 DEF AnswerFits, Answering
    <2>8. SessionFits(v)'
      BY <1>6, <1>8, <2>1 DEF AuthCallFits, SessionFits, Answering, Dead
    <2>9. RenewalFits(v)'
      BY <1>6, <1>8, <2>1 DEF AuthCallFits, RenewalFits, Answering
    <2>10. SignOutFits(v)'
      BY <1>6, <1>8, <2>1 DEF AuthCallFits, SignOutFits, Answering
    <2> QED BY <2>2, <2>6, <2>7, <2>8, <2>9, <2>10 DEF AuthCallFits
  <1>10. \A d \in r9 \ {c} : AuthCallFits(d)'
    BY <1>4, CallStays DEF CallsFit
  <1>11. \A d \in r9' : AuthCallFits(d)'
    BY <1>3, <1>9, <1>10
  <1>12. InLine(r9')
    <2>1. CASE c.mine
      <3>1. ASSUME v.op = "session", v.answer = "ok", NEW d \in AnsweredOf(r9),
                   d.op = "signout", d.answer = "ok"
            PROVE  d.sends.session # v.sends.session
        <4>1. Dead(d.sends.session)
          BY <1>4, <3>1 DEF AnsweredOf, CallsFit, AuthCallFits, SignOutFits
        <4>2. ~Dead(c.sends.session)
          BY <1>6, <1>8, <3>1 DEF Answering
        <4> QED BY <1>8, <4>1, <4>2
      <3>2. InLine((r9 \ {c}) \cup {v})
        BY <1>1, <1>4, <1>6, <3>1, LineGrows
      <3> QED BY <1>3, <2>1, <3>2
    <2>2. CASE ~c.mine
      <3>1. r9' = r9 \ {c}
        BY <1>3, <2>2
      <3> QED BY <1>4, <3>1, LineWithout
    <2> QED BY <2>1, <2>2
  <1>13. \A d \in r9' : d.step = "inserted" => d \in r9 \ {c}
    BY <1>3, <1>6
  <1>14. InsertedOnce(r9)'
    BY <1>4, <1>13 DEF CallsFit, InsertedOnce
  <1>15. ASSUME NEW d \in r9', d.op = "renew"
         PROVE  r9' = {d} /\ r8'.here /\ r8'.status = "signed-in"
    <2>1. c.op = "renew"
      BY <1>3, <1>4, <1>8, <1>15 DEF RenewsAlone
    <2>2. r9 = {c} /\ c.mine /\ r8.here /\ r8.status = "signed-in"
      BY <1>4, <1>5, <2>1 DEF RenewsAlone, AuthCallFits, RenewalFits
    <2> QED BY <1>3, <1>15, <2>2 DEF ServerMoves
  <1> QED BY <1>11, <1>12, <1>14, <1>15 DEF CallsFit, RenewsAlone

\* What the server keeps when it only answers.
serverRegisters == <<r1, r2, r3, r4, r5, r6>>

LEMMA NothingMoves ==
  ASSUME Auth!AuthConstants, AuthInv, UNCHANGED <<serverRegisters, r7, r8>>
  PROVE  ServerMoves /\ ServerFits' /\ TabShows'
  <1>1. ServerMoves
    BY DEF serverRegisters, ServerMoves, AuthInv, ServerFits, Auth!AuthConstants
  <1>2. ServerFits'
    BY DEF serverRegisters, AuthInv, ServerFits
  <1> QED BY <1>1, <1>2, TabStays DEF AuthInv

\* An answer that changes nothing at the server.
LEMMA OnlyAnswers ==
  ASSUME Auth!AuthConstants, AuthInv, UNCHANGED <<serverRegisters, r7, r8>>,
         NEW c \in r9, c.step # "answered", NEW a, NEW w, NEW s, Answering(c, a, w, s),
         Auth!Answers(c, a, w, s)
  PROVE  AuthInv'
  <1>1. ServerMoves /\ ServerFits' /\ TabShows'
    BY NothingMoves
  <1>2. \A d \in r9 \ {c} : d.step = "inserted" => r6'[d.who] = 0
    BY DEF AuthInv, CallsFit, InsertedOnce, serverRegisters
  <1>3. CallsFit(r9)' /\ RenewsAlone(r9)'
    BY <1>1, <1>2, AnswerIsGiven
  <1> QED BY <1>1, <1>3 DEF AuthInv

LEMMA EmptyJar ==
  ASSUME Auth!AuthConstants
  PROVE  Auth!NoCookies \in Jars /\ Auth!NoCookies.session = 0
BY DEF Auth!AuthConstants, Auth!NoCookies, Jars, Anybody

\* What is known of a call that is under way.
LEMMA CallIsTyped ==
  ASSUME Auth!AuthConstants, AuthInv, NEW c \in r9
  PROVE  /\ AuthCallFits(c) /\ CallTyped(c) /\ CallShape(c)
         /\ c.sends \in Jars /\ c.sets \in Jars /\ c.sends.session \in 0..r4
         /\ c.sets.session \in 0..r4 /\ c.sends.receipt \in Anybody
         /\ r4 \in 0..MaxSessions /\ c.who \in Anybody
  <1>1. AuthCallFits(c) /\ CallTyped(c) /\ r4 \in 0..MaxSessions
    BY DEF AuthInv, CallsFit, AuthCallFits, ServerFits
  <1>2. /\ CallShape(c) /\ c.sends \in Jars /\ c.sets \in Jars /\ c.who \in Anybody
        /\ c.sends.session <= r4 /\ c.sets.session <= r4
    BY <1>1 DEF CallTyped
  <1>3. /\ c.sends.session \in 0..MaxSessions /\ c.sets.session \in 0..MaxSessions
        /\ c.sends.receipt \in Anybody
    BY <1>2, JarFields
  <1> QED BY <1>1, <1>2, <1>3 DEF Auth!AuthConstants

LEMMA ServeSessionKeeps ==
  ASSUME Auth!AuthConstants, AuthInv, NEW c \in r9, Auth!ServeSession(c)
  PROVE  AuthInv'
  <1>1. /\ c.op = "session" /\ c.step = "sent" /\ UNCHANGED <<serverRegisters, r7, r8>>
        /\ \/ Auth!Resolves(c) /\ Auth!Answers(c, "ok", Auth!Who(c), c.sends)
           \/ ~Auth!Resolves(c) /\ Auth!Answers(c, "401", Nobody, c.sends)
    BY DEF Auth!ServeSession, Auth!server, serverRegisters
  <1>2. /\ c.sends \in Jars /\ c.sends.session \in 0..r4 /\ r4 \in 0..MaxSessions
    BY CallIsTyped
  <1>3. r3' = r3 /\ r4' = r4
    BY <1>1 DEF serverRegisters
  <1>4. CASE Auth!Resolves(c)
    <2>1. ~Dead(c.sends.session) /\ c.sends.session \in 1..MaxSessions
      BY <1>2, <1>4 DEF Auth!Resolves, Dead, Auth!AuthConstants
    <2>2. Auth!Who(c) = r3[c.sends.session].who /\ Auth!Who(c) \in Pair
      BY <2>1 DEF Auth!Who, Dead, AuthInv, ServerFits
    <2>3. Answering(c, "ok", Auth!Who(c), c.sends)
      BY <1>1, <1>2, <1>3, <2>1, <2>2 DEF Answering, Anybody, TermsPosts
    <2> QED BY <1>1, <1>4, <2>3, OnlyAnswers
  <1>5. CASE ~Auth!Resolves(c)
    <2>1. Dead(c.sends.session)'
      BY <1>3, <1>5 DEF Auth!Resolves, Dead
    <2>2. Answering(c, "401", Nobody, c.sends)
      BY <1>1, <1>2, <1>3, <2>1 DEF Answering, Anybody, TermsPosts
    <2> QED BY <1>1, <1>5, <2>2, OnlyAnswers
  <1> QED BY <1>4, <1>5

LEMMA RegistrationStatusKeeps ==
  ASSUME Auth!AuthConstants, AuthInv, NEW c \in r9, Auth!getRegistrationStatus(c)
  PROVE  AuthInv'
  <1>1. /\ c.op = "registration" /\ c.step = "sent" /\ UNCHANGED <<serverRegisters, r7, r8>>
        /\ \/ Auth!Answers(c, "ok", c.sends.receipt, c.sends)
           \/ Auth!Answers(c, "401", Nobody, c.sends)
    BY DEF Auth!getRegistrationStatus, Auth!server, serverRegisters
  <1>2. /\ c.sends \in Jars /\ c.sends.session \in 0..r4 /\ c.sends.receipt \in Anybody
    BY CallIsTyped
  <1>3. r3' = r3 /\ r4' = r4
    BY <1>1 DEF serverRegisters
  <1>4. /\ Answering(c, "ok", c.sends.receipt, c.sends)
        /\ Answering(c, "401", Nobody, c.sends)
    BY <1>1, <1>2, <1>3 DEF Answering, Anybody, TermsPosts
  <1> QED BY <1>1, <1>4, OnlyAnswers

\* A session more; the one it replaces ends.
LEMMA MintMoves ==
  ASSUME Auth!AuthConstants, ServerFits, NEW p \in Pair, NEW old, Auth!Mint(p, old),
         UNCHANGED <<r1, r2, r5, r6>>
  PROVE  /\ ServerFits' /\ r4' = r4 + 1 /\ r4' \in 1..MaxSessions
         /\ r3'[r4'].who = p /\ r3'[r4'].live
         /\ \A n \in 1..r4 : r3'[n].who = r3[n].who /\ (r3'[n].live => r3[n].live)
  <1>1. /\ r4 < MaxSessions /\ r4' = r4 + 1
        /\ r3' = [n \in 1..MaxSessions |->
                    IF n = r4 + 1 THEN [who |-> p, live |-> TRUE]
                    ELSE IF n = old THEN [r3[n] EXCEPT !.live = FALSE] ELSE r3[n]]
    BY DEF Auth!Mint
  <1>2. r4' \in 1..MaxSessions /\ r4 \in 0..MaxSessions
    BY <1>1 DEF ServerFits, Auth!AuthConstants
  <1>3. r3'[r4'] = [who |-> p, live |-> TRUE]
    BY <1>1, <1>2
  <1>4. ASSUME NEW n \in 1..MaxSessions, n # r4'
        PROVE  /\ r3'[n].who = r3[n].who /\ (r3'[n].live => r3[n].live)
               /\ r3'[n] \in [who : Anybody, live : BOOLEAN]
    <2>1. r3[n] \in [who : Anybody, live : BOOLEAN]
      BY DEF ServerFits
    <2>2. r3'[n] = r3[n] \/ r3'[n] = [r3[n] EXCEPT !.live = FALSE]
      BY <1>1, <1>4
    <2> QED BY <2>1, <2>2
  <1>5. r3' \in [1..MaxSessions -> [who : Anybody, live : BOOLEAN]]
    <2>1. r3'[r4'] \in [who : Anybody, live : BOOLEAN]
      BY <1>3 DEF Anybody
    <2>2. r3' = [n \in 1..MaxSessions |-> r3'[n]]
      BY <1>1
    <2> QED BY <1>4, <2>1, <2>2
  <1>6. \A n \in 1..MaxSessions : r3'[n].live => r3'[n].who \in Pair
    <2>1. r3'[r4'].who = p
      BY <1>3
    <2> QED BY <1>4, <2>1 DEF ServerFits
  <1>7. ServerFits'
    BY <1>2, <1>5, <1>6 DEF ServerFits
  <1>8. \A n \in 1..r4 : n \in 1..MaxSessions /\ n # r4'
    BY <1>1, <1>2 DEF Auth!AuthConstants
  <1> QED BY <1>1, <1>2, <1>3, <1>4, <1>7, <1>8

LEMMA RotationKeeps ==
  ASSUME Auth!AuthConstants, AuthInv, NEW c \in r9, Auth!rotateBrowserSession(c)
  PROVE  AuthInv'
  <1>1. c.op = "renew" /\ c.step = "sent" /\ UNCHANGED <<r1, r2, r5, r6, r7, r8>>
    BY DEF Auth!rotateBrowserSession
  <1>2. /\ c.sends \in Jars /\ c.sends.session \in 0..r4 /\ r4 \in 0..MaxSessions
        /\ c.sends.receipt \in Anybody /\ c.sends = [session |-> c.sends.session,
                                                     receipt |-> c.sends.receipt]
    BY CallIsTyped, JarFields
  <1>3. CASE /\ Auth!Resolves(c) /\ Auth!Mint(Auth!Who(c), c.sends.session)
             /\ Auth!Answers(c, "ok", Auth!Who(c), [c.sends EXCEPT !.session = r4 + 1])
    <2>1. ~Dead(c.sends.session) /\ c.sends.session \in 1..MaxSessions
      BY <1>2, <1>3 DEF Auth!Resolves, Dead, Auth!AuthConstants
    <2>2. Auth!Who(c) = r3[c.sends.session].who /\ Auth!Who(c) \in Pair
      BY <2>1 DEF Auth!Who, Dead, AuthInv, ServerFits
    <2>3. /\ ServerFits' /\ r4' = r4 + 1 /\ r4' \in 1..MaxSessions
          /\ r3'[r4'].who = Auth!Who(c)
          /\ \A n \in 1..r4 : r3'[n].who = r3[n].who /\ (r3'[n].live => r3[n].live)
      BY <1>1, <1>3, <2>2, MintMoves DEF AuthInv
    <2>4. ServerMoves
      BY <1>1, <1>2, <2>3 DEF ServerMoves, Auth!AuthConstants
    <2>5. PICK s : s = [c.sends EXCEPT !.session = r4 + 1]
      OBVIOUS
    <2>6. s \in Jars /\ s.session = r4'
      BY <1>2, <2>3, <2>5 DEF Jars, Auth!AuthConstants
    <2>7. r3'[c.sends.session].who = r3[c.sends.session].who
      BY <1>2, <2>1, <2>3 DEF Auth!AuthConstants
    <2>8. Answering(c, "ok", Auth!Who(c), s)
      BY <1>1, <1>2, <2>1, <2>2, <2>3, <2>6, <2>7 DEF Answering, Anybody, TermsPosts
    <2>9. \A d \in r9 \ {c} : d.step = "inserted" => r6'[d.who] = 0
      BY <1>1 DEF AuthInv, CallsFit, InsertedOnce
    <2>10. Auth!Answers(c, "ok", Auth!Who(c), s)
      BY <1>3, <2>5
    <2>11. CallsFit(r9)' /\ RenewsAlone(r9)'
      BY <1>1, <2>4, <2>8, <2>9, <2>10, AnswerIsGiven
    <2>12. TabShows'
      BY <2>4, TabStays DEF AuthInv
    <2> QED BY <2>3, <2>11, <2>12 DEF AuthInv
  <1>4. CASE /\ ~Auth!Resolves(c) /\ UNCHANGED <<r3, r4>>
             /\ \/ Auth!Answers(c, "401", Nobody, c.sends)
                \/ Auth!Answers(c, "409", Nobody, c.sends)
    <2>1. Dead(c.sends.session)'
      BY <1>4 DEF Auth!Resolves, Dead
    <2>2. Answering(c, "401", Nobody, c.sends) /\ Answering(c, "409", Nobody, c.sends)
      BY <1>1, <1>2, <1>4, <2>1 DEF Answering, Anybody, TermsPosts
    <2>3. UNCHANGED <<serverRegisters, r7, r8>>
      BY <1>1, <1>4 DEF serverRegisters
    <2> QED BY <1>1, <1>4, <2>2, <2>3, OnlyAnswers
  <1> QED BY <1>3, <1>4 DEF Auth!rotateBrowserSession

\* Sessions that end, whichever they are.
LEMMA SessionsEnd ==
  ASSUME Auth!AuthConstants, AuthInv, UNCHANGED <<r4, r5, r6, r7, r8>>,
         r1' \in [Pair -> Auth!AccountStates], r2' \subseteq {p \in Pair : r1'[p] # "none"},
         r3' \in [1..MaxSessions -> [who : Anybody, live : BOOLEAN]],
         \A n \in 1..MaxSessions : r3'[n].who = r3[n].who /\ (r3'[n].live => r3[n].live)
  PROVE  ServerFits' /\ ServerMoves /\ TabShows'
  <1>1. ServerFits'
    BY DEF AuthInv, ServerFits
  <1>2. r4 \in 0..MaxSessions /\ \A n \in 1..r4 : n \in 1..MaxSessions
    BY DEF AuthInv, ServerFits, Auth!AuthConstants
  <1>3. ServerMoves
    BY <1>2 DEF ServerMoves, Auth!AuthConstants
  <1> QED BY <1>1, <1>3, TabStays DEF AuthInv

LEMMA RevocationKeeps ==
  ASSUME Auth!AuthConstants, AuthInv, NEW c \in r9, Auth!revokeBrowserSession(c)
  PROVE  AuthInv'
  <1>1. /\ c.op = "signout" /\ c.step = "sent" /\ UNCHANGED <<r1, r2, r4, r5, r6, r7, r8>>
        /\ r3' = [n \in 1..MaxSessions |->
                    IF n = c.sends.session THEN [r3[n] EXCEPT !.live = FALSE] ELSE r3[n]]
        /\ Auth!Answers(c, IF c.sends.session = 0 THEN "401" ELSE "ok", Nobody,
                        Auth!ClearedBySignOut(c.sends))
    BY DEF Auth!revokeBrowserSession
  <1>2. /\ c.sends \in Jars /\ c.sends.session \in 0..r4 /\ r4 \in 0..MaxSessions
    BY CallIsTyped
  <1>3. ASSUME NEW n \in 1..MaxSessions
        PROVE  /\ r3'[n].who = r3[n].who /\ (r3'[n].live => r3[n].live)
               /\ r3'[n] \in [who : Anybody, live : BOOLEAN]
               /\ n = c.sends.session => ~r3'[n].live
    <2>1. r3[n] \in [who : Anybody, live : BOOLEAN]
      BY DEF AuthInv, ServerFits
    <2>2. r3'[n] = IF n = c.sends.session THEN [r3[n] EXCEPT !.live = FALSE] ELSE r3[n]
      BY <1>1
    <2> QED BY <2>1, <2>2
  <1>4. r3' \in [1..MaxSessions -> [who : Anybody, live : BOOLEAN]]
    <2>1. r3' = [n \in 1..MaxSessions |-> r3'[n]]
      BY <1>1
    <2> QED BY <1>3, <2>1
  <1>5. ServerFits' /\ ServerMoves /\ TabShows'
    BY <1>1, <1>3, <1>4, SessionsEnd DEF AuthInv, ServerFits
  <1>6. Dead(c.sends.session)'
    BY <1>2, <1>3 DEF Dead, Auth!AuthConstants
  <1>7. \A d \in r9 \ {c} : d.step = "inserted" => r6'[d.who] = 0
    BY <1>1 DEF AuthInv, CallsFit, InsertedOnce
  <1>8. CASE c.sends.session = 0
    <2>1. Auth!Answers(c, "401", Nobody, c.sends)
      BY <1>1, <1>8 DEF Auth!ClearedBySignOut
    <2>2. Answering(c, "401", Nobody, c.sends)
      BY <1>1, <1>2, <1>8 DEF Answering, Anybody, TermsPosts
    <2>3. CallsFit(r9)' /\ RenewsAlone(r9)'
      BY <1>1, <1>5, <1>7, <2>1, <2>2, AnswerIsGiven
    <2> QED BY <1>5, <2>3 DEF AuthInv
  <1>9. CASE c.sends.session # 0
    <2>1. Auth!Answers(c, "ok", Nobody, Auth!NoCookies)
      BY <1>1, <1>9 DEF Auth!ClearedBySignOut
    <2>2. Answering(c, "ok", Nobody, Auth!NoCookies)
      BY <1>1, <1>2, <1>6, <1>9, EmptyJar DEF Answering, Anybody, TermsPosts, Auth!AuthConstants
    <2>3. CallsFit(r9)' /\ RenewsAlone(r9)'
      BY <1>1, <1>5, <1>7, <2>1, <2>2, AnswerIsGiven
    <2> QED BY <1>5, <2>3 DEF AuthInv
  <1> QED BY <1>8, <1>9

\* What may be answered to an acceptance.
LEMMA AcceptanceAnswered ==
  ASSUME Auth!AuthConstants, AuthInv, NEW c \in r9, c.op \in TermsPosts, r4' = r4,
         NEW a \in {"ok", "401", "failed"}, a = "ok" => r5' # {}, NEW w \in Anybody
  PROVE  Answering(c, a, w, c.sends)
  <1>1. c.op # "session" /\ c.op # "registration" /\ c.op # "renew" /\ c.op # "signout"
    BY DEF TermsPosts
  <1>2. c.sends \in Jars /\ c.sends.session <= r4'
    BY CallIsTyped DEF CallTyped
  <1> QED BY <1>1, <1>2 DEF Answering

\* Whose acceptance it is.
LEMMA AcceptingIs ==
  ASSUME Auth!AuthConstants, AuthInv, NEW c \in r9
  PROVE  Auth!Accepting(c) \in Anybody
  <1>1. /\ c.sends.session \in 0..r4 /\ c.sends.receipt \in Anybody /\ r4 \in 0..MaxSessions
    BY CallIsTyped
  <1>2. Auth!Resolves(c) => c.sends.session \in 1..MaxSessions
    BY <1>1 DEF Auth!Resolves, Auth!AuthConstants
  <1>3. Auth!Resolves(c) => Auth!Who(c) \in Pair
    BY <1>2 DEF Auth!Resolves, Auth!Who, AuthInv, ServerFits
  <1> QED BY <1>1, <1>3 DEF Auth!Accepting, Anybody

\* The row of an acceptance is inserted, and nothing is answered yet.
LEMMA RowIsInserted ==
  ASSUME Auth!AuthConstants, AuthInv, NEW c \in r9, c.op \in TermsPosts, c.step = "sent",
         NEW p \in Pair, p \notin r5, r5' = r5 \cup {p}, UNCHANGED <<r1, r2, r3, r4, r6, r7, r8>>,
         NEW v, v = GivenRow(c, p), r9' = (r9 \ {c}) \cup {v}
  PROVE  AuthInv'
  <1>1. ServerFits'
    BY DEF AuthInv, ServerFits
  <1>2. ServerMoves
    BY DEF AuthInv, ServerFits, ServerMoves, Auth!AuthConstants
  <1>3. TabShows'
    BY <1>2, TabStays DEF AuthInv
  <1>4. AuthCallFits(c) /\ CallTyped(c) /\ CallShape(c)
    BY CallIsTyped
  <1>5. /\ SameSent(v, c) /\ v.mine = c.mine /\ v.step = "inserted" /\ v.answer = c.answer
        /\ v.who = p /\ v.sets = c.sets /\ v.at = c.at
    BY <1>4, CallInserted
  <1>6. CallShape(v) /\ v.op = c.op /\ v.sends = c.sends
    BY <1>5 DEF SameSent
  <1>7. \A d \in r9 : AuthCallFits(d)'
    BY <1>2, CallStays DEF AuthInv, CallsFit
  <1>8. AuthCallFits(v)'
    <2>1. AuthCallFits(c)'
      BY <1>7
    <2>2. v.op # "session" /\ v.op # "registration" /\ v.op # "renew" /\ v.op # "signout"
      BY <1>6 DEF TermsPosts
    <2>3. CallTyped(v)'
      BY <1>5, <1>6, <2>1 DEF AuthCallFits, CallTyped, Anybody
    <2>4. Tied(v)'
      BY <1>5, <1>6, <2>1 DEF AuthCallFits, Tied
    <2>5. v.answer = "none"
      BY <1>4, <1>5 DEF AuthCallFits, AnswerFits
    <2>6. AnswerFits(v)'
      BY <1>5, <1>6, <2>1, <2>5 DEF AuthCallFits, AnswerFits
    <2> QED BY <2>2, <2>3, <2>4, <2>6 DEF AuthCallFits, SessionFits, RenewalFits, SignOutFits
  <1>9. InLine(r9')
    <2>1. AnsweredOf(r9') = AnsweredOf(r9)
      BY <1>5 DEF AnsweredOf
    <2>2. IsFiniteSet(r9')
      BY FS_RemoveElement, FS_AddElement DEF AuthInv, CallsFit, InLine
    <2>3. InLine(r9)
      BY DEF AuthInv, CallsFit
    <2> QED BY <2>1, <2>2, <2>3, SameLine
  <1>10. r6[p] = 0
    BY DEF AuthInv, ServerFits
  <1>11. \A d \in r9 : d.step = "inserted" => d.who # p
    BY DEF AuthInv, CallsFit, AuthCallFits, AnswerFits
  <1>12. InsertedOnce(r9)'
    BY <1>5, <1>10, <1>11 DEF AuthInv, CallsFit, InsertedOnce
  <1>13. \A d \in r9' : d.op # "renew"
    BY <1>6 DEF AuthInv, RenewsAlone, TermsPosts
  <1>14. CallsFit(r9)' /\ RenewsAlone(r9)'
    BY <1>7, <1>8, <1>9, <1>12, <1>13 DEF CallsFit, RenewsAlone
  <1> QED BY <1>1, <1>3, <1>14 DEF AuthInv

LEMMA AcceptanceKeeps ==
  ASSUME Auth!AuthConstants, AuthInv, NEW c \in r9, Auth!recordTermsAcceptance(c)
  PROVE  AuthInv'
  <1>1. /\ c.op \in TermsPosts /\ c.step = "sent" /\ UNCHANGED <<r1, r2, r3, r4, r6, r7, r8>>
    BY DEF Auth!recordTermsAcceptance, TermsPosts
  <1>2. PICK p : p = Auth!Accepting(c)
    OBVIOUS
  <1>3. p \in Anybody
    BY <1>2, AcceptingIs
  <1>4. CASE /\ p # Nobody /\ p \notin r5 /\ r5' = r5 \cup {p}
             /\ r9' = (r9 \ {c}) \cup {[c EXCEPT !.step = "inserted", !.who = p]}
    <2>1. PICK v : v = GivenRow(c, p)
      OBVIOUS
    <2>2. p \in Pair /\ r9' = (r9 \ {c}) \cup {v}
      BY <1>3, <1>4, <2>1 DEF GivenRow, Anybody
    <2> QED BY <1>1, <1>4, <2>1, <2>2, RowIsInserted
  <1>5. CASE p # Nobody /\ p \in r5 /\ r5' = r5 /\ Auth!Answers(c, "ok", p, c.sends)
    <2>1. r5' # {} /\ r4' = r4
      BY <1>1, <1>5
    <2>2. Answering(c, "ok", p, c.sends)
      BY <1>1, <1>3, <2>1, AcceptanceAnswered
    <2>3. UNCHANGED <<serverRegisters, r7, r8>>
      BY <1>1, <1>5 DEF serverRegisters
    <2> QED BY <1>1, <1>5, <2>2, <2>3, OnlyAnswers
  <1>6. CASE p = Nobody /\ r5' = r5 /\ Auth!Answers(c, "401", Nobody, c.sends)
    <2>1. r4' = r4 /\ Nobody \in Anybody
      BY <1>1 DEF Anybody
    <2>2. Answering(c, "401", Nobody, c.sends)
      BY <1>1, <2>1, AcceptanceAnswered
    <2>3. UNCHANGED <<serverRegisters, r7, r8>>
      BY <1>1, <1>6 DEF serverRegisters
    <2> QED BY <1>1, <1>6, <2>2, <2>3, OnlyAnswers
  <1> QED BY <1>2, <1>4, <1>5, <1>6 DEF Auth!recordTermsAcceptance, Auth!Audited

LEMMA AuditKeeps ==
  ASSUME Auth!AuthConstants, AuthInv, NEW c \in r9, Auth!auditTermsAcceptance(c)
  PROVE  AuthInv'
  <1>1. /\ c.step = "inserted" /\ r6' = [r6 EXCEPT ![c.who] = @ + 1]
        /\ Auth!Answers(c, "ok", c.who, c.sends) /\ UNCHANGED <<r1, r2, r3, r4, r5, r7, r8>>
    BY DEF Auth!auditTermsAcceptance
  <1>2. /\ c.op \in TermsPosts /\ c.who \in r5 /\ c.who \in Pair /\ r6[c.who] = 0
    BY <1>1 DEF AuthInv, CallsFit, AuthCallFits, AnswerFits, InsertedOnce, ServerFits
  <1>3. ServerFits'
    BY <1>1, <1>2 DEF AuthInv, ServerFits
  <1>4. ServerMoves
    BY <1>1 DEF AuthInv, ServerFits, ServerMoves, Auth!AuthConstants
  <1>5. TabShows'
    BY <1>4, TabStays DEF AuthInv
  <1>6. r4' = r4 /\ r5' # {} /\ c.who \in Anybody
    BY <1>1, <1>2 DEF Anybody
  <1>7. Answering(c, "ok", c.who, c.sends)
    BY <1>2, <1>6, AcceptanceAnswered
  <1>8. ASSUME NEW d \in r9 \ {c}, d.step = "inserted"
        PROVE  r6'[d.who] = 0
    <2>1. d.who # c.who /\ d.who \in Pair /\ r6[d.who] = 0
      BY <1>1, <1>8 DEF AuthInv, CallsFit, AuthCallFits, AnswerFits, InsertedOnce, ServerFits
    <2> QED BY <1>1, <2>1 DEF AuthInv, ServerFits
  <1>9. CallsFit(r9)' /\ RenewsAlone(r9)'
    BY <1>1, <1>4, <1>7, <1>8, AnswerIsGiven
  <1> QED BY <1>3, <1>5, <1>9 DEF AuthInv

LEMMA DecisionKeeps ==
  ASSUME Auth!AuthConstants, AuthInv, Auth!Decide
  PROVE  AuthInv'
  <1>1. UNCHANGED <<r4, r5, r6, r7, r8, r9>>
    BY DEF Auth!Decide
  <1>2. PICK p \in Pair, s \in {"approved", "rejected", "suspended"} :
          /\ r1' = [r1 EXCEPT ![p] = s] /\ r2' = r2 \ {p}
          /\ r3' = [n \in 1..MaxSessions |->
                      IF r3[n].who = p THEN [r3[n] EXCEPT !.live = FALSE] ELSE r3[n]]
    BY DEF Auth!Decide
  <1>3. r1' \in [Pair -> Auth!AccountStates] /\ r2' \subseteq {q \in Pair : r1'[q] # "none"}
    BY <1>2 DEF AuthInv, ServerFits, Auth!AccountStates
  <1>4. ASSUME NEW n \in 1..MaxSessions
        PROVE  /\ r3'[n].who = r3[n].who /\ (r3'[n].live => r3[n].live)
               /\ r3'[n] \in [who : Anybody, live : BOOLEAN]
    <2>1. r3[n] \in [who : Anybody, live : BOOLEAN]
      BY DEF AuthInv, ServerFits
    <2>2. r3'[n] = r3[n] \/ r3'[n] = [r3[n] EXCEPT !.live = FALSE]
      BY <1>2
    <2> QED BY <2>1, <2>2
  <1>5. r3' \in [1..MaxSessions -> [who : Anybody, live : BOOLEAN]]
    <2>1. r3' = [n \in 1..MaxSessions |-> r3'[n]]
      BY <1>2
    <2> QED BY <1>4, <2>1
  <1>6. ServerFits' /\ ServerMoves /\ TabShows'
    BY <1>1, <1>3, <1>4, <1>5, SessionsEnd
  <1>7. \A d \in r9 : AuthCallFits(d)'
    BY <1>6, CallStays DEF AuthInv, CallsFit
  <1>8. CallsFit(r9)' /\ RenewsAlone(r9)'
    BY <1>1, <1>7 DEF AuthInv, CallsFit, InsertedOnce, RenewsAlone
  <1> QED BY <1>6, <1>8 DEF AuthInv

\* An answer on its way is lost: the page sees an error in its place.
LEMMA LineErrs ==
  ASSUME NEW S, InLine(S), NEW c \in AnsweredOf(S), NEW v, v.step = "answered",
         v.answer = "failed", v.at = c.at
  PROVE  InLine((S \ {c}) \cup {v})
  <1> DEFINE A == AnsweredOf(S)
             B == A \ {c}
             n == Cardinality(A)
             T == (S \ {c}) \cup {v}
  <1>1. IsFiniteSet(S) /\ IsFiniteSet(A) /\ n \in Nat
    BY AnsweredSize DEF InLine
  <1>2. IsFiniteSet(T)
    BY <1>1, FS_RemoveElement, FS_AddElement
  <1>3. AnsweredOf(T) = B \cup {v}
    BY DEF AnsweredOf
  <1>4. v \notin B
    BY DEF InLine
  <1>5. Cardinality(AnsweredOf(T)) = n
    <2>1. IsFiniteSet(B) /\ Cardinality(B) = n - 1
      BY <1>1, FS_RemoveElement
    <2>2. Cardinality(B \cup {v}) = Cardinality(B) + 1
      BY <1>4, <2>1, FS_AddElement
    <2> HIDE DEF B, T, n
    <2>3. Cardinality(AnsweredOf(T)) = Cardinality(B \cup {v})
      BY <1>3
    <2> QED BY <1>1, <2>1, <2>2, <2>3
  <1>6. \A d \in AnsweredOf(T) : d.at \in 1..n
    BY <1>3 DEF InLine
  <1>7. \A d, e \in AnsweredOf(T) : d # e => d.at # e.at
    BY <1>3 DEF InLine
  <1>8. \A d, e \in AnsweredOf(T) :
          d.op = "signout" /\ d.answer = "ok" /\ e.op = "session" /\ e.answer = "ok"
          /\ d.at < e.at => d.sends.session # e.sends.session
    <2>1. ASSUME NEW d \in AnsweredOf(T), d.answer = "ok"
          PROVE  d \in A
      BY <1>3, <2>1
    <2> QED BY <2>1 DEF InLine
  <1> HIDE DEF n, T
  <1>9. InLine(T)
    BY <1>2, <1>5, <1>6, <1>7, <1>8 DEF InLine
  <1> QED BY <1>9 DEF T

LEMMA AnswerIsLost ==
  ASSUME Auth!AuthConstants, AuthInv, UNCHANGED <<serverRegisters, r7, r8>>,
         NEW c \in r9, c.step = "answered",
         NEW v, v = GivenError(c, "failed", c.sends, Nobody), r9' = (r9 \ {c}) \cup {v}
  PROVE  AuthInv'
  <1>1. ServerMoves /\ ServerFits' /\ TabShows'
    BY NothingMoves
  <1>2. AuthCallFits(c) /\ CallTyped(c) /\ CallShape(c) /\ c.sends \in Jars
    BY CallIsTyped
  <1>3. /\ SameSent(v, c) /\ v.mine = c.mine /\ v.step = "answered" /\ v.answer = "failed"
        /\ v.who = Nobody /\ v.sets = c.sends /\ v.at = c.at
    BY <1>2, CallFails
  <1>4. CallShape(v) /\ v.op = c.op /\ v.sends = c.sends
    BY <1>3 DEF SameSent
  <1>5. \A d \in r9 : AuthCallFits(d)'
    BY <1>1, CallStays DEF AuthInv, CallsFit
  <1>6. AuthCallFits(c)'
    BY <1>5
  <1>7. CallTyped(v)'
    BY <1>3, <1>4, <1>6 DEF AuthCallFits, CallTyped, Anybody
  <1>8. Tied(v)' /\ AnswerFits(v)'
    BY <1>3, <1>4, <1>6 DEF AuthCallFits, Tied, AnswerFits
  <1>9. SessionFits(v)' /\ RenewalFits(v)' /\ SignOutFits(v)'
    BY <1>3, <1>4, <1>6 DEF AuthCallFits, SessionFits, RenewalFits, SignOutFits
  <1>10. AuthCallFits(v)'
    BY <1>7, <1>8, <1>9 DEF AuthCallFits
  <1>11. InLine(r9')
    <2>1. c \in AnsweredOf(r9) /\ InLine(r9)
      BY DEF AnsweredOf, AuthInv, CallsFit
    <2>2. InLine((r9 \ {c}) \cup {v})
      BY <1>3, <2>1, LineErrs
    <2> QED BY <2>2
  <1>12. \A d \in r9' : d.step = "inserted" => d \in r9
    BY <1>3
  <1>13. InsertedOnce(r9)'
    BY <1>12 DEF AuthInv, CallsFit, InsertedOnce, serverRegisters
  <1>14. ASSUME NEW d \in r9', d.op = "renew"
         PROVE  r9' = {d} /\ r8'.here /\ r8'.status = "signed-in"
    <2>1. c.op = "renew"
      BY <1>4, <1>14 DEF AuthInv, RenewsAlone
    <2>2. r9 = {c} /\ r8.here /\ r8.status = "signed-in"
      BY <2>1 DEF AuthInv, RenewsAlone
    <2> QED BY <1>14, <2>2
  <1>15. CallsFit(r9)'
    BY <1>5, <1>10, <1>11, <1>13 DEF CallsFit
  <1> QED BY <1>1, <1>14, <1>15 DEF AuthInv, RenewsAlone

LEMMA FailureKeeps ==
  ASSUME Auth!AuthConstants, AuthInv, NEW c \in r9, Auth!Fail(c)
  PROVE  AuthInv'
  <1>1. UNCHANGED <<serverRegisters, r7, r8>>
    BY DEF Auth!Fail, Auth!server, serverRegisters
  <1>2. CASE c.step # "answered" /\ Auth!Answers(c, "failed", Nobody, c.sends)
    <2>1. c.sends \in Jars /\ c.sends.session <= r4
      BY CallIsTyped DEF CallTyped
    <2>2. r4' = r4 /\ Nobody \in Anybody
      BY <1>1 DEF serverRegisters, Anybody
    <2>3. Answering(c, "failed", Nobody, c.sends)
      BY <2>1, <2>2 DEF Answering
    <2> QED BY <1>1, <1>2, <2>3, OnlyAnswers
  <1>3. CASE /\ c.step = "answered"
             /\ r9' = (r9 \ {c}) \cup
                        {[c EXCEPT !.answer = "failed", !.sets = c.sends, !.who = Nobody]}
    <2>1. PICK v : v = GivenError(c, "failed", c.sends, Nobody)
      OBVIOUS
    <2>2. r9' = (r9 \ {c}) \cup {v}
      BY <1>3, <2>1 DEF GivenError
    <2> QED BY <1>1, <1>3, <2>1, <2>2, AnswerIsLost
  <1> QED BY <1>2, <1>3 DEF Auth!Fail

-----------------------------------------------------------------------------
(* The page takes an answer, or leaves with its calls.                     *)

LEMMA ImageSize ==
  ASSUME NEW X, IsFiniteSet(X), NEW f, f = [x \in X |-> f[x]], NEW Y, Y = {f[x] : x \in X}
  PROVE  /\ IsFiniteSet(Y)
         /\ (\A x, y \in X : f[x] = f[y] => x = y) => Cardinality(Y) = Cardinality(X)
  <1>1. f \in [X -> Y]
    BY Zenon
  <1>2. \A y \in Y : \E x \in X : f[x] = y
    OBVIOUS
  <1>3. f \in Surjection(X, Y)
    BY <1>1, <1>2 DEF Surjection
  <1>4. (\A x, y \in X : f[x] = f[y] => x = y) => f \in Injection(X, Y)
    BY <1>1 DEF Injection, IsInjective
  <1> QED BY <1>3, <1>4, FS_Surjection

\* An answer one place further up in the line.
MovedUp(d) == [d EXCEPT !.at = IF d.at > 1 THEN d.at - 1 ELSE d.at]

LEMMA CallMovesUp ==
  ASSUME NEW d, CallShape(d), NEW v, v = MovedUp(d)
  PROVE  /\ SameSent(v, d) /\ v.mine = d.mine /\ v.step = d.step /\ v.answer = d.answer
         /\ v.who = d.who /\ v.sets = d.sets
         /\ v.at = IF d.at > 1 THEN d.at - 1 ELSE d.at
  <1>1. v = [d EXCEPT !.at = IF d.at > 1 THEN d.at - 1 ELSE d.at]
    BY DEF MovedUp
  <1> QED BY <1>1, CallWithAt

\* The first in line is taken.
LEMMA LineMovesUp ==
  ASSUME NEW S, InLine(S), \A d \in S : CallShape(d), NEW c \in AnsweredOf(S), c.at = 1,
         NEW f, f = [d \in S \ {c} |-> MovedUp(d)],
         NEW W, W = {f[d] : d \in S \ {c}}
  PROVE  InLine(W)
  <1>1. \A d \in S \ {c} :
           /\ SameSent(f[d], d) /\ f[d].mine = d.mine /\ f[d].step = d.step
           /\ f[d].answer = d.answer /\ f[d].who = d.who
           /\ f[d].at = IF d.at > 1 THEN d.at - 1 ELSE d.at
    BY CallMovesUp
  <1>2. PICK A : A = AnsweredOf(S)
    OBVIOUS
  <1>3. PICK n : n = Cardinality(A)
    OBVIOUS
  <1>4. IsFiniteSet(S) /\ IsFiniteSet(A) /\ n \in Nat
    BY <1>2, <1>3, AnsweredSize DEF InLine
  <1>5. /\ \A d \in A : d.at \in 1..n
        /\ \A d, e \in A : d # e => d.at # e.at
        /\ \A d, e \in A :
             d.op = "signout" /\ d.answer = "ok" /\ e.op = "session" /\ e.answer = "ok"
             /\ d.at < e.at => d.sends.session # e.sends.session
    BY <1>2, <1>3 DEF InLine
  <1>6. PICK B : B = A \ {c}
    OBVIOUS
  <1>7. IsFiniteSet(B) /\ Cardinality(B) = n - 1 /\ B \subseteq S \ {c} /\ IsFiniteSet(S \ {c})
    BY <1>2, <1>3, <1>4, <1>6, FS_RemoveElement DEF AnsweredOf
  <1>8. ASSUME NEW d \in B
        PROVE  d.at \in 2..n /\ f[d].at = d.at - 1
    <2>1. d.at \in 1..n /\ d.at # 1
      BY <1>2, <1>5, <1>6
    <2>2. d.at \in 2..n
      BY <1>4, <2>1
    <2>3. f[d].at = IF d.at > 1 THEN d.at - 1 ELSE d.at
      BY <1>1, <1>7
    <2> QED BY <2>2, <2>3
  <1>9. PICK g : g = [d \in B |-> f[d]]
    OBVIOUS
  <1>10. AnsweredOf(W) = {g[d] : d \in B}
    BY <1>1, <1>2, <1>6, <1>7, <1>9 DEF AnsweredOf
  <1>11. ASSUME NEW d \in B, NEW e \in B, g[d] = g[e]
         PROVE  d = e
    <2>1. f[d] = f[e]
      BY <1>9, <1>11
    <2>2. d.at \in 2..n /\ f[d].at = d.at - 1 /\ e.at \in 2..n /\ f[e].at = e.at - 1
      BY <1>8
    <2>3. d.at = e.at
      BY <1>4, <2>1, <2>2
    <2> QED BY <1>5, <1>6, <2>3
  <1>12. IsFiniteSet(W)
    BY <1>7, ImageSize
  <1>13. Cardinality(AnsweredOf(W)) = n - 1
    <2>1. g = [d \in B |-> g[d]]
      BY <1>9
    <2>2. PICK Y : Y = {g[d] : d \in B}
      OBVIOUS
    <2>3. Cardinality(Y) = Cardinality(B)
      BY <1>7, <1>11, <2>1, <2>2, ImageSize
    <2>4. AnsweredOf(W) = Y
      BY <1>10, <2>2
    <2> QED BY <1>7, <2>3, <2>4
  <1>14. \A w \in AnsweredOf(W) : \E d \in B : w = f[d]
    BY <1>9, <1>10
  <1>15. ASSUME NEW w \in AnsweredOf(W)
         PROVE  w.at \in 1..(n - 1)
    <2>1. PICK d \in B : w = f[d]
      BY <1>14
    <2>2. d.at \in 2..n /\ w.at = d.at - 1
      BY <1>8, <2>1
    <2> QED BY <1>4, <2>2
  <1>16. ASSUME NEW v \in AnsweredOf(W), NEW w \in AnsweredOf(W), v # w
         PROVE  v.at # w.at
    <2>1. PICK d \in B, e \in B : v = f[d] /\ w = f[e]
      BY <1>14
    <2>2. d.at # e.at
      BY <1>5, <1>6, <1>16, <2>1
    <2>3. /\ d.at \in 2..n /\ v.at = d.at - 1
          /\ e.at \in 2..n /\ w.at = e.at - 1
      BY <1>8, <2>1
    <2> QED BY <1>4, <2>2, <2>3
  <1>17. ASSUME NEW v \in AnsweredOf(W), NEW w \in AnsweredOf(W),
                v.op = "signout", v.answer = "ok", w.op = "session", w.answer = "ok", v.at < w.at
         PROVE  v.sends.session # w.sends.session
    <2>1. PICK d \in B, e \in B : v = f[d] /\ w = f[e]
      BY <1>14
    <2>2. /\ SameSent(v, d) /\ d.answer = v.answer
          /\ SameSent(w, e) /\ e.answer = w.answer
      BY <1>1, <1>7, <2>1
    <2>3. /\ d.op = v.op /\ d.sends = v.sends /\ e.op = w.op /\ e.sends = w.sends
      BY <2>2 DEF SameSent
    <2>4. /\ d.at \in 2..n /\ v.at = d.at - 1
          /\ e.at \in 2..n /\ w.at = e.at - 1
      BY <1>8, <2>1
    <2>5. d.at < e.at
      BY <1>4, <1>17, <2>4
    <2> QED BY <1>5, <1>6, <1>17, <2>2, <2>3, <2>5
  <1> QED BY <1>12, <1>13, <1>15, <1>16, <1>17 DEF InLine

\* What the cookies of the browser become when an answer is taken.
CookiesFollow(c) ==
    /\ r7' \in Jars /\ r7'.session <= r4
    /\ \/ r7'.session = r7.session
       \/ r9 = {c}
       \/ c.op = "signout" /\ c.answer = "ok" /\ r7'.session = 0

\* The calls behind the one that is taken.
LEMMA TheRestFits ==
  ASSUME Auth!AuthConstants, AuthInv, UNCHANGED serverRegisters,
         NEW c \in r9, Auth!Arrives(c), CookiesFollow(c),
         NEW W, W = Auth!Without(c)
  PROVE  /\ CallsFit(W)' /\ (\A d \in W : d.op # "renew")
         /\ c.mine /\ (c.op = "renew" => W = {})
  <1>1. c.step = "answered" /\ c.at = 1
    BY DEF Auth!Arrives
  <1>2. AuthCallFits(c) /\ c.mine /\ CallShape(c)
    BY <1>1, CallIsTyped DEF AuthCallFits, AnswerFits
  <1>3. PICK f : f = [d \in r9 \ {c} |-> MovedUp(d)]
    OBVIOUS
  <1>4. W = {f[d] : d \in r9 \ {c}}
    BY <1>1, <1>3 DEF Auth!Without, MovedUp
  <1>5. \A d \in r9 : AuthCallFits(d) /\ CallTyped(d) /\ CallShape(d)
    BY CallIsTyped
  <1>6. \A d \in r9 \ {c} :
           /\ SameSent(f[d], d) /\ f[d].mine = d.mine /\ f[d].step = d.step
           /\ f[d].answer = d.answer /\ f[d].who = d.who /\ f[d].sets = d.sets
           /\ f[d].at = IF d.at > 1 THEN d.at - 1 ELSE d.at
    BY <1>3, <1>5, CallMovesUp
  <1>7. c \in AnsweredOf(r9) /\ InLine(r9) /\ InsertedOnce(r9) /\ RenewsAlone(r9)
    BY <1>1 DEF AnsweredOf, AuthInv, CallsFit
  <1>8. InLine(W)
    BY <1>1, <1>3, <1>4, <1>5, <1>7, LineMovesUp
  <1>9. \A d \in r9 \ {c} : d.op # "renew" /\ c.op # "renew" /\ r9 # {c}
    BY <1>7 DEF RenewsAlone
  <1>10. ASSUME NEW d \in r9 \ {c}
         PROVE  AuthCallFits(f[d])'
    <2>1. PICK w : w = f[d]
      OBVIOUS
    <2>2. /\ CallShape(w) /\ w.op = d.op /\ w.sends = d.sends /\ w.mine = d.mine
          /\ w.step = d.step /\ w.answer = d.answer /\ w.who = d.who /\ w.sets = d.sets
          /\ w.at = IF d.at > 1 THEN d.at - 1 ELSE d.at
      BY <1>6, <2>1 DEF SameSent
    <2>3. AuthCallFits(d) /\ CallTyped(d)
      BY <1>5
    <2>4. r1' = r1 /\ r2' = r2 /\ r3' = r3 /\ r4' = r4 /\ r5' = r5 /\ r6' = r6
      BY DEF serverRegisters
    <2>5. w.at \in Nat
      BY <2>2, <2>3 DEF CallTyped
    <2>6. CallTyped(w)'
      BY <2>2, <2>3, <2>4, <2>5 DEF CallTyped
    <2>7. Tied(w)' /\ (w.op = "registration" /\ w.mine => Dead(r7.session)')
      <3>1. CASE r7'.session = r7.session
        BY <2>2, <2>3, <2>4, <3>1 DEF AuthCallFits, Tied, Dead, SessionFits
      <3>2. CASE c.op = "signout" /\ c.answer = "ok" /\ r7'.session = 0
        <4>1. c.sends.session # 0 /\ Dead(c.sends.session)
          BY <1>2, <3>2 DEF AuthCallFits, SignOutFits
        <4>2. c.sends.session = r7.session \/ r7.session = 0
          BY <1>2 DEF AuthCallFits, Tied
        <4>3. ASSUME d.op = "session", d.answer = "ok"
              PROVE  d.sends.session # c.sends.session
          <5>1. d \in AnsweredOf(r9)
            BY <2>3, <4>3 DEF AuthCallFits, AnswerFits, AnsweredOf
          <5>2. d.at \in 1..Cardinality(AnsweredOf(r9)) /\ d.at # 1
            BY <1>1, <1>7, <5>1 DEF InLine
          <5>3. Cardinality(AnsweredOf(r9)) \in Nat
            BY <1>7, AnsweredSize DEF InLine
          <5>4. c.at < d.at
            BY <1>1, <5>2, <5>3
          <5> QED BY <1>7, <3>2, <4>3, <5>1, <5>4 DEF InLine
        <4>4. Dead(r7.session)'
          BY <3>2 DEF Dead
        <4>5. d.mine => \/ d.sends.session = 0
                        \/ Dead(d.sends.session) /\ ~(d.op = "session" /\ d.answer = "ok")
          BY <2>3, <4>1, <4>2, <4>3 DEF AuthCallFits, Tied
        <4> QED BY <2>2, <2>4, <3>2, <4>4, <4>5 DEF Tied, Dead
      <3> QED BY <1>9, <3>1, <3>2 DEF CookiesFollow
    <2>8. AnswerFits(w)'
      BY <2>2, <2>3, <2>4 DEF AuthCallFits, AnswerFits
    <2>9. SessionFits(w)'
      BY <2>2, <2>3, <2>4, <2>7 DEF AuthCallFits, SessionFits, Dead
    <2>10. RenewalFits(w)'
      BY <1>9, <2>2 DEF RenewalFits
    <2>11. SignOutFits(w)'
      BY <2>2, <2>3, <2>4 DEF AuthCallFits, SignOutFits, Dead
    <2>12. AuthCallFits(w)'
      BY <2>6, <2>7, <2>8, <2>9, <2>10, <2>11 DEF AuthCallFits
    <2> QED BY <2>1, <2>12
  <1>11. InsertedOnce(W)'
    <2>1. r6' = r6
      BY DEF serverRegisters
    <2> QED BY <1>4, <1>6, <1>7, <2>1 DEF InsertedOnce
  <1>12. \A w \in W : AuthCallFits(w)'
    BY <1>4, <1>10
  <1>13. CallsFit(W)'
    BY <1>8, <1>11, <1>12 DEF CallsFit
  <1>14. \A d \in W : d.op # "renew"
    BY <1>4, <1>6, <1>9 DEF SameSent
  <1>15. c.op = "renew" => W = {}
    BY <1>4, <1>9
  <1> QED BY <1>2, <1>13, <1>14, <1>15

Fresh(v, op, j) ==
    /\ CallShape(v) /\ v.op = op /\ v.mine = TRUE /\ v.sends = j /\ v.step = "sent"
    /\ v.answer = "none" /\ v.who = Nobody /\ v.sets = j /\ v.at = 0

\* A call is sent with the cookies of the moment.
LEMMA CallIsMade ==
  ASSUME Auth!AuthConstants, ServerFits', TabShows', NEW W, CallsFit(W)',
         NEW op \in {"session", "registration", "renew", "signout"} \cup TermsPosts,
         NEW j, j = r7', NEW v, Fresh(v, op, j),
         op = "registration" => Dead(r7.session)'
  PROVE  CallsFit(W \cup {v})' /\ v.op = op
  <1>1. /\ CallShape(v) /\ v.op = op /\ v.mine = TRUE /\ v.sends = j /\ v.step = "sent"
        /\ v.answer = "none" /\ v.who = Nobody /\ v.sets = j /\ v.at = 0
    BY DEF Fresh
  <1>2. j \in Jars /\ j.session <= r4'
    BY DEF TabShows
  <1>3. CallTyped(v)'
    <2>1. v.mine \in BOOLEAN
      BY <1>1, Zenon
    <2>2. v.at \in Nat /\ v.sends.session <= r4' /\ v.sets.session <= r4'
      BY <1>1, <1>2
    <2>3. v.sends \in Jars /\ v.sets \in Jars /\ v.who \in Anybody
      BY <1>1, <1>2, Zenon DEF Anybody
    <2>4. /\ v.op \in {"session", "registration", "renew", "signout"} \cup TermsPosts
          /\ v.step \in {"sent", "answered", "inserted"}
          /\ v.answer \in {"none", "ok", "401", "409", "failed"}
      BY <1>1
    <2> QED BY <1>1, <2>1, <2>2, <2>3, <2>4 DEF CallTyped
  <1>4. Tied(v)' /\ AnswerFits(v)'
    BY <1>1 DEF Tied, AnswerFits
  <1>5. SessionFits(v)' /\ RenewalFits(v)' /\ SignOutFits(v)'
    BY <1>1 DEF SessionFits, RenewalFits, SignOutFits
  <1>6. AuthCallFits(v)'
    BY <1>3, <1>4, <1>5 DEF AuthCallFits
  <1>7. \A c \in W \cup {v} : AuthCallFits(c)'
    BY <1>6 DEF CallsFit
  <1>8. InLine(W \cup {v})
    <2>1. InLine(W) /\ IsFiniteSet(W)
      BY DEF CallsFit, InLine
    <2>2. AnsweredOf(W \cup {v}) = AnsweredOf(W)
      BY <1>1 DEF AnsweredOf
    <2>3. IsFiniteSet(W \cup {v})
      BY <2>1, FS_AddElement
    <2> QED BY <2>1, <2>2, <2>3, SameLine
  <1>9. InsertedOnce(W \cup {v})'
    BY <1>1 DEF CallsFit, InsertedOnce
  <1> QED BY <1>1, <1>7, <1>8, <1>9 DEF CallsFit

\* The tab changes, and an acceptance that is due is posted.
LEMMA BecomesKeeps ==
  ASSUME Auth!AuthConstants, ServerFits', TabShows', NEW W, CallsFit(W)',
         \A d \in W : d.op # "renew", NEW t, Auth!Becomes(t, W)
  PROVE  AuthInv'
  <1>1. CASE r9' = W
    BY <1>1 DEF AuthInv, RenewsAlone
  <1>2. CASE r9' # W
    <2>1. PICK j : j = r7'
      OBVIOUS
    <2>2. PICK op \in TermsPosts : r9' = W \cup {Auth!Fetch(op, "null", FALSE, j, W)}
      BY <1>2, <2>1 DEF Auth!Becomes, TermsPosts
    <2>3. PICK v : v = Auth!Fetch(op, "null", FALSE, j, W)
      OBVIOUS
    <2>4. op # "registration" /\ op # "renew"
      BY DEF TermsPosts
    <2>5. Fresh(v, op, j)
      BY <2>3 DEF Fresh, CallShape, Auth!Fetch
    <2>6. CallsFit(W \cup {v})' /\ v.op = op
      BY <2>1, <2>4, <2>5, CallIsMade
    <2>7. r9' = W \cup {v}
      BY <2>2, <2>3
    <2> QED BY <2>4, <2>6, <2>7 DEF AuthInv, RenewsAlone
  <1> QED BY <1>1, <1>2

\* A call more than those.
LEMMA OneMoreCall ==
  ASSUME Auth!AuthConstants, ServerFits', TabShows', NEW W, CallsFit(W)',
         \A d \in W : d.op # "renew", NEW op \in {"session", "registration", "signout"},
         op = "registration" => Dead(r7.session)', NEW v, Fresh(v, op, r7'), r9' = W \cup {v}
  PROVE  AuthInv'
  <1>1. PICK j : j = r7'
    OBVIOUS
  <1>2. Fresh(v, op, j)
    BY <1>1
  <1>3. CallsFit(W \cup {v})' /\ v.op = op
    BY <1>1, <1>2, CallIsMade
  <1> QED BY <1>3 DEF AuthInv, RenewsAlone

LEMMA TabFields ==
  ASSUME NEW t \in AuthTabs
  PROVE  /\ t.status \in {"loading", "signed-out", "signed-in", "signing-in", "error"}
         /\ t.account \in Anybody /\ t.session \in BOOLEAN
         /\ t.phase \in {"none", "current", "checking", "temporarily-unavailable",
                         "provider-error", "account-unavailable", "expired"}
         /\ t.asked \in BOOLEAN /\ t.stored \in BOOLEAN /\ t.accepted \in BOOLEAN
         /\ t.here \in BOOLEAN
BY DEF AuthTabs

LEMMA TabWithRegistration ==
  ASSUME NEW t \in AuthTabs,
         NEW u, u = [t EXCEPT !.phase = "checking", !.account = Nobody, !.session = FALSE]
  PROVE  /\ u \in AuthTabs /\ u.status = t.status /\ u.account = Nobody /\ ~u.session
         /\ u.stored = t.stored /\ u.accepted = t.accepted /\ u.here = t.here
BY DEF AuthTabs, Anybody

LEMMA TabWithError ==
  ASSUME NEW t \in AuthTabs,
         NEW u, u = [t EXCEPT !.status = "error", !.account = Nobody, !.session = FALSE,
                              !.phase = "none"]
  PROVE  /\ u \in AuthTabs /\ u.status = "error" /\ ~u.session
         /\ u.stored = t.stored /\ u.accepted = t.accepted /\ u.here = t.here
BY DEF AuthTabs, Anybody

LEMMA TabWithPhase ==
  ASSUME NEW t \in AuthTabs, NEW k \in BOOLEAN,
         NEW ph \in {"none", "current", "temporarily-unavailable", "provider-error",
                     "account-unavailable", "expired"},
         NEW u, u = [t EXCEPT !.status = "signed-out", !.phase = ph, !.asked = k]
  PROVE  /\ u \in AuthTabs /\ u.status = "signed-out" /\ u.account = t.account
         /\ u.session = t.session
         /\ u.stored = t.stored /\ u.accepted = t.accepted /\ u.here = t.here
BY DEF AuthTabs

LEMMA TabWithout ==
  ASSUME NEW t \in AuthTabs,
         NEW u, u = [t EXCEPT !.status = "signed-out", !.account = Nobody, !.session = FALSE]
  PROVE  /\ u \in AuthTabs /\ u.status = "signed-out" /\ ~u.session
         /\ u.stored = t.stored /\ u.accepted = t.accepted /\ u.here = t.here
BY DEF AuthTabs, Anybody

LEMMA TabWithNothing ==
  ASSUME NEW t \in AuthTabs,
         NEW u, u = [t EXCEPT !.status = "signed-out", !.account = Nobody, !.session = FALSE,
                              !.phase = "none"]
  PROVE  /\ u \in AuthTabs /\ u.status = "signed-out" /\ ~u.session
         /\ u.stored = t.stored /\ u.accepted = t.accepted /\ u.here = t.here
BY DEF AuthTabs, Anybody

LEMMA TabWithTrouble ==
  ASSUME NEW t \in AuthTabs, NEW u, u = [t EXCEPT !.status = "error"]
  PROVE  /\ u \in AuthTabs /\ u.status = "error" /\ u.account = t.account
         /\ u.session = t.session
         /\ u.stored = t.stored /\ u.accepted = t.accepted /\ u.here = t.here
BY DEF AuthTabs

LEMMA TabWithStored ==
  ASSUME NEW t \in AuthTabs, NEW b \in BOOLEAN, NEW u, u = [t EXCEPT !.stored = b]
  PROVE  /\ u \in AuthTabs /\ u.status = t.status /\ u.account = t.account
         /\ u.session = t.session
         /\ u.stored = b /\ u.accepted = t.accepted /\ u.here = t.here
BY DEF AuthTabs

\* The cookies that come with the answer.
LEMMA CookiesTaken ==
  ASSUME Auth!AuthConstants, AuthInv, UNCHANGED serverRegisters, NEW c \in r9, Auth!Takes(c)
  PROVE  /\ CookiesFollow(c) /\ ServerFits' /\ c.step = "answered" /\ Auth!Arrives(c)
         /\ c.op \notin {"renew", "signout"} \/ c.answer # "ok" => r7' = r7
         /\ c.op = "signout" /\ c.answer = "ok" => r7'.session = 0
         /\ c.op = "renew" /\ c.answer = "ok" => r7'.session = c.sets.session
         /\ r3' = r3 /\ r4' = r4 /\ r5' = r5 /\ r7 \in Jars /\ r7.session <= r4
         /\ r8 \in AuthTabs
  <1>1. Auth!Arrives(c) /\ Auth!SetCookies(c) /\ c.step = "answered"
    BY DEF Auth!Takes, Auth!Arrives
  <1>2. /\ AuthCallFits(c) /\ c.sets \in Jars /\ c.sets.session \in 0..r4
        /\ r4 \in 0..MaxSessions
    BY CallIsTyped
  <1>3. ServerFits' /\ r3' = r3 /\ r4' = r4 /\ r5' = r5
    BY DEF AuthInv, ServerFits, serverRegisters
  <1>4. r7 \in Jars /\ r7.session <= r4 /\ r8 \in AuthTabs
    BY DEF AuthInv, TabShows
  <1>5. CASE c.op \notin {"renew", "signout"} \/ c.answer # "ok"
    <2>1. c.sets = c.sends
      BY <1>2, <1>5 DEF AuthCallFits, AnswerFits
    <2>2. r7' = r7
      BY <1>1, <2>1 DEF Auth!SetCookies
    <2> QED BY <1>1, <1>3, <1>4, <1>5, <2>2 DEF CookiesFollow
  <1>6. CASE c.op = "signout" /\ c.answer = "ok"
    <2>1. c.sends.session # 0 /\ c.sets = Auth!NoCookies /\ c.sets.session = 0
      BY <1>2, <1>6, EmptyJar DEF AuthCallFits, SignOutFits
    <2>2. r7' = c.sets
      BY <1>1, <1>6, <2>1 DEF Auth!SetCookies
    <2> QED BY <1>1, <1>2, <1>3, <1>4, <1>6, <2>1, <2>2 DEF CookiesFollow
  <1>7. CASE c.op = "renew" /\ c.answer = "ok"
    <2>1. r9 = {c} /\ c.sends.session = r7.session
      BY <1>2, <1>7 DEF AuthInv, RenewsAlone, AuthCallFits, RenewalFits
    <2>2. c.sets.session \in 0..MaxSessions
      BY <1>2, JarFields
    <2>3. (r7' = r7 /\ c.sets = c.sends) \/ r7' = [r7 EXCEPT !.session = c.sets.session]
      BY <1>1, <1>7 DEF Auth!SetCookies
    <2>4. r7' \in Jars /\ r7'.session = c.sets.session
      BY <1>4, <2>1, <2>2, <2>3 DEF Jars
    <2>5. r7'.session <= r4
      BY <1>2, <2>4
    <2> QED BY <1>1, <1>3, <1>4, <1>7, <2>1, <2>4, <2>5 DEF CookiesFollow
  <1> QED BY <1>5, <1>6, <1>7

\* How the session stands of which an answer tells.
LEMMA CookieOfCall ==
  ASSUME Auth!AuthConstants, AuthInv, NEW c \in r9, c.step = "answered"
  PROVE  /\ c.op = "session" /\ c.answer = "401" => Dead(r7.session)
         /\ c.op = "registration" => Dead(r7.session)
         /\ c.op = "session" /\ c.answer = "ok" =>
               r7.session # 0 /\ c.who = r3[r7.session].who /\ c.who \in Pair
         /\ c.op = "signout" /\ c.answer = "401" => Dead(r7.session)
         /\ c.op = "renew" => c.sends.session = r7.session
         /\ c.op = "renew" /\ c.answer = "401" => Dead(r7.session)
         /\ c.op = "renew" /\ c.answer = "ok" => c.sets.session # 0
              /\ r3[c.sets.session].who = r3[r7.session].who
  <1>1. AuthCallFits(c) /\ c.mine
    BY CallIsTyped DEF AuthCallFits, AnswerFits
  <1> QED BY <1>1 DEF AuthCallFits, Tied, SessionFits, SignOutFits, RenewalFits, Dead

LEMMA SessionAnswerKeeps ==
  ASSUME Auth!AuthConstants, AuthInv, NEW c \in r9, Auth!loadAccount(c)
  PROVE  AuthInv'
  <1>1. c.op = "session" /\ Auth!Takes(c) /\ UNCHANGED serverRegisters
    BY DEF Auth!loadAccount, Auth!server, serverRegisters
  <1>2. /\ CookiesFollow(c) /\ ServerFits' /\ c.step = "answered" /\ Auth!Arrives(c)
        /\ r7' = r7 /\ r3' = r3 /\ r4' = r4 /\ r5' = r5 /\ r7 \in Jars /\ r7.session <= r4
        /\ r8 \in AuthTabs
    BY <1>1, CookiesTaken
  <1>3. PICK W : W = Auth!Without(c)
    OBVIOUS
  <1>4. CallsFit(W)' /\ (\A d \in W : d.op # "renew")
    BY <1>1, <1>2, <1>3, TheRestFits
  <1>5. /\ c.answer = "401" => Dead(r7.session)
        /\ c.answer = "ok" => r7.session # 0 /\ c.who = r3[r7.session].who /\ c.who \in Pair
    BY <1>1, <1>2, CookieOfCall
  <1>6. CASE /\ c.answer = "401"
             /\ Auth!loadRegistration(c.outcome, c.outcome \in {"pending", "rejected", "success"},
                                      Auth!Without(c))
    <2>1. r8' = [r8 EXCEPT !.phase = "checking", !.account = Nobody, !.session = FALSE]
      BY <1>6 DEF Auth!loadRegistration
    <2>2. /\ r8' \in AuthTabs /\ r8'.status = r8.status /\ r8'.account = Nobody /\ ~r8'.session
          /\ r8'.stored = r8.stored /\ r8'.accepted = r8.accepted
      BY <1>2, <2>1, TabWithRegistration
    <2>3. Dead(r7.session)'
      BY <1>2, <1>5, <1>6 DEF Dead
    <2>4. TabShows'
      BY <1>2, <2>2, <2>3 DEF AuthInv, TabShows
    <2>5. PICK v : v = Auth!Fetch("registration", c.outcome,
                                  c.outcome \in {"pending", "rejected", "success"}, r7', W)
      OBVIOUS
    <2>6. r9' = W \cup {v}
      BY <1>3, <1>6, <2>5 DEF Auth!loadRegistration
    <2>7. Fresh(v, "registration", r7')
      BY <2>5 DEF Fresh, CallShape, Auth!Fetch
    <2> QED BY <1>2, <1>4, <2>3, <2>4, <2>6, <2>7, OneMoreCall
  <1>7. CASE c.answer = "ok" /\ Auth!Becomes(Auth!SignedIn(c), Auth!Without(c))
    <2>1. r8' = [r8 EXCEPT !.status = "signed-in", !.account = c.who, !.session = TRUE,
                           !.phase = "none", !.asked = FALSE]
      BY <1>7 DEF Auth!Becomes, Auth!SignedIn
    <2>2. c.who \in Pair
      BY <1>5, <1>7
    <2>3. /\ r8' \in AuthTabs /\ r8'.status = "signed-in" /\ r8'.account = c.who
          /\ r8'.stored = r8.stored /\ r8'.accepted = r8.accepted
      BY <1>2, <2>1, <2>2 DEF AuthTabs, Anybody
    <2>4. c.who # Nobody
      BY <2>2 DEF Auth!AuthConstants
    <2>5. TabShows'
      BY <1>2, <1>5, <1>7, <2>3, <2>4 DEF AuthInv, TabShows
    <2>6. PICK t : t = Auth!SignedIn(c)
      OBVIOUS
    <2>7. Auth!Becomes(t, W)
      BY <1>3, <1>7, <2>6
    <2> QED BY <1>2, <1>4, <2>5, <2>7, BecomesKeeps
  <1>8. CASE Auth!Becomes(Auth!Failed(r8), Auth!Without(c))
    <2>1. r8' = [r8 EXCEPT !.status = "error", !.account = Nobody, !.session = FALSE,
                           !.phase = "none"]
      BY <1>8 DEF Auth!Becomes, Auth!Failed
    <2>2. /\ r8' \in AuthTabs /\ r8'.status = "error" /\ ~r8'.session
          /\ r8'.stored = r8.stored /\ r8'.accepted = r8.accepted
      BY <1>2, <2>1, TabWithError
    <2>3. TabShows'
      BY <1>2, <2>2 DEF AuthInv, TabShows
    <2>4. PICK t : t = Auth!Failed(r8)
      OBVIOUS
    <2>5. Auth!Becomes(t, W)
      BY <1>3, <1>8, <2>4
    <2> QED BY <1>2, <1>4, <2>3, <2>5, BecomesKeeps
  <1> QED BY <1>6, <1>7, <1>8 DEF Auth!loadAccount

LEMMA RegistrationAnswerKeeps ==
  ASSUME Auth!AuthConstants, AuthInv, NEW c \in r9, Auth!takeRegistration(c)
  PROVE  AuthInv'
  <1>1. c.op = "registration" /\ Auth!Takes(c) /\ UNCHANGED serverRegisters
    BY DEF Auth!takeRegistration, Auth!server, serverRegisters
  <1>2. /\ CookiesFollow(c) /\ ServerFits' /\ c.step = "answered" /\ Auth!Arrives(c)
        /\ r7' = r7 /\ r3' = r3 /\ r4' = r4 /\ r5' = r5 /\ r7 \in Jars /\ r7.session <= r4
        /\ r8 \in AuthTabs
    BY <1>1, CookiesTaken
  <1>3. PICK W : W = Auth!Without(c)
    OBVIOUS
  <1>4. CallsFit(W)' /\ (\A d \in W : d.op # "renew")
    BY <1>1, <1>2, <1>3, TheRestFits
  <1>5. Dead(r7.session)
    BY <1>1, <1>2, CookieOfCall
  <1>6. PICK ph : ph = CASE c.answer = "ok" -> "current"
                         [] c.answer = "401" -> Auth!registrationPhaseForInvalidReceipt(
                                                  c.outcome, c.expected \/ r8.asked)
                         [] OTHER -> "temporarily-unavailable"
    OBVIOUS
  <1>7. ph \in {"none", "current", "temporarily-unavailable", "provider-error",
                "account-unavailable", "expired"}
    BY <1>6, Zenon DEF Auth!registrationPhaseForInvalidReceipt
  <1>8. PICK t : t = [r8 EXCEPT !.status = "signed-out", !.phase = ph,
                                !.asked = r8.asked \/ c.answer = "ok"]
    OBVIOUS
  <1>9. Auth!Becomes(t, W)
    BY <1>3, <1>6, <1>8 DEF Auth!takeRegistration
  <1>10. r8' = [r8 EXCEPT !.status = "signed-out", !.phase = ph,
                          !.asked = r8.asked \/ c.answer = "ok"]
    BY <1>8, <1>9 DEF Auth!Becomes
  <1>11. /\ r8' \in AuthTabs /\ r8'.status = "signed-out" /\ r8'.account = r8.account
         /\ r8'.session = r8.session /\ r8'.stored = r8.stored /\ r8'.accepted = r8.accepted
    BY <1>2, <1>7, <1>10 DEF AuthTabs
  <1>12. TabShows'
    BY <1>2, <1>5, <1>11 DEF AuthInv, TabShows, Dead
  <1> QED BY <1>2, <1>4, <1>9, <1>12, BecomesKeeps

LEMMA RenewalAnswerKeeps ==
  ASSUME Auth!AuthConstants, AuthInv, NEW c \in r9, Auth!takeRenewal(c)
  PROVE  AuthInv'
  <1>1. c.op = "renew" /\ Auth!Takes(c) /\ UNCHANGED serverRegisters
    BY DEF Auth!takeRenewal, Auth!server, serverRegisters
  <1>2. /\ CookiesFollow(c) /\ ServerFits' /\ c.step = "answered" /\ Auth!Arrives(c)
        /\ c.answer # "ok" => r7' = r7
        /\ c.answer = "ok" => r7'.session = c.sets.session
        /\ r3' = r3 /\ r4' = r4 /\ r5' = r5 /\ r8 \in AuthTabs
    BY <1>1, CookiesTaken
  <1>3. PICK W : W = Auth!Without(c)
    OBVIOUS
  <1>4. CallsFit(W)' /\ (\A d \in W : d.op # "renew")
    BY <1>1, <1>2, <1>3, TheRestFits
  <1>5. /\ c.answer = "401" => Dead(r7.session)
        /\ c.answer = "ok" => c.sets.session # 0 /\ r3[c.sets.session].who = r3[r7.session].who
    BY <1>1, <1>2, CookieOfCall
  <1>6. r7' \in Jars /\ r7'.session <= r4' /\ r8.status = "signed-in"
    BY <1>1, <1>2 DEF CookiesFollow, AuthInv, RenewsAlone
  <1>7. CASE r8' = r8
    <2>1. TabShows'
      BY <1>2, <1>5, <1>6, <1>7 DEF AuthInv, TabShows
    <2>2. CASE Auth!Becomes(r8, Auth!Without(c))
      <3>1. PICK t : t = r8
        OBVIOUS
      <3>2. Auth!Becomes(t, W)
        BY <1>3, <2>2, <3>1
      <3> QED BY <1>2, <1>4, <2>1, <3>2, BecomesKeeps
    <2>3. CASE r9' = Auth!Without(c) \cup {Auth!Fetch("session", "null", FALSE, r7',
                                                      Auth!Without(c))}
      <3>1. PICK v : v = Auth!Fetch("session", "null", FALSE, r7', W)
        OBVIOUS
      <3>2. r9' = W \cup {v} /\ Fresh(v, "session", r7')
        BY <1>3, <2>3, <3>1 DEF Fresh, CallShape, Auth!Fetch
      <3> QED BY <1>2, <1>4, <2>1, <3>2, OneMoreCall
    <2> QED BY <1>7, <2>2, <2>3 DEF Auth!takeRenewal, Auth!Becomes
  <1>8. CASE /\ c.answer = "401"
             /\ Auth!Becomes([r8 EXCEPT !.status = "signed-out", !.account = Nobody,
                                        !.session = FALSE], Auth!Without(c))
    <2>1. PICK t : t = [r8 EXCEPT !.status = "signed-out", !.account = Nobody, !.session = FALSE]
      OBVIOUS
    <2>2. Auth!Becomes(t, W)
      BY <1>3, <1>8, <2>1
    <2>3. r8' = [r8 EXCEPT !.status = "signed-out", !.account = Nobody, !.session = FALSE]
      BY <2>1, <2>2 DEF Auth!Becomes
    <2>4. /\ r8' \in AuthTabs /\ r8'.status = "signed-out" /\ ~r8'.session
          /\ r8'.stored = r8.stored /\ r8'.accepted = r8.accepted
      BY <1>2, <2>3, TabWithout
    <2>5. TabShows'
      BY <1>2, <1>5, <1>6, <1>8, <2>4 DEF AuthInv, TabShows, Dead
    <2> QED BY <1>2, <1>4, <2>2, <2>5, BecomesKeeps
  <1>9. CASE Auth!Becomes([r8 EXCEPT !.status = "error"], Auth!Without(c))
    <2>1. PICK t : t = [r8 EXCEPT !.status = "error"]
      OBVIOUS
    <2>2. Auth!Becomes(t, W)
      BY <1>3, <1>9, <2>1
    <2>3. r8' = [r8 EXCEPT !.status = "error"]
      BY <2>1, <2>2 DEF Auth!Becomes
    <2>4. /\ r8' \in AuthTabs /\ r8'.status = "error" /\ r8'.account = r8.account
          /\ r8'.session = r8.session /\ r8'.stored = r8.stored /\ r8'.accepted = r8.accepted
      BY <1>2, <2>3, TabWithTrouble
    <2>5. TabShows'
      BY <1>2, <1>6, <2>4 DEF AuthInv, TabShows
    <2> QED BY <1>2, <1>4, <2>2, <2>5, BecomesKeeps
  <1> QED BY <1>7, <1>8, <1>9 DEF Auth!takeRenewal, Auth!Becomes

LEMMA SignOutAnswerKeeps ==
  ASSUME Auth!AuthConstants, AuthInv, NEW c \in r9, Auth!takeSignOut(c)
  PROVE  AuthInv'
  <1>1. c.op = "signout" /\ Auth!Takes(c) /\ UNCHANGED serverRegisters
    BY DEF Auth!takeSignOut, Auth!server, serverRegisters
  <1>2. /\ CookiesFollow(c) /\ ServerFits' /\ c.step = "answered" /\ Auth!Arrives(c)
        /\ c.answer # "ok" => r7' = r7
        /\ c.answer = "ok" => r7'.session = 0
        /\ r3' = r3 /\ r4' = r4 /\ r5' = r5 /\ r8 \in AuthTabs
    BY <1>1, CookiesTaken
  <1>3. PICK W : W = Auth!Without(c)
    OBVIOUS
  <1>4. CallsFit(W)' /\ (\A d \in W : d.op # "renew")
    BY <1>1, <1>2, <1>3, TheRestFits
  <1>5. c.answer = "401" => Dead(r7.session)
    BY <1>1, <1>2, CookieOfCall
  <1>6. r7' \in Jars /\ r7'.session <= r4'
    BY <1>2 DEF CookiesFollow
  <1>7. CASE /\ c.answer \in {"ok", "401"}
             /\ Auth!Becomes([r8 EXCEPT !.status = "signed-out", !.account = Nobody,
                                        !.session = FALSE, !.phase = "none"], Auth!Without(c))
    <2>1. PICK t : t = [r8 EXCEPT !.status = "signed-out", !.account = Nobody,
                                  !.session = FALSE, !.phase = "none"]
      OBVIOUS
    <2>2. Auth!Becomes(t, W)
      BY <1>3, <1>7, <2>1
    <2>3. r8' = [r8 EXCEPT !.status = "signed-out", !.account = Nobody,
                           !.session = FALSE, !.phase = "none"]
      BY <2>1, <2>2 DEF Auth!Becomes
    <2>4. /\ r8' \in AuthTabs /\ r8'.status = "signed-out" /\ ~r8'.session
          /\ r8'.stored = r8.stored /\ r8'.accepted = r8.accepted
      BY <1>2, <2>3, TabWithNothing
    <2>5. Dead(r7.session)'
      BY <1>2, <1>5, <1>7 DEF Dead
    <2>6. TabShows'
      BY <1>2, <1>6, <2>4, <2>5 DEF AuthInv, TabShows
    <2> QED BY <1>2, <1>4, <2>2, <2>6, BecomesKeeps
  <1>8. CASE c.answer = "failed" /\ Auth!Becomes([r8 EXCEPT !.status = "error"], Auth!Without(c))
    <2>1. PICK t : t = [r8 EXCEPT !.status = "error"]
      OBVIOUS
    <2>2. Auth!Becomes(t, W)
      BY <1>3, <1>8, <2>1
    <2>3. r8' = [r8 EXCEPT !.status = "error"]
      BY <2>1, <2>2 DEF Auth!Becomes
    <2>4. /\ r8' \in AuthTabs /\ r8'.status = "error" /\ r8'.account = r8.account
          /\ r8'.session = r8.session /\ r8'.stored = r8.stored /\ r8'.accepted = r8.accepted
      BY <1>2, <2>3, TabWithTrouble
    <2>5. TabShows'
      BY <1>2, <1>6, <2>4 DEF AuthInv, TabShows
    <2> QED BY <1>2, <1>4, <2>2, <2>5, BecomesKeeps
  <1> QED BY <1>7, <1>8 DEF Auth!takeSignOut

LEMMA StoredAcceptanceKeeps ==
  ASSUME Auth!AuthConstants, AuthInv, NEW c \in r9, Auth!recordStoredTermsAcceptance(c)
  PROVE  AuthInv'
  <1>1. c.op \in TermsPosts /\ Auth!Takes(c) /\ UNCHANGED serverRegisters
    BY DEF Auth!recordStoredTermsAcceptance, Auth!server, serverRegisters, TermsPosts
  <1>2. c.op \notin {"renew", "signout"}
    BY <1>1 DEF TermsPosts
  <1>3. /\ CookiesFollow(c) /\ ServerFits' /\ c.step = "answered" /\ Auth!Arrives(c)
        /\ r7' = r7 /\ r3' = r3 /\ r4' = r4 /\ r5' = r5 /\ r7 \in Jars /\ r7.session <= r4
        /\ r8 \in AuthTabs
    BY <1>1, <1>2, CookiesTaken
  <1>4. PICK W : W = Auth!Without(c)
    OBVIOUS
  <1>5. CallsFit(W)' /\ (\A d \in W : d.op # "renew")
    BY <1>1, <1>3, <1>4, TheRestFits
  <1>6. r9' = W /\ r8' = [r8 EXCEPT !.stored = Auth!StillStored(c)]
    BY <1>4 DEF Auth!recordStoredTermsAcceptance
  <1>7. Auth!StillStored(c) \in BOOLEAN /\ (Auth!StillStored(c) <=> c.answer # "ok" /\ r8.stored)
    BY DEF Auth!StillStored
  <1>8. /\ r8' \in AuthTabs /\ r8'.status = r8.status /\ r8'.account = r8.account
        /\ r8'.session = r8.session /\ r8'.accepted = r8.accepted
        /\ (r8'.stored <=> c.answer # "ok" /\ r8.stored)
    BY <1>3, <1>6, <1>7 DEF AuthTabs
  <1>9. c.answer = "ok" => r5 # {}
    BY <1>1 DEF AuthInv, CallsFit, AuthCallFits, AnswerFits
  <1>10. TabShows'
    BY <1>3, <1>8, <1>9 DEF AuthInv, TabShows, Dead
  <1> QED BY <1>3, <1>5, <1>6, <1>10 DEF AuthInv, RenewsAlone

\* The calls of a page that is left.
LEMMA TheUnheardFit ==
  ASSUME Auth!AuthConstants, AuthInv, \A c \in r9 : c.op # "renew",
         r4' \in r4..MaxSessions, UNCHANGED <<r5, r6>>, NEW U, U = Auth!Unheard
  PROVE  CallsFit(U)' /\ (\A d \in U : d.op # "renew")
  <1>1. PICK R : R = {d \in r9 : d.step # "answered"}
    OBVIOUS
  <1>2. PICK f : f = [d \in R |-> [d EXCEPT !.mine = FALSE]]
    OBVIOUS
  <1>3. U = {f[d] : d \in R}
    BY <1>1, <1>2 DEF Auth!Unheard
  <1>4. \A d \in R : d \in r9 /\ AuthCallFits(d) /\ CallTyped(d) /\ CallShape(d)
    BY <1>1, CallIsTyped
  <1>5. ASSUME NEW d \in R
        PROVE  /\ SameSent(f[d], d) /\ f[d].mine = FALSE /\ f[d].step = d.step
               /\ f[d].answer = d.answer /\ f[d].who = d.who /\ f[d].sets = d.sets
               /\ f[d].at = d.at
    <2>1. CallShape(d)
      BY <1>4
    <2>2. f[d] = [d EXCEPT !.mine = FALSE]
      BY <1>2
    <2> QED BY <2>1, <2>2, CallWithMine
  <1>6. R \subseteq r9 /\ IsFiniteSet(r9) /\ r4 \in 0..MaxSessions
    BY <1>1 DEF AuthInv, CallsFit, InLine, ServerFits
  <1>7. ASSUME NEW d \in R
        PROVE  AuthCallFits(f[d])'
    <2>1. PICK w : w = f[d]
      OBVIOUS
    <2>2. /\ SameSent(w, d) /\ ~w.mine /\ w.mine \in BOOLEAN /\ w.step = d.step
          /\ w.answer = d.answer /\ w.who = d.who /\ w.sets = d.sets /\ w.at = d.at
      BY <1>5, <2>1
    <2>3. CallShape(w) /\ w.op = d.op /\ w.sends = d.sends
      BY <2>2 DEF SameSent
    <2>4. /\ AuthCallFits(d) /\ CallTyped(d) /\ d.step # "answered" /\ d.op # "renew"
          /\ d.sends.session \in 0..r4 /\ d.sets.session \in 0..r4
      BY <1>1, <1>4, <1>6, CallIsTyped
    <2>5. d.sends.session <= r4' /\ d.sets.session <= r4'
      BY <1>6, <2>4 DEF Auth!AuthConstants
    <2>6. CallTyped(w)'
      BY <2>2, <2>3, <2>4, <2>5 DEF CallTyped
    <2>7. w.answer = "none"
      BY <2>2, <2>4 DEF AuthCallFits, AnswerFits
    <2>8. Tied(w)' /\ AnswerFits(w)'
      BY <2>2, <2>3, <2>4, <2>7 DEF Tied, AuthCallFits, AnswerFits
    <2>9. SessionFits(w)' /\ RenewalFits(w)' /\ SignOutFits(w)'
      BY <2>2, <2>3, <2>4, <2>7 DEF SessionFits, RenewalFits, SignOutFits
    <2>10. AuthCallFits(w)'
      BY <2>6, <2>8, <2>9 DEF AuthCallFits
    <2> QED BY <2>1, <2>10
  <1>8. \A u \in U : AuthCallFits(u)'
    BY <1>3, <1>7
  <1>9. InLine(U)
    <2>1. f = [d \in R |-> f[d]]
      BY <1>2
    <2>2. IsFiniteSet(R)
      BY <1>6, FS_Subset
    <2>3. IsFiniteSet(U)
      BY <1>3, <2>1, <2>2, ImageSize
    <2>4. AnsweredOf(U) = {}
      BY <1>1, <1>3, <1>5 DEF AnsweredOf
    <2> QED BY <2>3, <2>4 DEF InLine
  <1>10. \A d \in R : f[d].op = d.op /\ f[d].step = d.step /\ f[d].who = d.who
    BY <1>5 DEF SameSent
  <1>11. InsertedOnce(U)'
    <2>1. InsertedOnce(r9)
      BY DEF AuthInv, CallsFit
    <2>2. \A d \in R : d \in r9
      BY <1>6
    <2> QED BY <1>3, <1>10, <2>1, <2>2 DEF InsertedOnce
  <1>12. \A d \in U : d.op # "renew"
    BY <1>3, <1>6, <1>10
  <1> QED BY <1>8, <1>9, <1>11, <1>12 DEF CallsFit

\* A page of the tab opens.
LEMMA OpensKeeps ==
  ASSUME Auth!AuthConstants, AuthInv, \A c \in r9 : c.op # "renew", ServerFits',
         r4' \in r4..MaxSessions, UNCHANGED <<r5, r6>>, r7' \in Jars, r7'.session <= r4',
         NEW outcome, Auth!Opens(outcome)
  PROVE  AuthInv'
  <1>1. PICK U : U = Auth!Unheard
    OBVIOUS
  <1>2. CallsFit(U)' /\ (\A d \in U : d.op # "renew")
    BY <1>1, TheUnheardFit
  <1>3. r8' = [Auth!BlankTab EXCEPT !.asked = r8.asked, !.stored = r8.stored,
                                    !.accepted = r8.accepted]
    BY DEF Auth!Opens
  <1>4. r8 \in AuthTabs
    BY DEF AuthInv, TabShows
  <1>5. /\ r8' \in AuthTabs /\ r8'.status = "loading" /\ ~r8'.session
        /\ r8'.stored = r8.stored /\ r8'.accepted = r8.accepted
    BY <1>3, <1>4 DEF Auth!BlankTab, AuthTabs, Anybody
  <1>6. TabShows'
    BY <1>5 DEF AuthInv, TabShows
  <1>7. PICK v : v = Auth!Fetch("session", outcome, FALSE, r7', U)
    OBVIOUS
  <1>8. r9' = U \cup {v} /\ Fresh(v, "session", r7')
    BY <1>1, <1>7 DEF Auth!Opens, Fresh, CallShape, Auth!Fetch
  <1> QED BY <1>2, <1>6, <1>8, OneMoreCall

LEMMA NoRenewal ==
  ASSUME AuthInv, Auth!OnPage \/ ~r8.here
  PROVE  \A c \in r9 : c.op # "renew"
BY DEF AuthInv, RenewsAlone, Auth!OnPage

\* The page is left for the identity provider.
LEMMA LeavingKeeps ==
  ASSUME Auth!AuthConstants, AuthInv, Auth!OnPage, UNCHANGED <<serverRegisters, r7>>,
         r8' \in AuthTabs, r8'.status = "signing-in", r8'.account = r8.account,
         r8'.session = r8.session,
         r8'.accepted => r8'.stored \/ (r8.accepted /\ r8'.stored = r8.stored),
         r9' = Auth!Unheard
  PROVE  AuthInv'
  <1>1. PICK U : U = Auth!Unheard
    OBVIOUS
  <1>2. /\ r3' = r3 /\ r4' = r4 /\ r5' = r5 /\ r6' = r6 /\ r7' = r7 /\ ServerFits'
        /\ r4' \in r4..MaxSessions
    BY DEF serverRegisters, AuthInv, ServerFits, Auth!AuthConstants
  <1>3. \A c \in r9 : c.op # "renew"
    BY NoRenewal
  <1>4. CallsFit(U)' /\ (\A d \in U : d.op # "renew")
    BY <1>1, <1>2, <1>3, TheUnheardFit
  <1>5. TabShows'
    BY <1>2 DEF AuthInv, TabShows
  <1> QED BY <1>1, <1>2, <1>4, <1>5 DEF AuthInv, RenewsAlone

LEMMA GoingToSignInKeeps ==
  ASSUME Auth!AuthConstants, AuthInv, Auth!Leave \/ Auth!handleRequestAccount
  PROVE  AuthInv'
  <1>1. Auth!OnPage /\ UNCHANGED <<serverRegisters, r7>> /\ r9' = Auth!Unheard
    BY DEF Auth!Leave, Auth!handleRequestAccount, Auth!signIn, Auth!server, serverRegisters
  <1>2. r8 \in AuthTabs
    BY DEF AuthInv, TabShows
  <1>3. CASE r8' = [r8 EXCEPT !.status = "signing-in", !.here = FALSE]
    <2>1. /\ r8' \in AuthTabs /\ r8'.status = "signing-in" /\ r8'.account = r8.account
          /\ r8'.session = r8.session /\ r8'.accepted = r8.accepted /\ r8'.stored = r8.stored
      BY <1>2, <1>3 DEF AuthTabs
    <2> QED BY <1>1, <2>1, LeavingKeeps
  <1>4. CASE r8' = [[r8 EXCEPT !.asked = TRUE, !.stored = TRUE, !.accepted = TRUE]
                      EXCEPT !.status = "signing-in", !.here = FALSE]
    <2>1. /\ r8' \in AuthTabs /\ r8'.status = "signing-in" /\ r8'.account = r8.account
          /\ r8'.session = r8.session /\ r8'.stored
      BY <1>2, <1>4 DEF AuthTabs
    <2> QED BY <1>1, <2>1, LeavingKeeps
  <1> QED BY <1>3, <1>4 DEF Auth!Leave, Auth!handleRequestAccount, Auth!signIn

LEMMA ReloadKeeps ==
  ASSUME Auth!AuthConstants, AuthInv, Auth!Reload \/ Auth!CallbackError
  PROVE  AuthInv'
  <1>1. /\ UNCHANGED <<serverRegisters, r7>> /\ (Auth!OnPage \/ ~r8.here)
        /\ \E outcome \in {"null", "error"} : Auth!Opens(outcome)
    BY DEF Auth!Reload, Auth!CallbackError, Auth!server, serverRegisters
  <1>2. /\ r4' = r4 /\ r5' = r5 /\ r6' = r6 /\ r7' = r7 /\ ServerFits'
        /\ r4' \in r4..MaxSessions
    BY <1>1 DEF serverRegisters, AuthInv, ServerFits, Auth!AuthConstants
  <1>3. r7' \in Jars /\ r7'.session <= r4'
    BY <1>2 DEF AuthInv, TabShows
  <1>4. \A c \in r9 : c.op # "renew"
    BY <1>1, NoRenewal
  <1> QED BY <1>1, <1>2, <1>3, <1>4, OpensKeeps

LEMMA ReturnKeeps ==
  ASSUME Auth!AuthConstants, AuthInv, NEW p \in Pair, Auth!Callback(p)
  PROVE  AuthInv'
  <1>1. ~r8.here /\ r5' = r5 /\ r6' = r6
    BY DEF Auth!Callback
  <1>2. \A c \in r9 : c.op # "renew"
    BY <1>1, NoRenewal
  <1>3. r4 \in 0..MaxSessions /\ r4 \in r4..MaxSessions
    BY DEF AuthInv, ServerFits, Auth!AuthConstants
  <1>4. CASE /\ Auth!Mint(p, IF r7.session # 0 /\ r3[r7.session].who = p THEN r7.session ELSE 0)
             /\ r7' = [session |-> r4 + 1, receipt |-> Nobody]
             /\ Auth!Opens("success") /\ UNCHANGED <<r1, r2>>
    <2>1. PICK old : old = IF r7.session # 0 /\ r3[r7.session].who = p THEN r7.session ELSE 0
      OBVIOUS
    <2>2. Auth!Mint(p, old)
      BY <1>4, <2>1
    <2>3. ServerFits' /\ r4' = r4 + 1 /\ r4' \in 1..MaxSessions
      BY <1>1, <1>4, <2>2, MintMoves DEF AuthInv
    <2>4. r4' \in r4..MaxSessions
      BY <1>3, <2>3 DEF Auth!AuthConstants
    <2>5. r7' \in Jars /\ r7'.session <= r4'
      BY <1>3, <1>4, <2>3 DEF Jars, Anybody, Auth!AuthConstants
    <2> QED BY <1>1, <1>2, <1>4, <2>3, <2>4, <2>5, OpensKeeps
  <1>5. CASE /\ r1' = [r1 EXCEPT ![p] = IF @ = "none" THEN "pending" ELSE @]
             /\ r2' = r2 \cup {p} /\ r7' = [session |-> 0, receipt |-> p]
             /\ Auth!Opens(r1'[p]) /\ UNCHANGED <<r3, r4>>
    <2>1. /\ r1' \in [Pair -> Auth!AccountStates]
          /\ r2' \subseteq {q \in Pair : r1'[q] # "none"}
      BY <1>5 DEF AuthInv, ServerFits, Auth!AccountStates
    <2>2. ServerFits'
      BY <1>1, <1>5, <2>1 DEF AuthInv, ServerFits
    <2>3. r7' \in Jars /\ r7'.session = 0
      BY <1>5 DEF Jars, Anybody, Auth!AuthConstants
    <2>4. r7'.session <= r4' /\ r4' \in r4..MaxSessions
      BY <1>3, <1>5, <2>3
    <2>5. PICK outcome : outcome = r1'[p]
      OBVIOUS
    <2>6. Auth!Opens(outcome)
      BY <1>5, <2>5
    <2> QED BY <1>1, <1>2, <2>2, <2>3, <2>4, <2>6, OpensKeeps
  <1>6. CASE r7' = Auth!NoCookies /\ Auth!Opens("unavailable") /\ UNCHANGED <<r1, r2, r3, r4>>
    <2>1. ServerFits'
      BY <1>1, <1>6 DEF AuthInv, ServerFits
    <2>2. r7' \in Jars /\ r7'.session = 0
      BY <1>6, EmptyJar
    <2>3. r7'.session <= r4' /\ r4' \in r4..MaxSessions
      BY <1>3, <1>6, <2>2
    <2> QED BY <1>1, <1>2, <1>6, <2>1, <2>2, <2>3, OpensKeeps
  <1> QED BY <1>4, <1>5, <1>6 DEF Auth!Callback

\* A call is made from the page as it is.
LEMMA OneCallOnThePage ==
  ASSUME Auth!AuthConstants, AuthInv, Auth!OnPage, UNCHANGED <<serverRegisters, r7>>, TabShows',
         NEW op \in {"session", "registration", "signout"}, op = "registration" => Dead(r7.session),
         NEW v, Fresh(v, op, r7'), r9' = r9 \cup {v}
  PROVE  AuthInv'
  <1>1. PICK W : W = r9
    OBVIOUS
  <1>2. /\ r1' = r1 /\ r2' = r2 /\ r3' = r3 /\ r4' = r4 /\ r5' = r5 /\ r6' = r6 /\ r7' = r7
    BY DEF serverRegisters
  <1>3. ServerFits'
    BY <1>2 DEF AuthInv, ServerFits
  <1>4. CallsFit(W)'
    <2>1. ASSUME NEW d \in W
          PROVE  AuthCallFits(d)'
      <3>1. AuthCallFits(d)
        BY <1>1 DEF AuthInv, CallsFit
      <3>2. CallTyped(d)' /\ Tied(d)' /\ AnswerFits(d)'
        BY <1>2, <3>1 DEF AuthCallFits, CallTyped, Tied, AnswerFits, Dead
      <3>3. SessionFits(d)' /\ RenewalFits(d)' /\ SignOutFits(d)'
        BY <1>2, <3>1 DEF AuthCallFits, SessionFits, RenewalFits, SignOutFits, Dead
      <3> QED BY <3>2, <3>3 DEF AuthCallFits
    <2>2. InLine(W)
      BY <1>1 DEF AuthInv, CallsFit
    <2>3. InsertedOnce(W)'
      BY <1>1, <1>2 DEF AuthInv, CallsFit, InsertedOnce
    <2> QED BY <2>1, <2>2, <2>3 DEF CallsFit
  <1>5. \A d \in W : d.op # "renew"
    BY <1>1, NoRenewal
  <1>6. op = "registration" => Dead(r7.session)'
    BY <1>2 DEF Dead
  <1>7. r9' = W \cup {v}
    BY <1>1
  <1> QED BY <1>3, <1>4, <1>5, <1>6, <1>7, OneMoreCall

LEMMA AskingKeeps ==
  ASSUME Auth!AuthConstants, AuthInv, Auth!refreshAccount \/ Auth!signOut
  PROVE  AuthInv'
  <1>1. /\ Auth!OnPage /\ UNCHANGED <<serverRegisters, r7, r8>>
        /\ \E op \in {"session", "signout"} : Auth!Sends(op, "null")
    BY DEF Auth!refreshAccount, Auth!signOut, Auth!server, serverRegisters
  <1>2. PICK op \in {"session", "signout"} : Auth!Sends(op, "null")
    BY <1>1
  <1>3. TabShows'
    BY <1>1, NothingMoves
  <1>4. PICK v : v = Auth!Fetch(op, "null", FALSE, r7, r9)
    OBVIOUS
  <1>5. Fresh(v, op, r7)
    BY <1>4 DEF Fresh, CallShape, Auth!Fetch
  <1>6. r9' = r9 \cup {v} /\ r7' = r7
    BY <1>1, <1>2, <1>4 DEF Auth!Sends
  <1> QED BY <1>1, <1>3, <1>5, <1>6, OneCallOnThePage

LEMMA AskingForAReceiptKeeps ==
  ASSUME Auth!AuthConstants, AuthInv, Auth!refreshRegistration
  PROVE  AuthInv'
  <1>1. /\ Auth!OnPage /\ UNCHANGED <<serverRegisters, r7>> /\ r8.status = "signed-out"
        /\ Auth!loadRegistration("null", TRUE, r9)
    BY DEF Auth!refreshRegistration, Auth!server, serverRegisters
  <1>2. r8 \in AuthTabs /\ Dead(r7.session)
    BY <1>1 DEF AuthInv, TabShows
  <1>3. r8' = [r8 EXCEPT !.phase = "checking", !.account = Nobody, !.session = FALSE]
    BY <1>1 DEF Auth!loadRegistration
  <1>4. /\ r8' \in AuthTabs /\ r8'.status = r8.status /\ r8'.account = Nobody /\ ~r8'.session
        /\ r8'.stored = r8.stored /\ r8'.accepted = r8.accepted
    BY <1>2, <1>3, TabWithRegistration
  <1>5. r3' = r3 /\ r4' = r4 /\ r5' = r5 /\ r7' = r7
    BY <1>1 DEF serverRegisters
  <1>6. TabShows'
    BY <1>2, <1>4, <1>5 DEF AuthInv, TabShows, Dead
  <1>7. PICK v : v = Auth!Fetch("registration", "null", TRUE, r7, r9)
    OBVIOUS
  <1>8. Fresh(v, "registration", r7)
    BY <1>7 DEF Fresh, CallShape, Auth!Fetch
  <1>9. r9' = r9 \cup {v}
    BY <1>1, <1>5, <1>7 DEF Auth!loadRegistration
  <1> QED BY <1>1, <1>2, <1>5, <1>6, <1>8, <1>9, OneCallOnThePage

LEMMA RenewingKeeps ==
  ASSUME Auth!AuthConstants, AuthInv, Auth!renewSession
  PROVE  AuthInv'
  <1>1. /\ Auth!OnPage /\ UNCHANGED <<serverRegisters, r7, r8>> /\ r8.status = "signed-in"
        /\ r9 = {} /\ Auth!Sends("renew", "null")
    BY DEF Auth!renewSession, Auth!server, serverRegisters
  <1>2. ServerFits' /\ TabShows'
    BY <1>1, NothingMoves
  <1>3. PICK j : j = r7'
    OBVIOUS
  <1>4. PICK v : v = Auth!Fetch("renew", "null", FALSE, j, r9)
    OBVIOUS
  <1>5. Fresh(v, "renew", j)
    BY <1>4 DEF Fresh, CallShape, Auth!Fetch
  <1>6. r9' = {v}
    BY <1>1, <1>3, <1>4 DEF Auth!Sends
  <1>7. PICK W : W = r9
    OBVIOUS
  <1>8. CallsFit(W)'
    <2>1. W = {} /\ IsFiniteSet(W)
      BY <1>1, <1>7, FS_EmptySet
    <2>2. InLine(W)
      BY <2>1 DEF InLine, AnsweredOf
    <2> QED BY <2>1, <2>2 DEF CallsFit, InsertedOnce
  <1>9. CallsFit(W \cup {v})'
    BY <1>2, <1>3, <1>5, <1>8, CallIsMade
  <1>10. r9' = W \cup {v}
    BY <1>1, <1>6, <1>7
  <1>11. r8'.here /\ r8'.status = "signed-in"
    BY <1>1 DEF Auth!OnPage
  <1> QED BY <1>2, <1>6, <1>9, <1>10, <1>11 DEF AuthInv, RenewsAlone

-----------------------------------------------------------------------------
(* Every step, and what it comes to.                                       *)

LEMMA AuthInvInit ==
  ASSUME Auth!AuthConstants, Auth!AuthInit
  PROVE  AuthInv
  <1>1. PICK v : v = Auth!Fetch("session", "null", FALSE, Auth!NoCookies, {})
    OBVIOUS
  <1>2. /\ CallShape(v) /\ v.op = "session" /\ v.mine = TRUE /\ v.sends = Auth!NoCookies
        /\ v.step = "sent" /\ v.answer = "none" /\ v.who = Nobody
        /\ v.sets = Auth!NoCookies /\ v.at = 0
    BY <1>1 DEF CallShape, Auth!Fetch
  <1>3. r9 = {v}
    BY <1>1 DEF Auth!AuthInit
  <1>4. /\ r1 \in [Pair -> Auth!AccountStates] /\ r2 = {} /\ r4 = 0 /\ r5 = {}
        /\ r6 = [p \in Pair |-> 0] /\ r7 = Auth!NoCookies /\ r8 = Auth!BlankTab
        /\ r3 = [n \in 1..MaxSessions |-> [who |-> Nobody, live |-> FALSE]]
    BY DEF Auth!AuthInit
  <1>5. Auth!NoCookies \in Jars /\ Auth!NoCookies.session = 0
    BY EmptyJar
  <1>6. ServerFits
    BY <1>4 DEF ServerFits, Anybody, Auth!AuthConstants
  <1>7. TabShows
    <2>1. Auth!BlankTab \in AuthTabs /\ Auth!BlankTab.status = "loading"
          /\ ~Auth!BlankTab.session /\ ~Auth!BlankTab.accepted
      BY DEF Auth!BlankTab, AuthTabs, Anybody
    <2> QED BY <1>4, <1>5, <2>1 DEF TabShows
  <1>8. AuthCallFits(v)
    <2>1. v.mine \in BOOLEAN /\ v.who \in Anybody
      BY <1>2, Zenon DEF Anybody
    <2>2. CallTyped(v)
      BY <1>2, <1>4, <1>5, <2>1 DEF CallTyped
    <2>3. Tied(v) /\ AnswerFits(v) /\ SessionFits(v) /\ RenewalFits(v) /\ SignOutFits(v)
      BY <1>2, <1>4 DEF Tied, AnswerFits, SessionFits, RenewalFits, SignOutFits
    <2> QED BY <2>2, <2>3 DEF AuthCallFits
  <1>9. InLine(r9)
    <2>1. AnsweredOf(r9) = {} /\ IsFiniteSet(r9)
      BY <1>2, <1>3, FS_Singleton DEF AnsweredOf
    <2> QED BY <2>1 DEF InLine
  <1>10. InsertedOnce(r9)
    BY <1>2, <1>3 DEF InsertedOnce
  <1>11. CallsFit(r9) /\ RenewsAlone(r9)
    BY <1>2, <1>3, <1>8, <1>9, <1>10 DEF CallsFit, RenewsAlone
  <1> QED BY <1>6, <1>7, <1>11 DEF AuthInv

LEMMA AuthInvNext ==
  ASSUME Auth!AuthConstants, AuthInv, Auth!AuthNext
  PROVE  AuthInv'
  <1>1. CASE Auth!Leave \/ Auth!handleRequestAccount
    BY <1>1, GoingToSignInKeeps
  <1>2. CASE Auth!Reload \/ Auth!CallbackError
    BY <1>2, ReloadKeeps
  <1>3. CASE Auth!refreshAccount \/ Auth!signOut
    BY <1>3, AskingKeeps
  <1>4. CASE Auth!refreshRegistration
    BY <1>4, AskingForAReceiptKeeps
  <1>5. CASE Auth!renewSession
    BY <1>5, RenewingKeeps
  <1>6. CASE \E p \in Pair : Auth!Callback(p)
    BY <1>6, ReturnKeeps
  <1>7. CASE Auth!Decide
    BY <1>7, DecisionKeeps
  <1>8. ASSUME NEW c \in r9,
               \/ Auth!ServeSession(c) \/ Auth!getRegistrationStatus(c)
               \/ Auth!rotateBrowserSession(c) \/ Auth!revokeBrowserSession(c)
               \/ Auth!recordTermsAcceptance(c) \/ Auth!auditTermsAcceptance(c) \/ Auth!Fail(c)
        PROVE  AuthInv'
    BY <1>8, ServeSessionKeeps, RegistrationStatusKeeps, RotationKeeps, RevocationKeeps,
       AcceptanceKeeps, AuditKeeps, FailureKeeps
  <1>9. ASSUME NEW c \in r9,
               \/ Auth!loadAccount(c) \/ Auth!takeRegistration(c) \/ Auth!takeRenewal(c)
               \/ Auth!takeSignOut(c) \/ Auth!recordStoredTermsAcceptance(c)
        PROVE  AuthInv'
    BY <1>9, SessionAnswerKeeps, RegistrationAnswerKeeps, RenewalAnswerKeeps,
       SignOutAnswerKeeps, StoredAcceptanceKeeps
  <1> QED BY <1>1, <1>2, <1>3, <1>4, <1>5, <1>6, <1>7, <1>8, <1>9 DEF Auth!AuthNext

LEMMA AuthPromises ==
  ASSUME Auth!AuthConstants, AuthInv
  PROVE  Auth!AuthTypeOK /\ Auth!HeaderTellsTheTruth /\ Auth!AcceptanceIsKept
  <1>1. Auth!AuthTypeOK
    BY DEF AuthInv, ServerFits, TabShows, Auth!AuthTypeOK, Jars, Anybody
  <1>2. Auth!HeaderTellsTheTruth
    BY DEF AuthInv, TabShows, Dead, Auth!HeaderTellsTheTruth, Auth!headerAccountPresentation
  <1>3. Auth!AcceptanceIsKept
    BY DEF AuthInv, ServerFits, TabShows, Auth!AcceptanceIsKept
  <1> QED BY <1>1, <1>2, <1>3

\* The header of a page with nothing under way names the person whose session the browser
\* holds, and says "signed out" only when no session it holds would be honoured; an acceptance
\* of the terms is stored until it is on record, and recorded once (AuthProvider.tsx).
THEOREM HeaderIsTrue == PagesSpec => []HeaderTellsTheTruth
  <1> DEFINE Inv == machine = "auth" => AuthInv
  <1>0. Auth!AuthConstants
    BY PagesConstants
  <1>1. PagesInit => Inv
    BY <1>0, AuthInvInit DEF PagesInit
  <1>2. Inv /\ [PagesNext]_<<machine, registers>> => Inv'
    <2> SUFFICES ASSUME Inv, [PagesNext]_<<machine, registers>>, machine' = "auth"
                 PROVE  AuthInv'
      OBVIOUS
    <2>1. CASE PagesNext
      <3>1. machine = "auth" /\ Auth!AuthNext
        BY <2>1 DEF PagesNext
      <3> QED BY <1>0, <3>1, AuthInvNext
    <2>2. CASE UNCHANGED <<machine, registers>>
      <3>1. AuthInv /\ UNCHANGED <<serverRegisters, r7, r8, r9>>
        BY <2>2 DEF registers, serverRegisters
      <3>2. ServerMoves /\ ServerFits' /\ TabShows'
        BY <1>0, <3>1, NothingMoves
      <3>3. \A d \in r9 : AuthCallFits(d)'
        BY <1>0, <3>1, <3>2, CallStays DEF AuthInv, CallsFit
      <3>4. CallsFit(r9)' /\ RenewsAlone(r9)'
        BY <3>1, <3>3 DEF AuthInv, CallsFit, InsertedOnce, RenewsAlone, serverRegisters
      <3> QED BY <3>2, <3>4 DEF AuthInv
    <2> QED BY <2>1, <2>2
  <1>3. Inv => HeaderTellsTheTruth
    BY <1>0, AuthPromises DEF HeaderTellsTheTruth
  <1> QED BY <1>1, <1>2, <1>3, PTL DEF PagesSpec

=============================================================================
