----------------------------- MODULE OwnerFanout -----------------------------
(***************************************************************************)
(* The expansion of an owner alert into one notification per owner         *)
(* (src/src/worker.ts, expandAccountNotificationFanouts, with the guards   *)
(* of src/migrations/0016_account_notification_outbox.sql).                *)
(*                                                                         *)
(* A registration leaves one durable fan-out record.  Dispatches, which    *)
(* may overlap, walk the approved owners in the order of their ids, page   *)
(* by page: they read the record, read a page of owners, and in one batch  *)
(* insert the alerts of the page and advance the record's cursor under a   *)
(* compare-and-set.  The first page fixes the recipient cutoff.  Requests  *)
(* stamp what they write with the time at which they began, which may lie  *)
(* well before the commit.                                                 *)
(*                                                                         *)
(* Fan-outs do not touch each other, so there is one.  The deletion of an  *)
(* account, which cascades to its fan-outs and alerts, is left out.        *)
(***************************************************************************)
EXTENDS Naturals, FiniteSets

CONSTANTS
    MaxOwner,        \* owners have the ids 1..MaxOwner
    Dispatchers,     \* concurrent dispatches
    None,            \* SQL NULL
    PageSize,        \* ownerPageSize, 20
    MaxClock,        \* bound on the clock
    MaxChurn         \* bound on the changes of an owner's account state

\* What is assumed of the constants.
FanoutConstants ==
    /\ MaxOwner \in Nat /\ PageSize \in Nat \ {0}
    /\ MaxClock \in Nat /\ MaxChurn \in Nat
    /\ None \notin Nat

VARIABLES
    rollback,  \* does the installation's database roll back a batch whose
               \* postcondition fails?  PostgreSQL does, D1 does not
    clock,     \* wall-clock time
    owners,    \* users with the owner role: account state, assigned and decided
    fan,       \* the account_notification_fanouts record
    alerts,    \* owner alerts inserted for this fan-out, per owner
    disp,      \* the dispatches' local state
    churn,     \* changes of account state so far
    owed       \* owners seen when the cutoff was fixed and approved ever since

vars == <<rollback, clock, owners, fan, alerts, disp, churn, owed>>

Owners == 1..MaxOwner

\* `since' is role_assignments.assigned_at and the first approval's decided_at.
NoOwner == [state |-> "absent", since |-> 0]

\* Cursor 0 is NULL: it precedes every owner id.
NoFan == [state |-> "none", cursor |-> 0, cutoff |-> None, revision |-> 1]

Idle == [pc |-> "idle", now |-> 0, read |-> NoFan, page |-> {}, complete |-> FALSE,
         visible |-> {}]

Init ==
    /\ rollback \in BOOLEAN
    /\ clock = 0
    /\ owners = [o \in Owners |-> NoOwner]
    /\ fan = NoFan
    /\ alerts = [o \in Owners |-> 0]
    /\ disp = [d \in Dispatchers |-> Idle]
    /\ churn = 0
    /\ owed = {}

Approved == {o \in Owners : owners[o].state = "approved"}

Tick ==
    /\ clock < MaxClock
    /\ clock' = clock + 1
    /\ UNCHANGED <<rollback, owners, fan, alerts, disp, churn, owed>>

\* createOrRefreshAccount for the configured bootstrap owner, in a request
\* that began at time t.
BootstrapOwner(o, t) ==
    /\ owners[o].state = "absent"
    /\ owners' = [owners EXCEPT ![o] = [state |-> "approved", since |-> t]]
    /\ UNCHANGED <<rollback, clock, fan, alerts, disp, churn, owed>>

\* changeAccountState of an owner: away from approved and back.
SuspendOwner(o) ==
    /\ owners[o].state = "approved"
    /\ churn < MaxChurn
    /\ churn' = churn + 1
    /\ owners' = [owners EXCEPT ![o].state = "suspended"]
    /\ owed' = owed \ {o}
    /\ disp' = [d \in Dispatchers |-> [disp[d] EXCEPT !.visible = @ \ {o}]]
    /\ UNCHANGED <<rollback, clock, fan, alerts>>

ReapproveOwner(o) ==
    /\ owners[o].state = "suspended"
    /\ owners' = [owners EXCEPT ![o].state = "approved"]
    /\ UNCHANGED <<rollback, clock, fan, alerts, disp, churn, owed>>

\* accountNotificationFanoutStatement, in the batch of the registration.
RecordFanout ==
    /\ fan.state = "none"
    /\ fan' = [NoFan EXCEPT !.state = "pending"]
    /\ UNCHANGED <<rollback, clock, owners, alerts, disp, churn, owed>>

\* A dispatch begins,
BeginDispatch(d) ==
    /\ disp[d].pc = "idle"
    /\ disp' = [disp EXCEPT ![d] = [Idle EXCEPT !.pc = "fanouts", !.now = clock]]
    /\ UNCHANGED <<rollback, clock, owners, fan, alerts, churn, owed>>

\* reads the pending fan-outs,
SelectFanout(d) ==
    /\ disp[d].pc = "fanouts"
    /\ disp' = [disp EXCEPT ![d] = IF fan.state = "pending"
                                   THEN [disp[d] EXCEPT !.pc = "owners", !.read = fan]
                                   ELSE Idle]
    /\ UNCHANGED <<rollback, clock, owners, fan, alerts, churn, owed>>

\* The recipient cutoff a run works with: the stored one, or its own time.
Cutoff(d) == IF disp[d].read.cutoff = None THEN disp[d].now ELSE disp[d].read.cutoff

\* The owners that a run's SELECT can see beyond the cursor it read.
Selectable(d) ==
    {o \in Approved : o > disp[d].read.cursor /\ owners[o].since <= Cutoff(d)}

\* The k smallest ids of a set.
First(k, S) == {o \in S : Cardinality({p \in S : p < o}) < k}

\* Mutant: the extra owner asked for does not count as another page.
LastPage_OffByOne(S) == Cardinality(S) <= PageSize + 1

\* One owner more than a page is asked for, to tell whether the page is the last.
LastPage(S) == Cardinality(S) <= PageSize

\* and a page of owners.  Without any owner and without a cutoff the fan-out
\* waits for the first owner.
SelectOwners(d) ==
    /\ disp[d].pc = "owners"
    /\ LET S == Selectable(d)
       IN  disp' = [disp EXCEPT ![d] =
             IF S = {} /\ disp[d].read.cutoff = None
             THEN Idle
             ELSE [disp[d] EXCEPT !.pc = "commit", !.page = First(PageSize, S),
                                  !.complete = LastPage(S),
                                  !.visible = S]]
    /\ UNCHANGED <<rollback, clock, owners, fan, alerts, churn, owed>>

\* Mutant: no ON CONFLICT (installation_id, idempotency_key) DO NOTHING.
Inserted_Again(page) ==
    [o \in Owners |-> IF o \in page \cap Approved THEN alerts[o] + 1 ELSE alerts[o]]

\* The alerts after the inserts of a batch: one for each owner of the page who
\* is still approved and has none.
Inserted(page) ==
    [o \in Owners |-> IF o \in page \cap Approved /\ alerts[o] = 0 THEN 1 ELSE alerts[o]]

\* Mutant: the UPDATE only asks that the fan-out is pending.
Advances_Unconditionally(d, rows) == fan.state = "pending"

\* Mutant: the evidence is compared with the page size, not with the page.
Advances_FullPage(d, rows) ==
    /\ fan.state = "pending"
    /\ fan.revision = disp[d].read.revision
    /\ fan.cutoff = disp[d].read.cutoff
    /\ Cardinality({o \in disp[d].page : rows[o] = 1}) = PageSize

\* The WHERE clause of the UPDATE that advances the fan-out: unchanged since it
\* was read, and every owner of the page has an alert.
Advances(d, rows) ==
    /\ fan.state = "pending"
    /\ fan.revision = disp[d].read.revision
    /\ fan.cutoff = disp[d].read.cutoff
    /\ \A o \in disp[d].page : rows[o] = 1

\* Where the cursor stands after a page: on its last owner.
CursorAfter(page, cursor) ==
    IF page = {} THEN cursor ELSE CHOOSE o \in page : \A p \in page : p <= o

\* The batch of the inserts and the UPDATE.  If the UPDATE changes nothing, the
\* inserts may be taken back; the run goes on either way.
Commit(d) ==
    LET page == disp[d].page
        rows == Inserted(page)
    IN  /\ disp[d].pc = "commit"
        /\ disp' = [disp EXCEPT ![d] = Idle]
        /\ IF Advances(d, rows)
           THEN /\ fan' = [state |-> IF disp[d].complete THEN "complete" ELSE "pending",
                           cursor |-> CursorAfter(page, fan.cursor),
                           cutoff |-> IF fan.cutoff = None THEN Cutoff(d) ELSE fan.cutoff,
                           revision |-> fan.revision + 1]
                /\ alerts' = rows
                /\ owed' = IF fan.cutoff = None THEN disp[d].visible ELSE owed
           ELSE /\ alerts' = IF rollback THEN alerts ELSE rows
                /\ UNCHANGED <<fan, owed>>
        /\ UNCHANGED <<rollback, clock, owners, churn>>

DispatchStep(d) == SelectFanout(d) \/ SelectOwners(d) \/ Commit(d)

Next ==
    \/ Tick
    \/ \E o \in Owners : \/ \E t \in 0..clock : BootstrapOwner(o, t)
                        \/ SuspendOwner(o)
                        \/ ReapproveOwner(o)
    \/ RecordFanout
    \/ \E d \in Dispatchers : BeginDispatch(d) \/ DispatchStep(d)

Spec == Init /\ [][Next]_vars

-----------------------------------------------------------------------------
(* Properties *)

Fan == [state : {"none", "pending", "complete"}, cursor : 0..MaxOwner,
        cutoff : Nat \cup {None}, revision : Nat]

\* The columns and the dispatches' variables keep their types.
TypeOK ==
    /\ rollback \in BOOLEAN /\ clock \in Nat /\ churn \in Nat
    /\ owners \in [Owners -> [state : {"absent", "approved", "suspended"}, since : Nat]]
    /\ fan \in Fan
    /\ alerts \in [Owners -> Nat]
    /\ disp \in [Dispatchers -> [pc : {"idle", "fanouts", "owners", "commit"}, now : Nat,
                                 read : Fan, page : SUBSET Owners, complete : BOOLEAN,
                                 visible : SUBSET Owners]]
    /\ owed \subseteq Owners

\* However dispatches overlap and owners come and go, the cursor passes nobody:
\* a complete fan-out has alerted every owner that was seen when the cutoff was
\* fixed and stayed approved.
NobodyIsSkipped ==
    fan.state = "complete" => \A o \in owed : alerts[o] >= 1

\* Repeated and concurrent expansions of a page never alert an owner twice.
NobodyIsAlertedTwice == \A o \in Owners : alerts[o] <= 1

\* An owner whose approval is stamped after the cutoff is not alerted, even by
\* the pages of runs that began later, where a lost page leaves nothing behind:
\* the recipient set does not move.
RecipientsAreFixed ==
    fan.cutoff # None /\ rollback =>
        \A o \in Owners : alerts[o] >= 1 => owners[o].since <= fan.cutoff

\* No advance would trip the cursor, cutoff, state or revision guards of the
\* table, whose error would end the dispatch before it delivers anything.
AdvancesPassTheGuards ==
    [][fan.state # "none" =>
          /\ fan'.cursor >= fan.cursor
          /\ fan'.state = "pending" => fan'.cursor > fan.cursor
          /\ fan.cutoff # None => fan'.cutoff = fan.cutoff
          /\ fan.state = "complete" => fan' = fan
          /\ fan'.revision <= fan.revision + 1]_fan

-----------------------------------------------------------------------------
\* The cron trigger keeps dispatching and a run goes on: its awaits are
\* database calls.  Owners change state only finitely often (MaxChurn).
FairSpec ==
    /\ Spec
    /\ \A d \in Dispatchers : WF_vars(BeginDispatch(d)) /\ WF_vars(DispatchStep(d))

\* A recorded fan-out completes once there is an approved owner to stay: pages
\* lost to a concurrent dispatch or to an owner's departure are retried.
FanoutCompletes ==
    <>[](Approved # {}) => (fan.state = "pending" ~> fan.state = "complete")

=============================================================================
