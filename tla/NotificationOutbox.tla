------------------------- MODULE NotificationOutbox -------------------------
(***************************************************************************)
(* The account notification outbox (src/src/worker.ts,                     *)
(* dispatchAccountNotifications and replayDeadLetterAccountNotifications,  *)
(* with the table of src/migrations/0016_account_notification_outbox.sql). *)
(*                                                                         *)
(* Any number of dispatchers (owner requests and scheduled ticks) work on  *)
(* one table.  One SQL statement or batch is one step; everything may      *)
(* happen between two statements of a dispatcher, including its death.  A  *)
(* dispatcher stamps everything it writes with the time `now' at which its *)
(* request began, never with the time of the write.                        *)
(*                                                                         *)
(* Abstracted: rendered text, addresses and error codes; the account state *)
(* that decides a recipient's eligibility is an input of the read (it is   *)
(* modelled by AccountApproval); the expansion of owner fan-outs that      *)
(* precedes each dispatch is OwnerFanout; audit events are counted for the *)
(* two terminal states only, since nothing reads the others.               *)
(***************************************************************************)
EXTENDS Naturals, FiniteSets, FiniteSetsExt

CONSTANTS
    Ids,             \* notification ids (UUIDs)
    Accounts,        \* users rows a notification may refer to
    Dispatchers,     \* concurrent runs of dispatchAccountNotifications
    Replayers,       \* concurrent runs of replayDeadLetterAccountNotifications
    None,            \* SQL NULL / no value
    MaxAttempts,     \* max_attempts, 5 in the INSERT
    PageLimit,       \* ACCOUNT_NOTIFICATION_DISPATCH_MAX_ITEMS
    LeaseSeconds,    \* life of a lease, 5 * 60
    RetryBase,       \* first retry delay, 60
    RetryCeiling,    \* largest retry delay, 60 * 60
    Transactional,   \* does the database roll back on a failed postcondition?
                     \* (PostgreSQL: yes; D1: no)
    MaxClock,        \* bound on the clock
    MaxCrashes       \* bound on dispatcher deaths and failed batches

\* accountNotificationRetryDelaySeconds.
RetryDelay(attempt) ==
    LET doubled == RetryBase * 2^(attempt - 1)
    IN  IF doubled <= RetryCeiling THEN doubled ELSE RetryCeiling

ASSUME OutboxConstants ==
    /\ MaxAttempts \in Nat \ {0}
    /\ PageLimit \in Nat \ {0}
    /\ LeaseSeconds \in Nat \ {0}
    /\ RetryBase \in Nat \ {0}
    /\ RetryCeiling \in Nat \ {0}
    /\ Transactional \in BOOLEAN
    /\ MaxClock \in Nat
    /\ MaxCrashes \in Nat
    /\ None \notin Ids

\* The delay is a number for every attempt that can fail.
ASSUME RetryDelayIsNat == \A a \in 1..MaxAttempts : RetryDelay(a) \in Nat

VARIABLES
    clock,       \* wall-clock time, in seconds
    rows,        \* account_notifications
    issued,      \* lease tokens handed out so far: the next UUID is fresh
    disp,        \* the dispatchers' local state
    replay,      \* the replay requests' local state
    audits,      \* terminal audit events per notification
    accepted,    \* the delivery provider: attempts it accepted, per notification
    calls,       \* number of adapter calls, per notification and attempt
    claimedAt,   \* the `now' of the last claim, per notification
    crashes      \* dispatcher deaths so far

vars == <<clock, rows, issued, disp, replay, audits, accepted, calls,
          claimedAt, crashes>>

observed == <<audits, accepted, calls, claimedAt>>

-----------------------------------------------------------------------------
(* Rows *)

Kinds      == {"owner-registration-alert", "learner"}
OwnerKinds == {"owner-registration-alert"}
InQueue    == {"pending", "retryable"}
Terminal   == {"delivered", "dead-letter"}
Stored     == InQueue \cup Terminal \cup {"delivering"}
RowStates  == Stored \cup {"unused", "deleted"}

\* "unused" is an id not yet drawn, "deleted" one whose row is gone.
NoRow == [state |-> "unused", kind |-> "learner", parties |-> {}, attempt |-> 0,
          available |-> 0, lease |-> 0, leaseExpires |-> 0, replayOf |-> None]

\* A freshly inserted row: pending, no attempt, due at once, no lease.
NewRow(kind, parties, now, source) ==
    [NoRow EXCEPT !.state = "pending", !.kind = kind, !.parties = parties,
                  !.available = now, !.replayOf = source]

HasReplay(n) == \E m \in Ids : rows[m].state \in Stored /\ rows[m].replayOf = n

\* Row n once its lease is given up: its next state, due at `at'.
Released(n, to, at) ==
    [rows[n] EXCEPT !.state = to, !.available = at, !.lease = 0, !.leaseExpires = 0]

\* Mutant: the audit statement runs before the UPDATE of its batch.
AuditIn_BeforeUpdate(rs, n, state) ==
    IF state \in Terminal /\ rows[n].state = state
    THEN [audits EXCEPT ![n][state] = @ + 1]
    ELSE audits

\* accountNotificationAuditStatement: INSERT ... WHERE EXISTS a row with this
\* id in this state.  rs is the table after the statements before it in the
\* same batch.
AuditIn(rs, n, state) ==
    IF state \in Terminal /\ rs[n].state = state
    THEN [audits EXCEPT ![n][state] = @ + 1]
    ELSE audits

-----------------------------------------------------------------------------
(* Dispatchers *)

Idle == [pc |-> "idle", now |-> 0, kinds |-> {}, expired |-> {}, cands |-> {},
         cur |-> None, token |-> 0, attempt |-> 0, outcome |-> "none"]

\* Goes on to the next candidate of the page.
NextCandidate(d) ==
    [disp[d] EXCEPT !.pc = "claim", !.cur = None, !.token = 0, !.attempt = 0,
                    !.outcome = "none"]

\* The rows a SELECT ... ORDER BY key LIMIT PageLimit may return from S: the
\* smallest by key; ties are broken by columns the model does not carry.
Page(S, key) ==
    {P \in SUBSET S :
        /\ Cardinality(P) = Min({PageLimit, Cardinality(S)})
        /\ \A n \in P, m \in S \ P : key[n] <= key[m]}

NoReplay == [pc |-> "idle", now |-> 0, asked |-> {}, sources |-> {}]

Init ==
    /\ clock = 0
    /\ rows = [n \in Ids |-> NoRow]
    /\ issued = 0
    /\ disp = [d \in Dispatchers |-> Idle]
    /\ replay = [r \in Replayers |-> NoReplay]
    /\ audits = [n \in Ids |-> [s \in Terminal |-> 0]]
    /\ accepted = [n \in Ids |-> {}]
    /\ calls = [n \in Ids |-> [a \in 1..MaxAttempts |-> 0]]
    /\ claimedAt = [n \in Ids |-> 0]
    /\ crashes = 0

Tick ==
    /\ clock < MaxClock
    /\ clock' = clock + 1
    /\ UNCHANGED <<rows, issued, disp, replay, observed, crashes>>

\* accountNotificationStatement, executed in the batch of the account change
\* that the notification reports.
Enqueue(n, kind, parties) ==
    /\ rows[n].state = "unused"
    /\ rows' = [rows EXCEPT ![n] = NewRow(kind, parties, clock, None)]
    /\ UNCHANGED <<clock, issued, disp, replay, observed, crashes>>

\* Completing the deletion of an account cascades to its notifications.
DeleteAccount(a) ==
    /\ \E n \in Ids : rows[n].state \in Stored /\ a \in rows[n].parties
    /\ rows' = [n \in Ids |-> IF rows[n].state \in Stored /\ a \in rows[n].parties
                              THEN [NoRow EXCEPT !.state = "deleted"]
                              ELSE rows[n]]
    /\ UNCHANGED <<clock, issued, disp, replay, observed, crashes>>

\* A dispatch begins: the owner's route asks for every kind, the scheduled
\* drain for the owner-directed kinds.
BeginDispatch(d, kinds) ==
    /\ disp[d].pc = "idle"
    /\ disp' = [disp EXCEPT ![d] = [Idle EXCEPT !.pc = "recover-select",
                                                !.now = clock, !.kinds = kinds]]
    /\ UNCHANGED <<clock, rows, issued, replay, observed, crashes>>

\* Mutant: a lease is only recovered while an attempt is left.
ExpiredLeases_NotTheLast(d) ==
    {n \in Ids : /\ rows[n].state = "delivering"
                 /\ rows[n].leaseExpires <= disp[d].now
                 /\ rows[n].attempt < MaxAttempts
                 /\ rows[n].kind \in disp[d].kinds}

\* The leases that have expired by the time the run began.
ExpiredLeases(d) ==
    {n \in Ids : /\ rows[n].state = "delivering"
                 /\ rows[n].leaseExpires <= disp[d].now
                 /\ rows[n].kind \in disp[d].kinds}

\* SELECT them, oldest first.
SelectExpired(d) ==
    /\ disp[d].pc = "recover-select"
    /\ LET expiry == [n \in Ids |-> rows[n].leaseExpires]
       IN  \E P \in Page(ExpiredLeases(d), expiry) :
             disp' = [disp EXCEPT ![d] = [disp[d] EXCEPT !.pc = "recover",
                        !.expired = {[id |-> n, attempt |-> rows[n].attempt] : n \in P}]]
    /\ UNCHANGED <<clock, rows, issued, replay, observed, crashes>>

\* Is the lease of n still one that a run with this `now' may take back?
LeaseExpired(n, now) ==
    rows[n].state = "delivering" /\ rows[n].leaseExpires <= now

\* One expired lease: a batch of the conditional UPDATE and the audit event.
\* The next state was computed from the attempt count of the earlier SELECT.
RecoverLease(d, e) ==
    LET n    == e.id
        to   == IF e.attempt >= MaxAttempts THEN "dead-letter" ELSE "retryable"
        new  == IF LeaseExpired(n, disp[d].now)
                THEN [rows EXCEPT ![n] = Released(n, to, disp[d].now)]
                ELSE rows
    IN  /\ disp[d].pc = "recover"
        /\ e \in disp[d].expired
        /\ rows' = new
        /\ audits' = AuditIn(new, n, to)
        /\ disp' = [disp EXCEPT ![d].expired = @ \ {e}]
        /\ UNCHANGED <<clock, issued, replay, accepted, calls, claimedAt, crashes>>

\* The rows due by the time the run began, of the kinds it was asked for.
DueRows(d) ==
    {n \in Ids : /\ rows[n].state \in InQueue
                 /\ rows[n].available <= disp[d].now
                 /\ rows[n].kind \in disp[d].kinds}

\* SELECT them, longest due first.
SelectCandidates(d) ==
    /\ disp[d].pc = "recover"
    /\ disp[d].expired = {}
    /\ LET since == [n \in Ids |-> rows[n].available]
       IN  \E P \in Page(DueRows(d), since) :
             disp' = [disp EXCEPT ![d] = [disp[d] EXCEPT !.pc = "claim", !.cands = P]]
    /\ UNCHANGED <<clock, rows, issued, replay, observed, crashes>>

\* Mutant: the claiming UPDATE does not bound the attempts.
Claimable_Unbounded(n, now) ==
    rows[n].state \in InQueue /\ rows[n].available <= now

\* Mutant: the claiming UPDATE only avoids rows that are being delivered.
Claimable_Settled(n, now) ==
    /\ rows[n].state \in Stored \ {"delivering"}
    /\ rows[n].available <= now
    /\ rows[n].attempt < MaxAttempts

\* The guard of the claiming UPDATE.
Claimable(n, now) ==
    /\ rows[n].state \in InQueue
    /\ rows[n].available <= now
    /\ rows[n].attempt < MaxAttempts

\* The row after a claim under lease token t.
Claimed(n, t, now) ==
    [rows[n] EXCEPT !.state = "delivering", !.attempt = @ + 1, !.lease = t,
                    !.leaseExpires = now + LeaseSeconds]

\* Claims one candidate with a compare-and-set UPDATE and a fresh token; a
\* candidate another run has taken meanwhile is left alone.
Claim(d, n) ==
    /\ disp[d].pc = "claim"
    /\ n \in disp[d].cands
    /\ IF Claimable(n, disp[d].now)
       THEN /\ rows' = [rows EXCEPT ![n] = Claimed(n, issued + 1, disp[d].now)]
            /\ issued' = issued + 1
            /\ claimedAt' = [claimedAt EXCEPT ![n] = disp[d].now]
            /\ disp' = [disp EXCEPT ![d] = [disp[d] EXCEPT !.pc = "read", !.cands = @ \ {n},
                                                        !.cur = n, !.token = issued + 1]]
       ELSE /\ disp' = [disp EXCEPT ![d].cands = @ \ {n}]
            /\ UNCHANGED <<rows, issued, claimedAt>>
    /\ UNCHANGED <<clock, replay, audits, accepted, calls, crashes>>

\* What the read after the claim can find out about the recipient: fit for
\* delivery, no longer eligible, or without a verified address.
Recipients == {"fit", "ineligible", "unavailable"}

\* Mutant: the lease token is not compared when the row is read back.
ReadClaimed_AnyLease(d, recipient) ==
    LET n == disp[d].cur
    IN  /\ disp[d].pc = "read"
        /\ disp' = [disp EXCEPT ![d] =
                      IF rows[n].state # "delivering"
                      THEN NextCandidate(d)
                      ELSE [disp[d] EXCEPT
                              !.attempt = rows[n].attempt,
                              !.pc = IF recipient = "fit" THEN "deliver" ELSE "settle",
                              !.outcome = IF recipient = "fit" THEN "none" ELSE recipient]]
        /\ UNCHANGED <<clock, rows, issued, replay, observed, crashes>>

\* Reads the claimed row back.  A row that is gone, or whose lease has passed
\* to someone else, is skipped.
ReadClaimed(d, recipient) ==
    LET n == disp[d].cur
    IN  /\ disp[d].pc = "read"
        /\ disp' = [disp EXCEPT ![d] =
                      IF rows[n].lease # disp[d].token
                      THEN NextCandidate(d)
                      ELSE [disp[d] EXCEPT
                              !.attempt = rows[n].attempt,
                              !.pc = IF recipient = "fit" THEN "deliver" ELSE "settle",
                              !.outcome = IF recipient = "fit" THEN "none" ELSE recipient]]
        /\ UNCHANGED <<clock, rows, issued, replay, observed, crashes>>

\* The adapter call, raced against the deadline.  The provider may have taken
\* the message although the call failed or was cut off.
Outcomes == {"ok", "temporary-failure", "rejected", "deadline-exceeded"}

Deliver(d, outcome, taken) ==
    LET n == disp[d].cur
    IN  /\ disp[d].pc = "deliver"
        /\ outcome = "ok" => taken
        /\ outcome = "rejected" => ~taken
        /\ disp' = [disp EXCEPT ![d] = [disp[d] EXCEPT !.pc = "settle", !.outcome = outcome]]
        /\ calls' = [calls EXCEPT ![n] = [calls[n] EXCEPT ![disp[d].attempt] = @ + 1]]
        /\ accepted' = IF taken
                       THEN [accepted EXCEPT ![n] = @ \cup {disp[d].attempt}]
                       ELSE accepted
        /\ UNCHANGED <<clock, rows, issued, replay, audits, claimedAt, crashes>>

\* The state a settled outcome leads to.
SettledState(outcome, attempt) ==
    CASE outcome = "ok" -> "delivered"
      [] outcome \in {"temporary-failure", "unavailable"} /\ attempt < MaxAttempts
           -> "retryable"
      [] OTHER -> "dead-letter"

\* Mutant: a failed attempt is due again at once.
DueAgain_AtOnce(d, to) == disp[d].now

\* When a settled row is due: after the delay of its attempt if it is to be
\* retried, now if it is dead; the column is not written on delivery.
DueAgain(d, to) ==
    CASE to = "retryable" -> disp[d].now + RetryDelay(disp[d].attempt)
      [] to = "dead-letter" -> disp[d].now
      [] OTHER -> rows[disp[d].cur].available

\* Mutant: the settling UPDATE is not conditional on the lease token.
HoldsLease_AnyToken(d) == rows[disp[d].cur].state = "delivering"

\* Does dispatcher d still hold the lease of its current row?
HoldsLease(d) ==
    LET n == disp[d].cur
    IN  rows[n].state = "delivering" /\ rows[n].lease = disp[d].token

\* The settling batch: a conditional UPDATE under the lease token, then the
\* audit event.
SettlingBatch(d) ==
    LET n   == disp[d].cur
        to  == SettledState(disp[d].outcome, disp[d].attempt)
        new == IF HoldsLease(d)
               THEN [rows EXCEPT ![n] = Released(n, to, DueAgain(d, to))]
               ELSE rows
    IN  /\ rows' = new
        /\ audits' = AuditIn(new, n, to)
        /\ UNCHANGED <<clock, issued, replay, accepted, calls, claimedAt>>

\* The batch succeeds and the run goes on.
Settle(d) ==
    /\ disp[d].pc = "settle"
    /\ disp[d].outcome # "deadline-exceeded"
    /\ SettlingBatch(d)
    /\ disp' = [disp EXCEPT ![d] = NextCandidate(d)]
    /\ UNCHANGED crashes

\* The batch that records a delivery raises an error, before or after it took
\* effect.  The surrounding catch treats this like a failed adapter call.
RecordingFails(d) ==
    /\ disp[d].pc = "settle"
    /\ disp[d].outcome = "ok"
    /\ crashes < MaxCrashes
    /\ crashes' = crashes + 1
    /\ disp' = [disp EXCEPT ![d].outcome = "temporary-failure"]
    /\ \/ SettlingBatch(d)
       \/ UNCHANGED <<clock, rows, issued, replay, observed>>

\* After the deadline the outcome is unknown: the row stays under its lease.
LeaveUnknown(d) ==
    /\ disp[d].pc = "settle"
    /\ disp[d].outcome = "deadline-exceeded"
    /\ disp' = [disp EXCEPT ![d] = NextCandidate(d)]
    /\ UNCHANGED <<clock, rows, issued, replay, observed, crashes>>

\* The page is done.
EndDispatch(d) ==
    /\ disp[d].pc = "claim"
    /\ disp[d].cands = {}
    /\ disp' = [disp EXCEPT ![d] = Idle]
    /\ UNCHANGED <<clock, rows, issued, replay, observed, crashes>>

\* The run dies between two statements (a killed process, a failed query).
Crash(d) ==
    /\ disp[d].pc # "idle"
    /\ crashes < MaxCrashes
    /\ crashes' = crashes + 1
    /\ disp' = [disp EXCEPT ![d] = Idle]
    /\ UNCHANGED <<clock, rows, issued, replay, observed>>

DispatchStep(d) ==
    \/ SelectExpired(d)
    \/ \E e \in disp[d].expired : RecoverLease(d, e)
    \/ SelectCandidates(d)
    \/ \E n \in disp[d].cands : Claim(d, n)
    \/ \E recipient \in Recipients : ReadClaimed(d, recipient)
    \/ \E outcome \in Outcomes, taken \in BOOLEAN : Deliver(d, outcome, taken)
    \/ Settle(d)
    \/ LeaveUnknown(d)
    \/ EndDispatch(d)

-----------------------------------------------------------------------------
(* Replay of dead letters *)

\* Reads the requested sources.  One that is not a dead letter fails the whole
\* request; if all of them have been replayed there is nothing to do.  The code
\* reads them one by one: dead letters are final and a replacement only goes
\* together with its source, so the reads commute with everything between them.
ReplayRead(r, asked) ==
    /\ replay[r].pc = "idle"
    /\ asked # {} /\ Cardinality(asked) <= PageLimit
    /\ \A n \in asked : rows[n].state = "dead-letter"
    /\ LET sources == {n \in asked : ~HasReplay(n)}
       IN  replay' = [replay EXCEPT ![r] =
                        [pc |-> IF sources = {} THEN "answered" ELSE "commit",
                         now |-> clock, asked |-> asked, sources |-> sources]]
    /\ UNCHANGED <<clock, rows, issued, disp, observed, crashes>>

\* Mutant: the link to the source is not unique.
AlreadyLinked_Never(sources) == FALSE

\* UNIQUE (installation_id, replay_of_notification_id) among the sources.
AlreadyLinked(sources) == \E n \in sources : HasReplay(n)

\* The replaying batch.  ids gives each source the id of its replacement.  A
\* duplicate link aborts the batch on either database.  A source that is gone
\* inserts nothing: the postcondition then fails, and only a transactional
\* database takes the other inserts back.
ReplayCommit(r, ids) ==
    LET sources == replay[r].sources
        live    == {n \in sources : rows[n].state = "dead-letter"}
        failed  == AlreadyLinked(sources)
        kept    == IF failed \/ (Transactional /\ live # sources) THEN {} ELSE live
    IN  /\ replay[r].pc = "commit"
        /\ ids \in [sources -> {n \in Ids : rows[n].state = "unused"}]
        /\ IsInjective(ids)
        /\ rows' = [m \in Ids |->
              IF \E n \in kept : ids[n] = m
              THEN LET n == CHOOSE k \in kept : ids[k] = m
                   IN  NewRow(rows[n].kind, rows[n].parties, replay[r].now, n)
              ELSE rows[m]]
        /\ replay' = [replay EXCEPT ![r].pc =
              IF ~failed /\ live = sources THEN "answered"
              ELSE "recheck"]
        /\ UNCHANGED <<clock, issued, disp, observed, crashes>>

\* After a failed batch the request looks whether every source has a
\* replacement by now; if so it answers that they were replayed already.
ReplayRecheck(r) ==
    /\ replay[r].pc = "recheck"
    /\ replay' = [replay EXCEPT ![r].pc =
          IF \A n \in replay[r].sources : HasReplay(n) THEN "answered" ELSE "refused"]
    /\ UNCHANGED <<clock, rows, issued, disp, observed, crashes>>

ReplayReturn(r) ==
    /\ replay[r].pc \in {"answered", "refused"}
    /\ replay' = [replay EXCEPT ![r] = NoReplay]
    /\ UNCHANGED <<clock, rows, issued, disp, observed, crashes>>

-----------------------------------------------------------------------------
ReplayStep(r) ==
    \/ \E ids \in [replay[r].sources -> Ids] : ReplayCommit(r, ids)
    \/ ReplayRecheck(r)
    \/ ReplayReturn(r)

\* An owner alert is the one kind whose recipient is not its subject.
KindOf(recipient, subject) ==
    IF recipient = subject THEN "learner" ELSE "owner-registration-alert"

Environment ==
    \/ Tick
    \/ \E n \in Ids, recipient, subject \in Accounts :
          Enqueue(n, KindOf(recipient, subject), {recipient, subject})
    \/ \E a \in Accounts : DeleteAccount(a)

Next ==
    \/ Environment
    \/ \E d \in Dispatchers : \/ \E kinds \in {Kinds, OwnerKinds} : BeginDispatch(d, kinds)
                             \/ DispatchStep(d)
                             \/ RecordingFails(d)
                             \/ Crash(d)
    \/ \E r \in Replayers : \/ \E asked \in SUBSET Ids : ReplayRead(r, asked)
                           \/ ReplayStep(r)

Spec == Init /\ [][Next]_vars

-----------------------------------------------------------------------------
(* Properties *)

Row == [state : RowStates, kind : Kinds, parties : SUBSET Accounts,
        attempt : 0..MaxAttempts, available : Nat, lease : Nat,
        leaseExpires : Nat, replayOf : Ids \cup {None}]

Run == [pc : {"idle", "recover-select", "recover", "claim", "read", "deliver", "settle"},
        now : Nat, kinds : SUBSET Kinds,
        expired : SUBSET [id : Ids, attempt : 0..MaxAttempts],
        cands : SUBSET Ids, cur : Ids \cup {None}, token : Nat,
        attempt : 0..MaxAttempts,
        outcome : Outcomes \cup Recipients \cup {"none"}]

\* The columns, the dispatchers' local variables and the observations keep
\* their types; in particular the attempt count never passes max_attempts,
\* which the table's attempt guard would otherwise turn into a failed batch.
TypeOK ==
    /\ clock \in Nat
    /\ rows \in [Ids -> Row]
    /\ issued \in Nat
    /\ disp \in [Dispatchers -> Run]
    /\ replay \in [Replayers -> [pc : {"idle", "commit", "recheck", "answered", "refused"},
                                 now : Nat, asked : SUBSET Ids, sources : SUBSET Ids]]
    /\ audits \in [Ids -> [Terminal -> Nat]]
    /\ accepted \in [Ids -> SUBSET (1..MaxAttempts)]
    /\ calls \in [Ids -> [1..MaxAttempts -> Nat]]
    /\ claimedAt \in [Ids -> Nat]
    /\ crashes \in Nat

\* A notification recorded as delivered was accepted by the provider during
\* the very attempt the row records: a run that lost its lease can neither
\* mark a later attempt delivered nor be mistaken for it.
DeliveredWasAccepted ==
    \A n \in Ids : rows[n].state = "delivered" => rows[n].attempt \in accepted[n]

\* However runs die, time out, lose their lease or overlap, the provider is
\* called at most once for each attempt of a notification, so at most
\* max_attempts times for one notification id.
OneCallPerAttempt ==
    \A n \in Ids, a \in 1..MaxAttempts : calls[n][a] <= 1

\* The audit trail never misses a settled notification: a stored terminal row
\* has an audit event of its terminal state.
SettledIsAudited ==
    \A n \in Ids : rows[n].state \in Terminal => audits[n][rows[n].state] >= 1

\* Delivered and dead-letter rows never change again, whatever late or stale
\* run touches them (only the deletion of the account removes them).
TerminalIsFinal ==
    [][\A n \in Ids : rows[n].state \in Terminal =>
          rows'[n] = rows[n] \/ rows'[n].state = "deleted"]_rows

\* The shortest time between two claims: the scheduled delay after a failure
\* that was reported, the whole lease after an outcome that was not.
ClaimGap(attempt) == Min({RetryDelay(attempt), LeaseSeconds})

\* Successive claims of one notification are that far apart on the clocks of
\* the claiming runs, so an unknown outcome is never retried at once.
RetriesAreSpaced ==
    [][\A n \in Ids : rows[n].attempt > 0 /\ rows'[n].attempt > rows[n].attempt =>
          claimedAt'[n] >= claimedAt[n] + ClaimGap(rows[n].attempt)]_vars

\* A replay request that answers with success has left every source it was
\* asked for with a replacement (unless the account is gone meanwhile), and
\* no dead letter ever has two.
ReplayIsExactlyOnce ==
    /\ \A r \in Replayers : replay[r].pc = "answered" =>
          \A n \in replay[r].asked : HasReplay(n) \/ rows[n].state = "deleted"
    /\ \A m, k \in Ids : /\ rows[m].state \in Stored /\ rows[k].state \in Stored
                         /\ rows[m].replayOf = rows[k].replayOf /\ rows[m].replayOf # None
                         => m = k

=============================================================================
