# Project42 platform: TLA+ models, checks and proofs

TLA+ modules for the stateful core of the Project42 platform (`src/`), the TLC
configurations that check them on small instances, and TLAPS proofs, for every
instance, of nearly all the safety properties (section 5). `PROJECT.json` is the index: for every definition
the source lines it models, for every run the properties it checks, for every
property a mutation of the code that breaks it, and the hazards the properties
are aimed at.

Paths below are relative to the repository root.

## 1. The system

The platform is a learning portal: a Cloudflare Worker over D1 (SQLite), or a
Node server over PostgreSQL for self-hosting, behind a static web application.
Nearly all state is in one SQL database and nearly all of it is changed by
`src/worker.ts`. There are no locks and no long-lived processes. A request or a
cron tick is a run of reads, awaits and guarded writes, and any number of them
overlap. What the code relies on is always one of the following:

* a **guarded write**: `UPDATE ... WHERE <what I read still holds>` and the
  number of rows it changed;
* a **batch**: several statements in one transaction, the later ones guarded by
  a mark that the first one left;
* **CHECKs, triggers and unique keys** that fail the whole batch;
* a **lease**, a token with an expiry, where an external system is called;
* **`now`**: one timestamp per request, taken when it begins and written by all
  its statements, however much later they run.

The last one is easily overlooked. A slow request writes into the past of a
faster one, and several `MAX(created_at, ?)` in the code are there because of it.

### Inventory

| component | state it keeps | operations | hard because | correct means |
|---|---|---|---|---|
| notification outbox (`worker.ts` 1223-2156, `account-notifications.ts`, migration 0016) | `account_notifications`, audit | enqueue, recover leases, claim, deliver, settle, replay, drain | overlapping dispatches, dying runs, deadlines, a provider that may have accepted | one call per attempt, truthful outcome, nothing stranded |
| owner fan-out (`worker.ts` 1273-1480) | `account_notification_fanouts` | record, select page, advance | page races, owners that come and go | every owner once |
| registration and approval (`worker.ts` 2508-2842, 3028-3231, 5032-5216, migration 0014) | `users`, `registration_requests`, `approval_decisions` | sign in, decide, read a receipt | decisions on stale views, receipts replaced meanwhile | one linear history, no receipt after a decision |
| browser sessions (`worker.ts` 2158-2506, 2843-2997, migration 0010) | `browser_sessions` | create, resolve, slide, renew, sign out, purge | tabs that act on one session at once, withdrawal of approval | one live session per sign-in, below its ceiling, only for approved accounts |
| sign-in transactions and identity linking (`worker.ts` 2158-2236, 4571-5030, migrations 0006, 0010) | `oidc_authorization_transactions`, `user_identities`, `identity_link_transactions` | begin, consume, link, unlink | two callbacks, expiry, two links at once, the last identity | single use, one owner per identity, never none |
| sign-in rate limits (`auth-abuse-limiter.ts`, `self-host/postgres-auth-abuse-limiter.ts`) | admitted attempts | count and accept | attempts at the limit, lost connections | never above the limit |
| request checks (`worker.ts` 9901-11565, `authorization.ts`) | none | authenticate, authorize, deny | the account changes while a request is under way | only the entitled are served |
| identity provisioning (`identity-provisioning-engine.ts`, `identity-provisioning.ts`, `keycloak-identity-provisioning-adapter.ts`) | record store, provider client, secret manager | create, validate, reconcile, rotate, disable, retire, decide | crash between provider and record, retries with the same key, authority gate | idempotent outcomes, no write before approval, secret and client agree |
| learning events (`learning-event-engine.ts`, `learning-events.ts`, `sql-learning-event-store.ts`, migration 0008) | event streams | execute a command, append, project | append races, lost answers | one linear stream, idempotent commands |
| progress import (`worker.ts` 5638-6109, `progress.ts`, migrations 0011, 0020) | `learning_progress` and its details | import, read | two batches with a gap between them | the projection follows the stream |
| account merge (`worker.ts` 3402-4570, 7134-7905, `account-merge-policy.ts`, migrations 0007, 0012) | cases, proofs, snapshots, aliases, receipts | prove, preview, complete, roll back | a large batch on a preview that may be stale; rollback within a window | nothing lost or owned twice, rollback restores |
| deletion and data rights (`worker.ts` 6244-7133, `learner-data-policy.ts`, migrations 0004, 0013, 0017) | requests, tombstones, photos | request, cancel, complete, purge, edit | deletion against everything else, a store outside the transaction | receipts answer; the policy is followed, except where a cancellation is overtaken |
| receipts, recovery, backup (`learning-record-*.ts`) | receipts, backups | issue, restore, replay deletions, promote | a backup older than a deletion | no deleted learner is promoted |
| copies of a record (`progress.ts`, `portable-record.ts`, `web/app/lib/progressMigration.ts`, `deviceLocalProgress.ts`) | none of their own | record, merge, export, restore | two devices, two releases | nothing is lost, what is made can be restored |
| badge credentials (`badge-credentials.ts`) | lifecycle events | project | order, repetition, conflict | what is shown was earned |
| owner pages (`admin-pagination*.ts`, `AccountDashboard.tsx`) | none (cursors) | page | rows change between pages | no row hidden |
| web application (`web/`) | local storage, React state | sign in and out, synchronise progress, edit the account | late answers, other tabs | the page tells the truth, one account's progress never reaches another |
| portal CLI (`bin/project42-portal.mjs`) | files of an installation | create, materialise, doctor | stopped half-way, an adopter's own edits | all or nothing, nobody's work is taken |
| PostgreSQL layer and server (`self-host/`) | pool, migrations | batch, migrate, serve | READ COMMITTED batches | same outcomes as on D1 |
| content, catalogue, packages, scripts | files | validate, generate | - | build-time checks |

How they interact: a sign-in callback passes the limiter, consumes a transaction,
finds or creates the account, and either leaves a registration request (with an
owner fan-out in the same batch) or creates a session. A decision changes the
account, ends receipts and sessions and enqueues the learner's notification in
one batch. Every dispatch first expands fan-outs into outbox rows and then
delivers rows. A merge or a deletion touches all of those tables.

## 2. Modules

One SQL statement or one batch is one action; everything else may happen between
two actions of the same request. A variable such as `req`, `call`, `disp` or `run`
holds what a request keeps in local variables across its awaits, `pc` where it
is. The clock is a number; a request copies it into `now` when it begins. A
request that dies takes no further step, so a crash needs an action only where
somebody waits for the request or counts it.

| module | source | meets |
|---|---|---|
| `NotificationOutbox`, `NotificationOutboxLiveness` | outbox of `worker.ts`; `account-notifications.ts`; migration 0016 | enqueues come from `AccountApproval`, `OwnerFanout` |
| `OwnerFanout` | `expandAccountNotificationFanouts`; migration 0016 | its `alerts` are outbox rows |
| `AccountApproval` | `createOrRefreshAccount`, `createRegistrationRequest`, `changeAccountState`; migration 0014 | its `notices` are outbox rows, its `alerts` fan-outs |
| `BrowserSessions` | session functions of `worker.ts`; migration 0010 | its `approved` is the account state of `AccountApproval` |
| `Identities` | sign-in transactions, linking, unlinking; migration 0006 | whom it signs in, `AccountApproval` and `BrowserSessions` take over |
| `SignInLimiter` | `postgres-auth-abuse-limiter.ts` | stands before `Identities` |
| `RequestGate` | `handleRequest`, `authorization.ts` | stands before every handler |
| `IdentityProvisioning` | engine, contract, Keycloak adapter | independent of the rest |
| `LearnerStream` | the promise of the event store | abstract specification |
| `LearningProjection` | `projectLearningEvents` as operators over a stream | used by the next and the previous |
| `LearningRecord` | engine, SQL store, progress import and read | implements `LearnerStream` |
| `LearningContract` | `learning-events.ts`, the forms, the portable file, the save route | what each of them accepts of one record |
| `ProgressRecord` | `progress.ts`, `portable-record.ts`, `progressMigration.ts`, `deviceLocalProgress.ts` | copies of one record on devices and the account |
| `AccountMerge` | proofs, preview, completion, rollback | rows are versions |
| `MergeValues` | conflicts, resolutions and rows of a merge | one case, rows spelled out |
| `RecordRecovery` | verified export and deletion, backup, restore, replay | - |
| `DataRights` | profile, photo, deletion requests, receipts, purge | - |
| `OwnerConsole` | paged lists and their React page | - |
| `AccountPage` | the learner's panels | another view of `DataRights`, `Identities` |
| `AuthTab` | `AuthProvider.tsx` with sessions, receipts, terms | another view of `BrowserSessions` |
| `ProgressSync` | `ProgressProvider.tsx` with the account API | a record is a set of evidence |
| `PortalMaterialise` | `project42-portal materialise` | - |
| `BadgeCredentials` | `badge-credentials.ts` | - |
| `*Proofs` | - | extend their module and TLAPS |
| `MC*` | instances for TLC | see section 3 |

The components are checked apart because they meet in single columns: the outbox
reads an account's state, so its eligibility is a free input of the read; a
session depends on whether the account is approved, so `Withdraw` and `Approve`
are environment steps of `BrowserSessions`. Free inputs are a superset of what
the other module does.

### Notifications

*`NotificationOutbox`.* `rows` is the table; the states are those of its
transition trigger, plus `unused` (no row with that id yet) and `deleted`.
`BeginDispatch` is a request (all kinds) or a tick (owner alerts only).
`SelectExpired`, `RecoverLease`, `SelectCandidates`, `Claim`, `ReadClaimed`,
`Deliver`, `Settle`, `LeaveUnknown` are the statements of
`dispatchAccountNotifications` in order. `Deliver` decides separately whether the
provider took the message (`accepted`) and what the run learns of it, so a
deadline may hide an acceptance. `RecordingFails` is the settling batch that
fails after the call: the code's `catch` treats it as a temporary failure of the
send. `Crash` forgets a run anywhere. `ReplayRead` to `ReplayReturn` are the
operator's replay. `accepted`, `calls` and `claimedAt` observe the provider; no
guard reads them. `Transactional` says whether a failed postcondition of a batch
rolls it back (PostgreSQL) or not (D1); the runs take the weaker FALSE, the
proofs hold for both.

*`OwnerFanout`.* `fan` is the record, `owners` the owners and their approval,
`disp` the dispatches with the record and page they read. `Commit` is the batch:
the inserts of the page (the unique idempotency key makes a repeated one a no-op)
and the advance, guarded by revision, cursor, cut-off and by the number of the
page's alerts that exist. `owed` observes who must be alerted. Both databases are
covered: `rollback` is chosen in `Init`.

### Accounts

*`AccountApproval`.* One account, decisions (`Deciders`) and sign-ins (`SignIns`).
A decision reads state and revision and commits under the compare-and-set;
`DecisionMarked` is the guard that the later statements of the batch use (state
and transition id). `CommitRegistration` is the receipt's batch. A failed CHECK
ends the request with `pc = "error"` and changes nothing. `epoch` and `seen`
observe how many decisions there were.

*`BrowserSessions`.* `sess` is the table; `root` and `since` observe the sign-in a
session descends from. A request resolves its cookie, remembers the expiry it
saw, and then slides, renews or signs out; or it reads the account and signs in.
`Withdraw`, `Merge` and `Purge` are the statements of decisions, merges and
sign-in starts that touch the table, each stamped with a time that may have
passed. The initial states include an installation with a session from before
approvals were required (`Legacy`), which `Evict` ends when it is next seen.

*`Identities`.* Sign-in transactions, identities and link transactions with their
callbacks, each query a step and each request mortal. *`SignInLimiter`* is the
transaction of the PostgreSQL limiter with its two advisory locks. *`RequestGate`*
describes a route by what its handler asks for; the account is read once and used
to the end while owners decide on it, change its roles or erase it.

*`AccountMerge`* reduces every row to a version and keeps the requests, clocks,
windows and aliases; *`MergeValues`* keeps one case and spells out the rows.
*`DataRights`* is the learner's profile with its photo in an object store, and the
deletion request with its rotating receipt. Calls interleave at every await; `missed`, a
history that no guard reads, records what a completion has missed of its request.

*`IdentityProvisioning`.* `rec` is the record store by idempotency key, `client`
the provider's client, `sink` the versions in the secret manager. A call reads
its record (`BeginRun`), finds it settled, resumes it (`Recover`, `Execute`) or
starts a new one (`ReadLatest`, `Start`). `Find`, `Write`, `Reread`,
`GenerateSecret`, `Observe` and `Revoke` are the adapter's requests, each of which
may fail; `Apply` and `Throw` save the outcome against the transition table and
the record contract, under a compare-and-set on `updatedAt`. `Crash` may fall
between any two. The gated plan runs on the reference adapter of
`tests/identity-provisioning-engine.test.mjs`, the only adapter with a gate in
the repository. `observe` is not told apart from `validate`, nor `recover` from
`reconcile`: the adapter treats them alike. The configuration of the client is one
flag (`intact`). What Keycloak keeps of a superseded secret is left out.

### Learning records

*`LearningProjection`* writes the maps of `projectLearningEvents` as sets over the
positions of the stream, so no recursion is needed. *`LearningRecord`* has three
kinds of request: a command of the library, an import over HTTP, and a read that
may promote an old hosted row. `List`, `Find`, `Batch`, `ErrorPath`, `Stored`,
`Evidence`, `Project` are `appendWithProjectionGuard` and the store's `append`;
`Precheck` and `WriteRow` what `executeProgressImport` and `importProgress` put
before and after it. The answer of a batch may be lost after it committed. It
implements `LearnerStream` under the mapping `Abstract`: the log is the stream, a
request is the command it carries, its answer what it was told.

*`LearningContract`* and *`ProgressRecord`* take every exchange as one step and ask
what the checks along a record's way accept. *`RecordRecovery`* runs the verified
deletion in one step (D1) or statement by statement (PostgreSQL, READ COMMITTED),
and seals, damages, ages, restores and replays backups.

### Pages and tools

*`AuthTab`*, *`ProgressSync`*, *`AccountPage`* and *`OwnerConsole`* each model one
page and the part of the API it talks to. A call is sent with the cookies of that
moment, served later, and taken by the page later still, if it is still there.
*`PortalMaterialise`* works file by file and may stop at any file.
*`BadgeCredentials`* is a pure function over a list of events that arrive in any
order.

## 3. Runs

Twelve runs; each ends within five minutes on two workers.

Modules that share no state but ask for the same kind of instance are checked in
one run: the MC module declares registers `r1`, `r2`, ..., takes every machine as
an INSTANCE over the same registers, chooses one machine in its initial state and
never changes it. A behaviour of such a run is a behaviour of one machine; the
registers that machine does not need stay empty. A property of the run is an
implication, `machine = "..." => ...`, over the properties of the modules. The
machines and their bounds:

| run | checks | machines and instance |
|---|---|---|
| `OutboxDelivery` | `TypeOK`, `DeliveredWasAccepted`, `OneCallPerAttempt`, `SettledIsAudited`, `TerminalIsFinal`, `RetriesAreSpaced`, `ReplayIsExactlyOnce` | delivery: one notification, two accounts, two dispatches, two attempts, lease 2, clock to 4 (it stands still once the notification is settled), one crash; replay: three ids, one account, two operators, one dispatch at a time |
| `NotificationsSettle` | `EveryOwnerOnce`, `AdvancesPassTheGuards`, `OwnerAlertsSettle`, `FanoutCompletes` | delivery as above under the schedule of the cron (clock to 30); fan-out: three owners, a page of one, two dispatches, one change of state |
| `SignIn` | `DecisionsFormAHistory`, `NoSessionWithoutApproval`, `OneLiveSessionPerSignIn`, `LifetimesEnd`, `TransactionsServeOnce`, `OnlyTheEntitled`, `ExpiryOnlyGrows`, `IdentityKeepsItsAccount` | sessions: three rows, two requests, idle 2, ceiling 3; approval: three decisions, two sign-ins; identities: two subjects, two accounts, two transactions, two links, two requests, five steps of work; limiter: four attempts of two clients, one per client, two for the installation; gate: one request, one change of the account |
| `ProvisioningRecovery` | `GateBeforeWrite`, `CurrentSecretIsKept`, `ReadyIsSound`, `OutcomesAreFinal` | three keys, two calls at once, three calls if they overlap and four if they do not, one fault |
| `LearningHistory` | `TypeOK`, `AnsweredIsKept`, `RowFollowsStream`, `ImplementsLearnerStream`, `BadgesAreKept` | three requests, two at a time, six commands that rebind keys, paths and attempts, one import, one old row, two turns of the append loop |
| `AccountRecords` | `MergeIsRecoverable`, `ReceiptIsExact`, `ReceiptAnswers`, `CopiesStaySound`, `MergeKeepsValues`, `FollowsPolicyUnlessOvertaken` | merge: two accounts, two cases, five requests one after the other, one change of each account; recovery: two events, two deletions, two runs; rights: three calls, one fault; copies: two devices, two releases, two recordings (whether or not ids may collide); values: pairs of accounts that differ in one kind of row, one edit; contract: two steps with at most one odd value each |
| `Pages` | `HeaderTellsTheTruth`, `NothingCrosses`, `NothingIsHidden`, `PanelsAreCurrent`, `FinishedIsCurrent`, `NothingIsTakenBack` | two people, two open calls, two sessions, one trouble; two saves, three visits, one fault; three rows, a page of one, five queries, one change; four sends, two changes elsewhere, one loss; four paths, two releases, one stop, one edit; three badge events |
| `SessionSignOut` | `SignOutEndsTheSession` fails | three sessions, two requests |
| `LearningResurrection` | `SupersededStaysSuperseded` fails | four requests, one at a time |
| `MergeRollback` | `RollbackRestoresTheRecord` fails | two accounts, six ticks |
| `PendingSignOut` | `SignOutLeavesNothing` fails | one person |
| `PortableRestore` | `RestoresWhileIdsExist` fails | one device, two paths that share a module |

Why the bounds suffice for the questions asked:

* Two concurrent requests show every race of a guarded write; a third party is
  there where it matters (three decisions for ABA; a renewal, a sign-out and a
  decision for sessions; three keys so that a refused key lies between two).
* Times are scaled, their order is kept: idle below absolute, retry delay
  against lease. `SlideThreshold` is 0 in `SignIn` (every slide is worth
  writing), which permits more slides than the code's hour.
* `MaxAttempts` is 2, so that first, repeated and last attempt are distinct.
  Every attempt but the last behaves alike. The same holds for `MaxTries`.
* A page of one row out of three makes a first, a middle and a last page.
* Crashes and faults are bounded by one: after the bound the system runs without
  failures, and each run considers a fault at every step.
* Where a theorem of section 5 states a property, no bound matters for it.

Assumptions that are not bounds are named constants, so that they can be dropped
(what then goes wrong is in section 4):

| constant | assumes |
|---|---|
| `Coarse = FALSE` (`IdentityProvisioning`) | two saves of a provisioning record never fall into one millisecond; the engine compares `updatedAt` only |
| `MaxActive = 1` (`AccountMerge`) | the owner's merge requests follow one another |
| `Overlap = FALSE` (`MergeValues`) | no change of an account and no other merge falls between the reads and the batch of a merge's completion |
| `serial` (`RecordRecovery`) | `ReceiptIsExact` is asked of the serial database only |
| `Serial`, `InOrder` (`AuthTab`) | a renewal overlaps no other call of the page, answers arrive in order |
| `AnyTime = FALSE`, `InOrder` (`ProgressSync`) | other tabs sign in only while this one shows nobody, saves arrive in order |
| `Patient` (`AccountPage`) | the learner waits for the preferences before saving them |
| `FixedKey = FALSE` (`OwnerConsole`) | the server may restart with another cursor key |
| `InputsFit` (`LearningContract`) | what the learner types, and old rows, keep the contract's limits |
| `SameIds` (`ProgressRecord`) | whether identifiers may collide; both are checked |

Symmetry is used only over identifiers that the module compares for equality, and
never in a run with a liveness property. Deadlock is checked in the notification
and learning runs, which never stop or have a stated end (`Quiet`). In the other
runs the finite supplies of requests or decisions end, so the system may stop.

### Fairness

`NotificationsSettle` runs the two halves of the scheduled job under `FairHalves`.
The clock advances, the cron trigger of `scheduled` keeps starting owner drains,
and a dispatch that runs goes on, because each of its awaits is a database call or
a send that the deadline of five seconds cuts off. A dispatch ends before a lease
of five minutes does (`RunSeconds < LeaseSeconds`, `FreeTicks = 0`): ten sends of
five seconds. Requests by owners, replays and crashes are not fair. Without the
bound on a run's length the property fails (section 4). In the fan-out half
dispatches keep coming and go on; owners change state finitely often, and the
property asks only for fan-outs with an owner who stays.

## 4. Disagreements

### Findings (a run shows each)

1. **`SessionSignOut`** - a sign-out revokes the row its cookie resolved to
   (`worker.ts` 2978). If a renewal in another tab committed since, the successor
   lives on, and the answer and audit say that the session was revoked
   (`docs/browser-sessions.md` 56).
2. **`LearningResurrection`** - an import that is repeated after a later import
   replaced it writes its snapshot back into `learning_progress` with a new
   `updated_at` (`worker.ts` 5770), and the next read promotes that row as the
   newest event (`docs/learning-event-contract.md` 78).
3. **`MergeRollback`** - a rollback restores the rows, but the stream of a survivor
   that had no `learning_progress` row keeps the merged import as its last one
   (`worker.ts` 6094; `docs/self-hosting/identity-providers.md` 207).
4. **`PendingSignOut`** - the route that clears the registration receipt is reached
   only with a session cookie (`worker.ts` 10356, against the comment at 10335).
5. **`PortableRestore`** - the restore keeps one path for each module and refuses
   evidence under another one (`portable-record.ts` 193;
   `docs/content-authoring.md` 150).

### Known limits

Met while modelling, and left out of the runs by a named constant, a property
that does not ask for it, or because the part is not modelled.

*Notifications.* Lease recovery chooses `retryable` or `dead-letter` from the
attempt count of its SELECT (`worker.ts` 1564): a dispatch delayed past a whole
lease of another leaves a `retryable` row without attempts, though
`docs/account-notifications.md` 94 says a retry is scheduled. Two runs may both
audit one outcome. An owner approved after the cut-off gets no alert.

*Registration.* A decision revokes the open receipt with its own `now`
(`worker.ts` 5142); a receipt that a later sign-in issued meanwhile fails the
CHECK and with it the decision, which the comment at 5156 rules out for sessions.
A registration may be approved under a domain rule that is disabled between its
read and its batch, or fail on the foreign key when the rule is deleted;
`setDomainEnabled` and `deleteDomain` are audited as done although the row
vanished or was enabled again; `policy_version` never increases.

*Provisioning.* An expired confirmation cannot be restarted: the retry goes
through `recovering`, from which no transition leads to `awaiting-authority`
(`identity-provisioning-engine.ts` 201, 907). A retirement after a refused second
`create` reads that record, finds no secret, and deletes the client while its
secret stays active (229).

*Merges.* A second preview between the reads and the batch of a completion cancels
the case while the merge is carried out (`worker.ts` 4209). The check for another
owner (3953) is not repeated in the batch. The models and the theorem let the owner's requests and the learners' imports follow one
another (`MaxActive = 1`). A merge drops the accessibility flags
without a conflict (3903; `docs/self-hosting/identity-providers.md` 171). A link
may stay in `processing`, or answer "cancelled" although it completed.

*Data rights.* A cancelled deletion may be carried out. A completion reads the request,
awaits its other reads and commits a batch in which no statement looks at
`deletion_requests.state` again (`worker.ts` 6776-6832, 6911-7057; no trigger does
either). A cancellation that was stamped before the deadline and commits in that gap
answers success, and the account is erased all the same: it goes from `active` to
`deleted`, which `learnerAccountTransitions` does not have. A receipt that is issued in
that gap is lost, for the tombstone takes the digest that was read (6950). Both
interleavings are in the model; `FollowsPolicyUnlessOvertaken` and `ReceiptAnswers` except
them and nothing more. A request that finds an open one, and
is overtaken by its cancellation, replaces the token of the cancelled row and answers with
a receipt of it. Overlapping profile edits lose fields, photo objects may be
orphaned. On PostgreSQL a receipt may miss an append (`postgres-d1.ts` 86). On D1 the batch of a
deletion compares revisions only (`sql-learning-event-store.ts` 294): if a second deletion
of the same learner's record erases it in between and the stream grows back to the listed
length, the first one's receipt names events that were already gone. The run has one
process that deletes, the theorem assumes `DeletionsApart`. The
audit of an acceptance of the terms is a statement of its own. The data rights of
accounts that are not approved are reachable with a bearer token only.

*Learning records.* The checks along a record's way disagree: a rename has no cap
and an account's display name may have 255 characters where the contract allows
80; the form accepts repeated artifact references and long reflections that the
contract refuses, so every save answers 500 and is retried; a portable file with
padded names or loose dates restores but cannot be saved; an old row outside the
contract makes `GET /v1/me/progress` fail for good; the 1 MB body limit is reached
long before the 10 000 attempts the contract allows; a snapshot and later events
together may exceed the count limits. Where `crypto.randomUUID` is missing,
merging twice duplicates `unsynced:` ids, and such a record no longer restores. A
merge does not derive completion or badges from evidence that is split over
devices.

*Pages.* A stale read against a replacement, other tabs at any time, saves out of
order, an unload flush that races the next read, and two tabs of one learner may
each lose evidence of `ProgressSync`. The flush is why `QuietIsSaved` (a part of
`NothingCrosses`) promises only what was made in the document that shows it: a
keepalive save of an earlier document can reach the API after the new one's read and
replaces the record, so that a quiet tab may show evidence the account no longer has.
TLC finds that order with two pieces of evidence. A renewal that overlaps another call may
show signed-out. Preferences saved while they load stay in "Loading"; "unchanged"
is said when the answer of a committed change was lost; a lost answer to a
deletion request, and a refresh, hide its form; an unlink whose reload fails
leaves the list stale; the form of a new domain rule reports an error after
success (`event.currentTarget` after an await).

*Portal.* An untracked file that is not ignored, at a path the release ships, is
overwritten; the theme folder of the repository replaces a tracked
`public/themes/<id>`; an install is half done when its catalogue or a bundle fails.

*Requests.* A handler goes on for an owner who is suspended after the checks.

*Content.* An unchanged observation with an unsupported claim has no valid
disposition, and a proposal is not checked against its packet
(`content-maintenance.ts`).

## 5. Proofs

Eight modules hold theorems. They are proved for all values of the constants that
meet the named assumptions of their module, in particular for any number of
requests, sessions, accounts, keys, dispatches or commands.

| module | theorem | says |
|---|---|---|
| `NotificationOutboxProofs` | `TypeCorrect` | `Spec => []TypeOK`: in particular no attempt count above `max_attempts` |
| | `SettledRowsAreFinal` | `Spec => TerminalIsFinal` |
| | `RecordedDeliveryWasAccepted` | `Spec => []DeliveredWasAccepted` |
| | `OneAdapterCallPerAttempt` | `Spec => []OneCallPerAttempt` |
| | `SettledRowsAreAudited` | `Spec => []SettledIsAudited` |
| | `ClaimsAreSpaced` | `Spec => RetriesAreSpaced` |
| | `DeadLettersAreReplayedOnce` | `Spec => []ReplayIsExactlyOnce` |
| | `OwnersAreAlertedOnce` | `FairHalves => []EveryOwnerOnce` |
| | `FanoutGuardsNeverFire` | `FairHalves => AdvancesPassTheGuards` |
| `IdentityProvisioningProofs` | `RecordsKeepContract` | `Spec => []TypeOK` |
| | `SettledOutcomesAreFinal` | `~Coarse`: `Spec => OutcomesAreFinal` |
| | `GatesPrecedeWrites` | `~Coarse`: `Spec => []GateBeforeWrite` |
| | `AcceptedSecretIsNotRevoked` | `Spec => []CurrentSecretIsKept` |
| | `ReadyRecordsAreUsable` | `~Coarse`: `Spec => []ReadyIsSound` |
| `LearningRecordProofs` | `RecordTypes` | `Spec => []TypeOK` |
| | `AnswersAreKept` | `Spec => []AnsweredIsKept` |
| | `RowNeverLeads` | `Spec => []RowFollowsStream` |
| | `BadgesStay` | `Spec => BadgesAreKept` |
| | `StoreImplementsStream` | `Spec => ImplementsLearnerStream` |
| `AccountApprovalProofs` | `ApprovalIsSound` | `ApprovalConstants`: `Spec => []` of `TypeOK` and the five invariants of `AccountApproval` |
| `AccessProofs` | `SignInAndLinkingAreSound` | `Spec => []` of `IdentitiesTypeOK`, `TransactionServesOnce`, `EveryAccountCanSignIn`, `LinksAreHonest` |
| | `IdentitiesKeepTheirAccounts` | `Spec => [][IdentityKeepsItsAccount]_idVars` |
| | `LimitsHold` | `LimiterConstants`: `LimiterSpec => [](LimiterTypeOK /\ LimitHolds)` |
| | `RequestsAreEntitled` | `GateConstants`: `GateSpec => []` of `GateTypeOK` and the three invariants of `RequestGate` |
| `SignInProofs` | `SessionTypes` | `Spec => []TypeOK` |
| | `ApprovalBoundsSessions` | `Spec => []NoSessionWithoutApproval` |
| | `OneSessionSurvivesRenewal` | `Spec => []OneLiveSessionPerSignIn` |
| | `SessionLifetimesEnd` | `Spec => []LifetimesEnd` |
| | `SlowRequestsNeverShorten` | `Spec => ExpiryOnlyGrows` |
| | `ApprovalsFormOneHistory` | `SignInSpec => []DecisionsFormAHistory` |
| | `IdentitiesServeOnce` | `SignInSpec => []TransactionsServeOnce` |
| | `IdentitiesNeverMove` | `SignInSpec => IdentityKeepsItsAccount` |
| | `GuardsAdmitOnlyTheEntitled` | `SignInSpec => []OnlyTheEntitled` |
| `PagesProofs` | `OwnerListsAreComplete` | `PagesSpec => []NothingIsHidden` |
| | `LearnerPanelsAreCurrent` | `PagesSpec => []PanelsAreCurrent` |
| | `PortalEndsCurrent` | `PagesSpec => []`, the portal's part of `FinishedIsCurrent` |
| | `PortalSparesAdopters` | `PagesSpec => [][]`, the portal's part of `NothingIsTakenBack` |
| | `LearnersWorkIsKept` | `PagesSpec => []NothingCrosses` |
| | `HeaderIsTrue` | `PagesSpec => []HeaderTellsTheTruth` |
| `AccountRecordsProofs` | `MergesAreRecoverable` | `RecordsSpec => []MergeIsRecoverable` |
| `AccountRecordsProofs` | `MergesKeepValues` | `RecordsSpec => []MergeKeepsValues` |
| | `RecoveryIsComplete` | `RecordsSpec => []`, what `ReceiptIsExact` says of recovered records |
| | `ReceiptsAreExact` | `[](machine = "recovery" => DeletionsApart)`: `RecordsSpec => []ReceiptIsExact` |
| | `OneDeleterIsExact` | one deleter: `RecordsSpec => []ReceiptIsExact` (corollary) |
| | `ReceiptsAnswer` | `RecordsSpec => []ReceiptAnswers` |
| | `PolicyIsFollowedUnlessOvertaken` | `RecordsSpec => FollowsPolicyUnlessOvertaken` |

### The outbox

Assumptions: `OutboxConstants` (the bounds are natural numbers, attempts, page
and lease at least one) and `RetryDelayIsNat`. The latter stands for a fact about
exponentiation that the SMT backend does not know; TLC evaluates it in every run.

`TypeInv` adds to `TypeOK` that a busy run has a current row, a positive attempt
and a token already issued, and that a row in delivery carries a lease already
issued. It is needed because `Settle` and `Deliver` index by the run's current row
and attempt. `RowMoves` then classifies what any step may do to one row (inserted,
deleted, taken, given up, settled), `RunMoves` what it may do to one run; the
later theorems use these two lemmas and not the actions.

*Delivered was accepted.* A settling UPDATE compares only the token, so one needs
that equal tokens mean equal attempts (`HolderIsCurrent`) and that a run which saw
`ok` did so in its own attempt (`OkWasAccepted`). A claim keeps the first because
it takes a token that nobody holds.

*One call per attempt.* The invariant has to speak of the future: no attempt above
the row's has been called (`FutureIsUntried`), the claimed attempt is untried until
the holder of its token has called (`ClaimedIsUntried`), and a run about to call is
the first to do so (`PendingCallIsFirst`), for which two busy runs must have
different tokens (`TokensDiffer`).

*Settled is audited.* A batch settles at most the row whose event it counts, and
it counts the event exactly if the row is in the state it was to get (`AuditMove`,
one case per batch); no other step touches a settled row or takes an event back.

*Retries are spaced* (`SpacingInv`). A claim uses the time its run read, which may be
long past, so the gap cannot be read off the claim. The invariant carries it: a row
whose lease runs has it until the lease after the claim (`LeaseSpan`), a row back in
the queue is not due before the claim plus its delay (`QueueSpaced`), and the run
that holds the row's token is the one that claimed it and knows no earlier time
(`HolderClaimed`). The retry of a failure adds its delay to a time that is no earlier
than the claim.

*Replays are exactly once* (`ReplayInv`). The replacement refers to a dead letter of
the same account (`LinksFit`), so that no deletion leaves one without the other, and
dead letters stay dead letters until the account goes. A request that dropped a
source, or has answered, dropped it because a replacement is there (`RequestsFit`).
Every step keeps the links, deletes the rows of one account, or inserts one
replacement for each kept source that has none (`LinkMoves`, `Replaces`): a duplicate
link fails the whole batch on either database. Where a failed batch is not rolled
back, some sources are replaced and others not; the request then answers only if
it finds a replacement for all of them.

### The fan-out of owner alerts

`FanoutInv` says what a run knows. Its copy of the fan-out is the record, or the
revision has grown since (`ReadFits`), so a run whose guarded UPDATE succeeds is up to
date; and a run that is up to date and has selected its owners saw everybody who is
still owed an alert beyond the cursor (`PageFits`). It put the first of them on its page
and the others are behind the last of the page, where the cursor will stand. For that,
lemmas about finite sets of owners: there is a least and a greatest one, from the
well-foundedness of the strict subset relation, since the induction theorems of the
library cannot be instantiated; and the page `First(PageSize, S)` is an initial segment
of `S`, not empty unless `S` is, and all of `S` if `LastPage(S)`. Who is owed stays
approved since before the cutoff (`FanFits`), because a suspension takes him off.
The fan-out and the outbox are composed in `MCNotificationsSettle`, and the theorems are
stated there; the lemmas speak of its instance of `OwnerFanout`.
Assumption: `FanoutConstants` (a page size of at least one, natural bounds, NULL is no
number).

### The sessions

One inductive invariant, `SessionInv`, for all five theorems. A request acts on a
row it read long ago, so what it holds must bound what the row may have become:
`RequestsFit` says that the row of a request that is past its read exists and that
what it saw of the expiry and of the clock lies in the past; `RowsPast` that no row
was written in the future. `RowsSound` keeps every expiry between the row's
creation and its ceiling, which is `LifetimesEnd` once the ceiling of a successor is
its predecessor's. That a sign-in has one live session at most needs the shape of
the chain: a successor is later than what it replaced (`SuccessorsLater`), and a
root that occurs in the table is one that was used (`RootsUsed`), so that a new
sign-in begins a chain of its own.

### Provisioning

A step changes one record and one run, or one run and the provider
(`StepBy`: saved, called, begun, learned, died); the invariants are checked
against these five shapes.

*Outcomes are final* (`FinalInv`). A save compares `updatedAt` only. That protects
a settled record if no two saves share a timestamp, hence `~Coarse`: then a call
whose copy still has the record's timestamp has the record itself (`RecordsFit`),
and a call that is about to save holds a copy that is not settled (`HeldIsOpen`).
Without it the theorem is false.

*Gates precede writes* (`GateInv`). A call about to write under a gated plan has a
copy of the record that is past the gate (`GateKnown`); that copy is the record or
an earlier state of it, and no transition leads back to before the gate.

*The accepted secret is kept* (`SecretInv`). The secret that is revoked last in a
rotation is the one its record named when the rotation began. It must not be the
one the client accepts: secrets are numbered as they are generated
(`NamedIsUsed`), the steps of a run know which of them are behind (`StepsFit`), and
what is about to be revoked is not what the client has (`OldIsOut`). This holds
with `Coarse` as well.

*Ready is usable* (`ReadyInv`). The promise is about calls that do not overlap, so the
invariant says what a lone call knows (`Alone`): its copy is the record, the record is
in a working state while the call is at the adapter, and what it noted of the client
is so (`Informed`), up to the version it verified (`Verified`). A result can be `ready`
only from there. Around it stand facts that hold with any overlap: no record or call
names a version that was never stored (`NamedIsStored`), what a call was told belongs to
its operation (`ResultsFit`), only `create` runs without a client (`OnlyCreates`), and
nothing in preflight has an approval (`PreflightFits`). `~Coarse` is needed as above.

### The learning record

One inductive invariant, `StoreInv`. The hard step is the batch of an append. It is
guarded by the number of events that the request counted some awaits ago, and by
nothing about their content. `GuardFits` says what makes that sound: as long as the
stream has the length that was counted it *is* the stream that was counted, so it
can be projected with the request's event, unless the key was known; and then the
unique index knows it too. `OnceFits` says that a request whose event is in the
history is on its way to find it, so no second turn of the loop appends it again:
a batch whose answer was lost leads to `error`, where the event is found.
`KeptFits` and `TruthFits` carry what was found until it is answered. The account's
deletion empties the stream under all of them, so each speaks of the time before
it, except the truth of the answers, which speaks of the history `ever`.

*Refinement.* `StepCases` reduces every action to a quiet step of one request, a
batch that commits, a batch that only makes the stream row, the second batch of an
import, the clock, or the deletion. A quiet step is `Ask`, `Reply` or a stutter of
`LearnerStream`, according to `Visible`; a committing batch is `Commit`, whose guards
are parts of `StoreInv`; the deletion is `Erase`.

*Badges.* What an append adds was projected before (`StreamGrows`), and the
projection accepts no second definition of a path whose enrolment is still in the
window; so a badge that was complete stays complete (`GrowthKeepsBadges`).

Assumptions: finitely many requests, commands of the known types, natural times of
the old rows, and that `Silent` is not a command. For the proofs the last import is a
set with at most one element instead of a CHOOSE, and the commands that an import or
a promotion can build are named as sets.

### Decisions and registrations

`ApprovalInv` adds to the promises what a request under way may rely on. The revision
of the account is the number of its decisions (`RowsFit`), so a decision whose count is
still right knows the state it leaves (`DecidersFit`); an older one fails its guard. A
sign-in that goes on to register has found an account (`SignInsFit`), and the notices are
finitely many, for their number is compared with that of the decisions (`NoticesFit`).
Assumption: `ApprovalConstants` (the deciders and sign-ins are apart, the clock is
bounded by a number).

### Transactions and identities

`IdentitiesInv` needs no assumption. A transaction in use was consumed by exactly one
callback, and nobody was signed in with it before (`TxnsFit`); a claimed link
transaction is `processing` and attached nothing, and one request holds it (`LinksFit`).
`PrimariesFit` is kept by unlinking because a primary identity is never unlinked, and by
attaching because what a request read as another account's or as absent is decided again
by the statement (`CallFits`). That an identity stays with its account is a fact about
each step, shown from the same invariant.

### Limits and requests

The limiter counts, then records (`LimiterInv`): a count is still true at the record
because the attempt holds the lock of its client and that of the installation
(`AttemptFits`) since before it counted. One lemma, `OneMoreFits`, does the arithmetic of
the windows: an attempt that found fewer than the limit among the rows stamped since the
beginning of its window, the later ones included, leaves no window with more. Stamps are
taken before the locks, so that rows may well be stamped later than the attempt.

`GateInv` has one conjunct per point of a request (`GateFits`): what it has passed, with
which account. The account may change at each moment; `seen` collects what it was
meanwhile, what was read is among it, and the right in the matrix was held by what was read.

### The composition

`MCSignIn` runs one of five machines: the sessions on variables of their own, the others on
shared registers. `SignInProofs` has the theorems of the sessions, instantiates the
three modules above on those registers, shows that the instances have the same initial
states, steps and promises as those of `MCSignIn` (lemmas `Same...`), and carries the theorems over:
while a machine is chosen, the composition does its steps or stutters.

### The owner's lists

`PagesProofs` is about the machines of `MCPages` on the registers they share. For the
lists, `ConsoleInv` says of the page and of each request under way what it still owes:
every row that must appear is listed already or comes after the continuation and passes
its filter (`Covers`). The answer to a continuation covers, together with the list its
button was rendered with, whatever that list owes (`QueryFits`); a page that does not
cover is reloading or has no continuation that it calls complete (`PageFits`). Two
points are easy to miss. A decided row leaves the list of deletions, so it must be owed
by nobody, by no older request either; and a continuation that comes back after a reload
appends to the list it was rendered with, which is why the request carries that list. The
page of `PageSize` rows is an initial segment of the rows that come after its cursor.
Assumption: `ConsoleConstants`, which TLC evaluates in `PagesConstants`.

### The learner's panels

The promise has three parts, and `PageInv` one chain of facts for each. What the page
shows (`PageIsTold`, `AnswersAreFresh`): while nothing has overtaken the page it shows
what the account holds, except for what the call under way will put right, and each kind
of call has its own exception: a switch moved before its answer, a request or a
cancellation that the answer adds to the list. The receipt (`ReceiptsAnswer`,
`ReceiptFits`): a second request while one is active gives it a new token, and the old
receipt answers nobody any more. That a page never does this to its own receipt is the
point, and it needs `ActiveIsShown`: as long as the page's newest receipt is good
(`Trusted`), an active request is on the page or in the answer on its way, so the button
that would spoil it is not offered. Tabs that changed the account elsewhere, and answers
that were lost, take that trust away. The preferences (`PreferencesFit`): they are
loading exactly while a load is under way, since a learner who waits (`Patient`) never
tears its effect down. The account numbers its requests from the oldest to the newest
(`Servers`), which makes the newest one the only active one. Assumption:
`AccountConstants` (`None` is neither a receipt nor an answer to a lookup), again in
`PagesConstants`.

### The portal

`PortalInv` follows a run from file to file. What it read when it began still holds,
because releases are installed and adopters edit between runs only (`RunFits`); what it
means to remove is ignored, untracked and shipped by nobody, and stays so; and after each
phase the files that phase is about are as they should be, except for those still in
its list (`RunProgress`). A stopped run keeps nothing: `finished` is 0 while one is
under way, so only a run that got to the theme index vouches for the whole. That no step
takes the adopter's work then follows from the lists alone. Assumption:
`PortalConstants` (the generated files are paths, the theme index is one of them, and
there is a release), in `PagesConstants`.

### The learner's record

`SyncInv` says what fits of the stores (`StoreFits`) and of a tab (`Fits`). The second is
about any tab, not the one in place: an action builds the new tab, the effects of React
run on it, and then it is put in place, so each action has one lemma about what it builds
and shares those about the effects (`CommitKeeps`, `ReconnectFits`). A record that may
replace the account's, in the tab, in a timer or on its way, holds only what that learner
or a visitor did and either holds the learner's history or the learner took that out
(`OwnerFits`, `OldFits`, and the saves of `StoreFits`). A tab writes only after a read of
the account (`syncEnabled`), and from then on the record it shows has the history; what
it owed under one account is cleared before it shows another (`Visits`).

`QuietIsSaved` needs more. The status says what is under way (`StatusFits`) and a tab
that calls itself saved has what it last synchronized, or a debounce or save for it
(`SavesFit`). What it last synchronized may be older than the account's record, though. For
what was made in the tab (`MadeFits`) the order of the saves decides: once such a piece
is on the account, every save under way carries it, and every save sent after one that
carries it does (`Kept`). Work and replacements change what is said of the evidence
itself, and are shown with the lemmas about the effects primed (`CommitFitsNext`).
Assumptions: `SyncConstants` (a visitor is no learner, null is no record), in
`PagesConstants`, and the schedule of `MCPages` (other tabs only while this one shows
nobody, saves in order).

### The header

`AuthInv` is about the sign-in page's promise that the header never lies. It cannot be
read off the moment when an answer is taken, because the answer was given earlier: a call
carries the cookies it was sent with and what the server found then (`SessionFits`,
`RenewalFits`, `SignOutFits`), and "nobody" is only ever answered of a session that is
`Dead`, a state that no session leaves. A sign-out that was served before a session
lookup cannot be overtaken by it, since answers arrive in the order in which they were
given (`InLine`), and a renewal, which alone changes the cookie of a living session, runs
by itself (`RenewsAlone`). With that `TabShows` holds at every moment: the account on the
page is the one of the session that the browser holds, and a page that says "signed out"
holds a dead one. An acceptance of the terms is counted when it is inserted and audited
later by the same request (`InsertedOnce`, `ServerFits`). Assumptions: `AuthConstants`, in
`PagesConstants`, and the schedule of `MCPages` (`Serial`, `InOrder`).

### Merges

`MergeInv` separates what the database keeps (`MergeDatabase`) from what a request holds.
The four promises of `MergeIsRecoverable` hang together; none is inductive alone.

*A merge can be rolled back* as long as nobody wrote to the survivor since. The rollback
restores the snapshot of the case, so a completed case must have one of both accounts,
with a receipt, and its alias must still be in force (`CaseFits`, `AliasFits`). Two merges
into one survivor must be undone in the reverse order; that the code refuses any other
order follows from the timestamps, because the later merge saw the earlier one
(`InLineMerges`), and the survivor has changed since (`ChangedSince`).

*No alias leads to an alias.* The batch does not ask again whether the accounts were merged
away since the preview; it compares the contents. So an older preview that another merge
has overtaken must show something that is no longer there (`StaleFits`). This is the
conjunct that the first model did not have: with three accounts an account without any
row looked the same before and after it was merged away. The code excludes this, since
every registered account has a role and the consents that a merge requires and takes
(`worker.ts` 3168, 4084-4094, 8198). The model now gives a fresh account version 1 and an
account that was merged away version 0; two accounts, the instance of the run, never
showed the difference.

*What an identity was told is saved is not lost.* The row of whatever account the identity
leads to has it, and so has the last import, except between a merge and the next
promotion (`ToldFits`). A rollback puts back an old row: either the snapshot has all that
was told (`SnapshotKeeps`), or a learner wrote to the survivor since, and no rollback
reaches behind that moment (`Overtaken`). Both must be stated for all the merges into
one survivor, because a rollback of the last makes the one before it the last again.

*Proofs serve once.* A proof that a completion relied on is consumed or expired
(`ProofsSpent`), and a request about to commit relies on none of these.

Each action is one lemma about what it builds; `MergeCommits` and `RestoreCommits` describe
the two large batches once. A case that completes takes the moment at which its request
began, and the database has nothing from that moment on (`Ahead`), which is where
`MaxActive = 1` is used. The theorem is for any number of accounts, cases, owner's
requests and proofs.

*What a merge does to the rows* (`MergesKeepValues`) is a property of `Survivor`, for the
rows of any two accounts: a lemma for the values that the owner decides (`ValueIsSelected`,
`PhotoIsSelected`, `MotionIsSelected`) and one for each table (`ModuleIsKept`,
`TranscriptIsKept`, `AttemptsAreKept`, `ConsentsJoin`). That no attempt is lost is a matter
of counting: the ids that are prefixed are apart from those that are not, so renaming is a
bijection and the two sets do not overlap. `ValuesInv` carries these to the behaviours: a
preview shows the conflicts of the rows in its digest; what a completion has read is still
so at its batch (`Overlap = FALSE`); afterwards the survivor is what the rows of both and
the choices make it. The assumption `MergeStartsFit` says of the first rows what the tables
and their writers permit: a module has a time of completion exactly when it is completed,
a transcript has no more done than there is, and no attempt has a prefix yet, so nobody was
merged into these accounts before. A second merge into the same survivor is therefore not
covered.

### Deletion, receipts and recovery

`RightsInv` (the profile and the deletion request). Calls interleave at every await, those
between the reads and the batch of a completion included. Because that batch looks at nothing
again, what a completion knows is stated relative to what it has missed: a history field
`missed`, which the calls that commit meanwhile write, says whether its request was cancelled
or got a new receipt since it was read. `ReadFits` is the invariant about it: the window was
over when the completion began, and the state and the token it has read are those of the
request still, unless it has missed the change. Hence a deletion is one that the policy has,
or one whose cancellation was missed (`PolicyIsFollowedUnlessOvertaken`). The receipt a
learner holds answers for the row it was issued with, and for the tombstone that row became
until the dispute window ends, unless the completion has missed that receipt (`HeldFits`). An
account is erased once because the tombstones of its identities are unique (`AccountFits`). The
photo that a profile names is in the store because an object key that is not in a profile yet
is in nobody's hands but the uploading request's (`PhotoFits`), so no cleanup of another request
deletes it.

`RecoveryInv` (backup, restore, replay of the deletions). A run works on an artifact that
is what was sealed, and it replays no deletion before every stream is restored; after
that a stream is as sealed, or empty because of a replayed deletion (`RunFits`). So a run
that died and started again, or replays a deletion twice, reports `ready` only for a
complete record. `ExactInv` (receipts). On D1 what a deletion has listed is the
beginning of the stream as long as nobody else deletes that record, so equal revisions
mean equal events.

Assumption of all seven: `RecordsConstants` (numbers are numbers, the sets of accounts and
requests are finite, `None` is none of the names), and for `MergesKeepValues` also
`MergeStartsFit`. TLC evaluates both in `AccountRecords`.

### Only model-checked

* Liveness under fairness, out of the prover's reach: `OwnerAlertsSettle`,
  `FanoutCompletes`.
* What recursive definitions and folds compute for every input, which needs an induction over
  data: `CopiesStaySound` (`ProgressRecord`, `LearningContract`, the reference definitions
  of `MCProgressRecord`) and the badges' part of `FinishedIsCurrent` and
  `NothingIsTakenBack` (`BadgeCredentials`).
* The properties of the runs that fail.

## 6. Plan

For the models: the domain rules (create, enable, delete against registrations),
the guarded batches of the outbox and of the decisions statement by statement on
PostgreSQL, and an abstract delivery promise that `NotificationOutbox` refines. For the
proofs: `MergeInv` without `MaxActive = 1`, where `Ahead` has to give way to the guards of
the batch.

## 7. Not modelled

Message texts, digests, cookies, JSON and HTTP shapes; scoring of assessments,
layouts of transcripts and files; the normalisers of request bodies; the merge,
audit and domain panels of the owner's page; content, catalogue and training
packages; the conformance suites, which drive modelled operations with fixed data;
the migration runner and file I/O of the self-hosted server; lessons and
presentation; build scripts; cryptography (assumed sound). `worker-configuration.d.ts`
(14 700 lines) is generated. On PostgreSQL the code calls `MAX` with two arguments,
which that database does not have; the models follow the intended maximum. The
components marked `not_modelled` in `PROJECT.json` carry their reason.
