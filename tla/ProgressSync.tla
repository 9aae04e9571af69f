----------------------------- MODULE ProgressSync -----------------------------
(***************************************************************************)
(* One browser tab of the learning site and the account API behind it      *)
(* (src/web/app/components/ProgressProvider.tsx and AuthProvider.tsx, with *)
(* the plans of src/src/progress.ts and the device record of               *)
(* src/web/app/lib/deviceLocalProgress.ts).                                *)
(*                                                                         *)
(* The tab keeps one progress record.  A read of the account is merged     *)
(* into it; a change is sent after a debounce; a failed save is buffered   *)
(* and tried again; a replacement (an import or a reset) suppresses the    *)
(* merge until it is written; leaving the page sends what is owed.  The    *)
(* cookie belongs to the browser: requests carry whoever it names when     *)
(* they are sent.  A visitor's record is kept in the browser's storage.    *)
(*                                                                         *)
(* A record is the set of pieces of evidence in it: every identifier in a  *)
(* record is random, so the merge is a union.  Display names and the order *)
(* of a record's entries are left out.  The steps of React between a state *)
(* change and the effects it causes are one step; the timers are not.      *)
(***************************************************************************)
EXTENDS Naturals, FiniteSets

CONSTANTS
    Learners,      \* accounts that are approved
    Nobody,        \* no session, no account: a visitor
    None,          \* null
    AnyTime,       \* do other tabs of this browser sign in and out at any time,
                   \* or only while this tab shows nobody?
    InOrder,       \* does the API decide saves in the order they were sent?
    MaxSaveTries,  \* PROGRESS_SAVE_MAX_ATTEMPTS
    MaxWork,       \* bound on the pieces of evidence made
    MaxSends,      \* bound on the saves sent
    MaxVisits,     \* bound on page loads, sign-ins, sign-outs and renewals
    MaxFaults      \* bound on requests that fail although there is a session

VARIABLES
    cookie,   \* whose session the browser's cookie names
    live,     \* learners with a session the API accepts
    acct,     \* the record of each account
    device,   \* the record under project42.progress.v1; empty is no record
    tab,      \* the tab: what it shows, its refs and its timers
    wire,     \* saves sent and not yet decided by the API
    sends,    \* saves sent so far
    visits,   \* page loads, sign-ins, sign-outs and renewals so far
    faults,   \* failures so far
    by,       \* who made each piece of evidence; None: not made yet
    dropped   \* what each learner has taken out by an import or a reset

progressVars == <<cookie, live, acct, device, tab, wire, sends, visits, faults, by, dropped>>

\* What a learner did on an earlier visit, and what is done in this one.
Old(l) == <<l, 0>>
New(n) == <<Nobody, n>>
Evidence == {Old(l) : l \in Learners} \cup {New(n) : n \in 1..MaxWork}

\* A visitor is no learner; null is neither of them, and no record.
SyncConstants ==
    /\ Nobody \notin Learners /\ None \notin Learners \cup {Nobody}
    /\ \A rec \in SUBSET Evidence : rec # None

Statuses == {"local-only", "checking", "synced", "syncing", "error"}

\* A save the tab waits for, and a read of the account.
NoSave == [pc |-> "none", id |-> 0, rec |-> {}]
NoRead == [pc |-> "none", who |-> Nobody, rec |-> {}]

\* A document that has just been loaded: the session is still being asked for,
\* and the first hydration is due.  "made" is for the properties only: what was
\* done in this document since it was loaded, or last showed an account no more.
FreshTab ==
    [account |-> Nobody, auth |-> "loading", progress |-> {}, hydrated |-> FALSE,
     status |-> "local-only", lastSynchronized |-> None, syncEnabled |-> FALSE,
     unsyncedBuffer |-> None, pendingWrite |-> None, pendingReplacement |-> FALSE,
     saveAttempt |-> 0, readFailed |-> FALSE, deviceRecordSeeded |-> FALSE,
     hydrationDue |-> TRUE, read |-> NoRead, readRetry |-> FALSE,
     debounce |-> FALSE, save |-> NoSave, saveRetry |-> FALSE, made |-> {}]

Init ==
    /\ cookie \in Learners \cup {Nobody}
    /\ live = {cookie} \ {Nobody}
    /\ acct = [l \in Learners |-> {Old(l)}]
    /\ device = {}
    /\ tab = FreshTab
    /\ wire = {}
    /\ sends = 0 /\ visits = 0 /\ faults = 0
    /\ by = [e \in Evidence |-> IF \E l \in Learners : e = Old(l) THEN e[1] ELSE None]
    /\ dropped = [l \in Learners |-> {}]

Approved(t) == t.account # Nobody
hasLearningEvidence(rec) == rec # {}

\* Entries have random ids, so none of the source collides with another of the
\* survivor: the merge adds what the survivor lacks.
mergeLearnerProgress(survivor, source) == survivor \cup source

-----------------------------------------------------------------------------
(* The effects of a state change.                                            *)

\* The sync effect.  Its cleanup stops the debounce and abandons the save in
\* flight; then the change is buffered, found to be on the account, or owed.
syncEffect(t) ==
    LET s == [t EXCEPT !.debounce = FALSE, !.save = NoSave]
    IN  IF ~s.hydrated \/ ~Approved(s) THEN s
        ELSE IF ~s.syncEnabled
             THEN IF hasLearningEvidence(s.progress)
                  THEN [s EXCEPT !.unsyncedBuffer = s.progress] ELSE s
        ELSE IF s.progress = s.lastSynchronized THEN [s EXCEPT !.pendingWrite = None]
        ELSE [s EXCEPT !.pendingWrite = s.progress, !.debounce = TRUE]

\* The reconnect effect runs when the status changes: a buffer is merged into
\* the record once the session is writable, never put in its place.
planUnsyncedProgressFlush(t) ==
    IF t.status # "synced" \/ ~t.syncEnabled \/ t.save.pc # "none" \/ t.unsyncedBuffer = None
    THEN "wait"
    ELSE IF t.pendingReplacement \/ t.unsyncedBuffer = t.lastSynchronized THEN "discard"
    ELSE "merge"

reconnectEffect(t) ==
    CASE planUnsyncedProgressFlush(t) = "wait" -> t
      [] planUnsyncedProgressFlush(t) = "discard" -> [t EXCEPT !.unsyncedBuffer = None]
      [] OTHER -> syncEffect([t EXCEPT !.unsyncedBuffer = None,
                                       !.progress = mergeLearnerProgress(t.progress,
                                                                       t.unsyncedBuffer)])

\* Mutant: the guard on "local-only" is taken for redundant with the account.
writesDevice_AnyStatus(t) == t.hydrated /\ ~Approved(t) /\ hasLearningEvidence(t.progress)

\* The device effect: only a visitor's own record is written.
writesDevice(t) ==
    /\ t.hydrated
    /\ t.status = "local-only"
    /\ ~Approved(t)
    /\ hasLearningEvidence(t.progress)

\* The tab after a change of progress, account or hydrated, and of the status.
Committed(t) == syncEffect(t)
WithStatus(t, status) ==
    IF t.status = status THEN t ELSE reconnectEffect([t EXCEPT !.status = status])

\* A step of the tab: the new tab, and what the device effect stores.
Becomes(t, stored) ==
    /\ tab' = t
    /\ device' = IF writesDevice(t) THEN t.progress ELSE stored

-----------------------------------------------------------------------------
(* The session: AuthProvider.                                                *)

\* setAccount with another object: the old hydration is cancelled, a new one is
\* due, and the effects that depend on the account run.
SetAccount(t, who) ==
    Committed([t EXCEPT !.account = who, !.auth = "idle", !.hydrationDue = TRUE,
                        !.read = NoRead, !.readRetry = FALSE,
                        !.made = IF who = Nobody THEN {} ELSE t.made])

\* A timer of 0 ms fires before any request is answered.
CanAnswer == ~tab.hydrationDue

\* GET /v1/auth/session on load.  null after null is no change.
loadAccount ==
    /\ tab.auth = "loading" /\ CanAnswer
    /\ Becomes(IF cookie \notin live THEN [tab EXCEPT !.auth = "idle"] ELSE SetAccount(tab, cookie),
               device)
    /\ UNCHANGED <<cookie, live, acct, wire, sends, visits, faults, by, dropped>>

\* refreshAccount, called by the renewal that finds the cookie rotated (409) or
\* refused (401), by the retry buttons and after a change of the profile: a new
\* account object, even for the same learner.  A request that fails shows nobody.
refreshAccount(who) ==
    /\ tab.auth = "idle" /\ CanAnswer /\ visits < MaxVisits
    /\ visits' = visits + 1
    /\ \/ who = (IF cookie \in live THEN cookie ELSE Nobody) /\ UNCHANGED faults
       \/ who = Nobody /\ faults < MaxFaults /\ faults' = faults + 1
    /\ Approved(tab) \/ who # Nobody
    /\ Becomes(SetAccount(tab, who), device)
    /\ UNCHANGED <<cookie, live, acct, wire, sends, by, dropped>>

\* POST /v1/auth/signout, decided by the API ...
signOut ==
    /\ tab.auth = "idle" /\ Approved(tab) /\ visits < MaxVisits
    /\ visits' = visits + 1
    /\ live' = live \ {cookie}
    /\ cookie' = Nobody
    /\ tab' = [tab EXCEPT !.auth = "signing-out"]
    /\ UNCHANGED <<acct, device, wire, sends, faults, by, dropped>>

\* ... and answered.
signedOut ==
    /\ tab.auth = "signing-out" /\ CanAnswer
    /\ Becomes(SetAccount(tab, Nobody), device)
    /\ UNCHANGED <<cookie, live, acct, wire, sends, visits, faults, by, dropped>>

\* The API stops accepting the session: it ran out, or was revoked.
SessionEnds ==
    /\ cookie \in live /\ visits < MaxVisits
    /\ visits' = visits + 1
    /\ live' = live \ {cookie}
    /\ UNCHANGED <<cookie, acct, device, tab, wire, sends, faults, by, dropped>>

\* Another tab of the same browser changes whom the cookie names.
OtherTab(who) ==
    /\ AnyTime \/ (~Approved(tab) /\ tab.auth = "idle" /\ CanAnswer)
    /\ visits < MaxVisits /\ who # cookie
    /\ visits' = visits + 1
    /\ cookie' = who
    /\ live' = IF who = Nobody THEN live \ {cookie} ELSE live \cup {who}
    /\ UNCHANGED <<acct, device, tab, wire, sends, faults, by, dropped>>

-----------------------------------------------------------------------------
(* Sending.                                                                  *)

Flushes(t) == t.pendingWrite # None /\ t.syncEnabled

\* flushOnUnload: what is owed is sent with keepalive, and nobody waits for it.
Flushed(t) ==
    IF Flushes(t)
    THEN {[id |-> sends + 1, who |-> cookie, rec |-> t.pendingWrite]} ELSE {}

Flush ==
    /\ sends + Cardinality(Flushed(tab)) <= MaxSends
    /\ wire' = wire \cup Flushed(tab)
    /\ sends' = sends + Cardinality(Flushed(tab))

\* visibilitychange to hidden: the page stays.
Hide ==
    /\ Flushed(tab) # {}
    /\ Flush
    /\ UNCHANGED <<cookie, live, acct, device, tab, visits, faults, by, dropped>>

\* The document goes away: a reload, or the navigation of signIn, which a
\* visitor makes and which ends with a new cookie.
Leave(who) ==
    /\ visits < MaxVisits
    /\ who = cookie \/ (~Approved(tab) /\ tab.auth = "idle" /\ who # Nobody)
    /\ visits' = visits + 1
    /\ Flush
    /\ cookie' = who
    /\ live' = IF who = cookie THEN live ELSE live \cup {who}
    /\ tab' = FreshTab
    /\ UNCHANGED <<acct, device, faults, by, dropped>>

\* The debounce runs out: the save is sent, and the tab waits for it.
sendProgress ==
    /\ tab.debounce /\ sends < MaxSends
    /\ sends' = sends + 1
    /\ wire' = wire \cup {[id |-> sends + 1, who |-> cookie, rec |-> tab.progress]}
    /\ tab' = [WithStatus(tab, "syncing") EXCEPT
                 !.debounce = FALSE,
                 !.save = [pc |-> "sent", id |-> sends + 1, rec |-> tab.progress]]
    /\ UNCHANGED <<cookie, live, acct, device, visits, faults, by, dropped>>

\* The API decides a save, whether or not a tab still waits for it.  An
\* accepted save replaces the account's record.
Decide(m, pc) ==
    /\ wire' = wire \ {m}
    /\ tab' = IF tab.save.id = m.id THEN [tab EXCEPT !.save.pc = pc] ELSE tab

InTurn(m) == InOrder => \A n \in wire : m.id <= n.id

AcceptSave(m) ==
    /\ InTurn(m) /\ m.who \in live
    /\ Decide(m, "accepted")
    /\ acct' = [acct EXCEPT ![m.who] = m.rec]
    /\ UNCHANGED <<cookie, live, device, sends, visits, faults, by, dropped>>

\* A save without a session is refused; one with a session may be, too.
RefuseSave(m) ==
    /\ InTurn(m)
    /\ \/ m.who \notin live /\ UNCHANGED faults
       \/ m.who \in live /\ faults < MaxFaults /\ faults' = faults + 1
    /\ Decide(m, "refused")
    /\ UNCHANGED <<cookie, live, acct, device, sends, visits, by, dropped>>

\* The request never reaches the API.
LoseSave(m) ==
    /\ faults < MaxFaults
    /\ faults' = faults + 1
    /\ Decide(m, "failed")
    /\ UNCHANGED <<cookie, live, acct, device, sends, visits, by, dropped>>

\* An accepted save reaches the tab.
saveAccepted(t) ==
    WithStatus([t EXCEPT !.lastSynchronized = t.save.rec, !.unsyncedBuffer = None,
                         !.pendingWrite = None, !.pendingReplacement = FALSE,
                         !.saveAttempt = 0, !.save = NoSave], "synced")

\* planProgressSaveRetry: what the API has refused it would refuse again.
planProgressSaveRetry(status, attempt) ==
    IF status = "refused" THEN "not-retryable"
    ELSE IF attempt >= MaxSaveTries THEN "attempts-exhausted" ELSE "retry"

\* A refused or failed save: buffer, say so, and arm the retry.  A replacement
\* that the API refuses hands authority back to the account.
saveFailed(t, status) ==
    LET attempt == IF t.saveAttempt < MaxSaveTries THEN t.saveAttempt + 1 ELSE t.saveAttempt
        plan == planProgressSaveRetry(status, attempt)
    IN  WithStatus([t EXCEPT !.unsyncedBuffer = t.progress, !.save = NoSave,
                             !.saveAttempt = attempt,
                             !.pendingReplacement = t.pendingReplacement /\ plan # "not-retryable",
                             !.saveRetry = t.saveRetry \/ plan = "retry"], "error")

\* The answer reaches the tab, unless an effect has abandoned it.  The answer
\* of an accepted save may be lost.
AnswerSave ==
    /\ tab.save.pc \in {"accepted", "refused", "failed"} /\ CanAnswer
    /\ \/ /\ tab.save.pc = "accepted"
          /\ tab' = saveAccepted(tab)
          /\ UNCHANGED faults
       \/ /\ tab.save.pc \in {"refused", "failed"}
          /\ tab' = saveFailed(tab, tab.save.pc)
          /\ UNCHANGED faults
       \/ /\ tab.save.pc = "accepted" /\ faults < MaxFaults
          /\ tab' = saveFailed(tab, "failed")
          /\ faults' = faults + 1
    /\ UNCHANGED <<cookie, live, acct, device, wire, sends, visits, by, dropped>>

\* The retry timer fires: the sync effect runs again.
RetrySave ==
    /\ tab.saveRetry
    /\ tab' = Committed([tab EXCEPT !.saveRetry = FALSE])
    /\ UNCHANGED <<cookie, live, acct, device, wire, sends, visits, faults, by, dropped>>

\* The browser is online again: the save is tried at once, with new attempts.
Online ==
    /\ tab.pendingWrite # None /\ tab.saveAttempt > 0
    /\ tab' = Committed([tab EXCEPT !.saveRetry = FALSE, !.saveAttempt = 0])
    /\ UNCHANGED <<cookie, live, acct, device, wire, sends, visits, faults, by, dropped>>

-----------------------------------------------------------------------------
(* Hydration.                                                                *)

\* No account: the device record is the record, and all per-learner write state
\* is cleared.
visitorTab(t, stored) ==
    Committed([t EXCEPT !.hydrationDue = FALSE, !.progress = stored, !.hydrated = TRUE,
                        !.status = "local-only",
                        !.deviceRecordSeeded = t.deviceRecordSeeded \/ hasLearningEvidence(stored),
                        !.syncEnabled = FALSE, !.pendingReplacement = FALSE,
                        !.pendingWrite = None, !.unsyncedBuffer = None,
                        !.lastSynchronized = None, !.saveAttempt = 0,
                        !.readFailed = FALSE, !.saveRetry = FALSE])

\* An account: the device record is put into the tab once, and the account read.
learnerTab(t, stored) ==
    LET seeds == ~t.deviceRecordSeeded /\ hasLearningEvidence(stored)
        s == [t EXCEPT !.hydrationDue = FALSE, !.deviceRecordSeeded = TRUE,
                       !.progress = IF seeds THEN stored ELSE t.progress,
                       !.read = [pc |-> "sent", who |-> cookie, rec |-> {}]]
    IN  WithStatus(IF seeds THEN Committed(s) ELSE s, "checking")

Hydrate ==
    /\ tab.hydrationDue
    /\ Becomes(IF Approved(tab) THEN learnerTab(tab, device) ELSE visitorTab(tab, device), device)
    /\ UNCHANGED <<cookie, live, acct, wire, sends, visits, faults, by, dropped>>

\* The API reads the record of the session's learner, or fails.
ReadAccount ==
    /\ tab.read.pc = "sent"
    /\ \/ /\ tab.read.who \in live
          /\ tab' = [tab EXCEPT !.read.pc = "read", !.read.rec = acct[tab.read.who]]
          /\ UNCHANGED faults
       \/ /\ tab.read.who \notin live
          /\ tab' = [tab EXCEPT !.read.pc = "failed"]
          /\ UNCHANGED faults
       \/ /\ tab.read.who \in live /\ faults < MaxFaults
          /\ tab' = [tab EXCEPT !.read.pc = "failed"]
          /\ faults' = faults + 1
    /\ UNCHANGED <<cookie, live, acct, device, wire, sends, visits, by, dropped>>

\* The account's record is merged with what the tab holds, unless a replacement
\* is on its way: that one wins unchanged.
planAccountProgressHydration(account, local, replacing) ==
    IF replacing THEN local
    ELSE IF ~hasLearningEvidence(local) THEN account
    ELSE mergeLearnerProgress(account, local)

\* The read succeeds: the session becomes writable, and the device record goes.
readSucceeded(t) ==
    LET s == [t EXCEPT !.lastSynchronized = t.read.rec, !.read = NoRead,
                       !.progress = planAccountProgressHydration(t.read.rec, t.progress,
                                                                 t.pendingReplacement),
                       !.syncEnabled = TRUE, !.readFailed = FALSE, !.hydrated = TRUE]
    IN  WithStatus(IF t.pendingReplacement /\ t.hydrated THEN s ELSE Committed(s), "synced")

\* The read fails: what the tab holds is buffered, and the read tried again.
\* The first failure replaces an empty record by a new empty one.
readFailed(t) ==
    LET s == [t EXCEPT !.read = NoRead, !.readRetry = TRUE, !.readFailed = TRUE,
                       !.hydrated = TRUE,
                       !.unsyncedBuffer = IF hasLearningEvidence(t.progress) THEN t.progress
                                          ELSE t.unsyncedBuffer]
        changed == ~t.hydrated \/ (~hasLearningEvidence(t.progress) /\ ~t.readFailed)
    IN  WithStatus(IF changed THEN Committed(s) ELSE s, "error")

AnswerRead ==
    /\ tab.read.pc \in {"read", "failed"} /\ CanAnswer
    /\ IF tab.read.pc = "read" THEN Becomes(readSucceeded(tab), {})
       ELSE Becomes(readFailed(tab), device)
    /\ UNCHANGED <<cookie, live, acct, wire, sends, visits, faults, by, dropped>>

\* The backoff of the read runs out: the hydration effect runs again.
RetryRead ==
    /\ tab.readRetry
    /\ tab' = [tab EXCEPT !.readRetry = FALSE, !.hydrationDue = TRUE]
    /\ UNCHANGED <<cookie, live, acct, device, wire, sends, visits, faults, by, dropped>>

-----------------------------------------------------------------------------
(* What the learner does.                                                    *)

\* recordResult, recordVisit, recordCapstone: evidence is added at any moment.
Work(e) ==
    /\ by[e] = None /\ \A f \in Evidence : by[f] = None => e[2] <= f[2]
    /\ by' = [by EXCEPT ![e] = tab.account]
    /\ Becomes(Committed([tab EXCEPT !.progress = tab.progress \cup {e},
                                     !.made = tab.made \cup {e}]), device)
    /\ UNCHANGED <<cookie, live, acct, wire, sends, visits, faults, dropped>>

\* replaceProgress and reset.  With an account the intent is noted, and what was
\* last synchronized forgotten, so that the replacement is written.
Replaced(t, keep) ==
    IF Approved(t)
    THEN Committed([t EXCEPT !.pendingReplacement = TRUE, !.lastSynchronized = None,
                             !.progress = keep])
    ELSE Committed([t EXCEPT !.progress = keep])

Drop(keep) ==
    dropped' = IF Approved(tab)
               THEN [dropped EXCEPT ![tab.account] =
                       @ \cup ((tab.progress \cup acct[tab.account]) \ keep)]
               ELSE dropped

replaceProgress(keep) ==
    /\ keep # {} /\ keep # tab.progress /\ keep \subseteq tab.progress
    /\ Drop(keep)
    /\ Becomes(Replaced(tab, keep), device)
    /\ UNCHANGED <<cookie, live, acct, wire, sends, visits, faults, by>>

\* A reset also removes the device record, with an account or without.
reset ==
    /\ tab.progress # {}
    /\ Drop({})
    /\ Becomes(Replaced(tab, {}), {})
    /\ UNCHANGED <<cookie, live, acct, wire, sends, visits, faults, by>>

Next ==
    \/ loadAccount \/ signOut \/ signedOut \/ SessionEnds
    \/ \E who \in Learners \cup {Nobody} : refreshAccount(who) \/ OtherTab(who) \/ Leave(who)
    \/ Hide \/ sendProgress \/ AnswerSave \/ RetrySave \/ Online
    \/ \E m \in wire : AcceptSave(m) \/ RefuseSave(m) \/ LoseSave(m)
    \/ Hydrate \/ ReadAccount \/ AnswerRead \/ RetryRead
    \/ \E e \in Evidence : Work(e)
    \/ \E keep \in SUBSET tab.progress : replaceProgress(keep)
    \/ reset

Spec == Init /\ [][Next]_progressVars

-----------------------------------------------------------------------------
\* The records are records, and no more is waited for than was sent.
ProgressTypeOK ==
    /\ cookie \in Learners \cup {Nobody} /\ live \subseteq Learners
    /\ acct \in [Learners -> SUBSET Evidence] /\ device \subseteq Evidence
    /\ tab.progress \subseteq Evidence /\ tab.status \in Statuses
    /\ \A r \in {tab.lastSynchronized, tab.unsyncedBuffer, tab.pendingWrite} :
          r = None \/ r \subseteq Evidence
    /\ \A m \in wire : m.id \in 1..sends /\ m.rec \subseteq Evidence

\* What a learner did on an earlier visit is never written over: neither an
\* empty or partial record of a tab that has not read the account, nor another
\* learner's reset, nor a buffer, takes it away.  Only the learner can.
HistoryIsNotOverwritten ==
    \A l \in Learners : Old(l) \in acct[l] \cup dropped[l]

\* No account receives what another learner did, and the browser's storage only
\* ever holds what was done without an account.  What a visitor did goes to
\* whoever signs in.
NothingCrosses ==
    /\ \A l \in Learners : \A e \in acct[l] : by[e] \in {l, Nobody}
    /\ \A e \in device : by[e] = Nobody

\* No timer is armed and no request is under way.
Quiet ==
    /\ ~tab.debounce /\ tab.save.pc = "none" /\ ~tab.saveRetry
    /\ ~tab.hydrationDue /\ tab.read.pc = "none" /\ ~tab.readRetry
    /\ tab.auth = "idle" /\ wire = {}

\* A learner who replaced nothing and whose tab has nothing more to do and reports
\* no error finds what they did in it on the account: no order of reads, saves,
\* retries, flushes and sign-ins leaves work behind in a tab that believes it saved.
\* It says nothing of what the tab only read: the save of an earlier document may
\* reach the API after that read, and replaces the record.
QuietIsSaved ==
    (Quiet /\ Approved(tab) /\ tab.status # "error" /\ dropped[tab.account] = {})
      => tab.progress \cap tab.made \subseteq acct[tab.account]

===============================================================================
