--------------------------- MODULE BrowserSessions ---------------------------
(***************************************************************************)
(* Browser sessions (src/src/worker.ts, createBrowserSession,              *)
(* resolveBrowserSession, extendBrowserSession, rotateBrowserSession,      *)
(* revokeBrowserSession and the statements of account decisions, merges    *)
(* and sign-in starts that touch browser_sessions, with the CHECKs of      *)
(* src/migrations/0010_secure_browser_sessions.sql).                       *)
(*                                                                         *)
(* Requests of one account's browsers overlap.  Each resolves the token of *)
(* its cookie, keeps the expiry it saw, and later slides, rotates or       *)
(* revokes that session, or signs in anew.  A batch is atomic; a statement *)
(* that trips a CHECK undoes it, one that changes no row does not.  Every  *)
(* request stamps what it writes with the time it began.                   *)
(*                                                                         *)
(* last_seen_at, the audit rows and the cookies' attributes are left out.  *)
(***************************************************************************)
EXTENDS Naturals

CONSTANTS
    Sessions,          \* session ids, each with its token
    Legacy,            \* the id of a session from before the approval boundary
    Requests,          \* concurrent requests
    None,              \* SQL NULL, no cookie
    IdleSeconds,       \* BROWSER_SESSION_IDLE_SECONDS, 7 days
    AbsoluteSeconds,   \* BROWSER_SESSION_ABSOLUTE_SECONDS, 30 days
    SlideThreshold,    \* BROWSER_SESSION_SLIDE_THRESHOLD_SECONDS, 1 hour
    RetainSeconds,     \* retention of retired rows, 30 days
    MaxClock,          \* bound on the clock
    MaxDecisions       \* bound on the decisions about the account

ASSUME SessionConstants ==
    /\ IdleSeconds \in Nat \ {0} /\ AbsoluteSeconds \in Nat /\ IdleSeconds <= AbsoluteSeconds
    /\ SlideThreshold \in Nat /\ RetainSeconds \in Nat
    /\ MaxClock \in Nat /\ MaxDecisions \in Nat
    /\ None \notin Sessions /\ None \notin Nat /\ Legacy \in Sessions

VARIABLES
    clock,       \* wall-clock time
    approved,    \* users.account_state = 'approved'
    sess,        \* browser_sessions
    req,         \* the requests' local state
    decided      \* decisions about the account so far

vars == <<clock, approved, sess, req, decided>>

Least(a, b) == IF a < b THEN a ELSE b
Later(a, b) == IF a < b THEN b ELSE a

\* A row.  `root' and `since' are the sign-in a session descends from and its
\* time.
NoRow == [status |-> "none", created |-> 0, expires |-> 0, absolute |-> 0,
          revoked |-> None, by |-> None, root |-> None, since |-> 0]

\* The row that a sign-in at time t inserts.
SignedIn(s, t) ==
    [status |-> "row", created |-> t, expires |-> t + IdleSeconds,
     absolute |-> t + AbsoluteSeconds, revoked |-> None, by |-> None, root |-> s, since |-> t]

\* A request: its operation and time, the session its cookie named or resolved
\* to, and the expiry it saw.  The ceiling it saw never changes in the row.
Idle == [pc |-> "idle", op |-> "none", now |-> 0, token |-> None, expires |-> 0]

\* The account is approved without a session, or has a session from before the
\* boundary although it is not approved.
Init ==
    /\ clock = 0
    /\ req = [r \in Requests |-> Idle]
    /\ decided = 0
    /\ \/ approved = TRUE /\ sess = [s \in Sessions |-> NoRow]
       \/ approved = FALSE
          /\ sess = [s \in Sessions |-> IF s = Legacy THEN SignedIn(s, 0) ELSE NoRow]

Tick ==
    /\ clock < MaxClock
    /\ clock' = clock + 1
    /\ UNCHANGED <<approved, sess, req, decided>>

Live(s) == sess[s].status = "row" /\ sess[s].revoked = None

-----------------------------------------------------------------------------
(* Requests *)

\* A request arrives, with the cookie of some session or without one.
Begin(r, op, token) ==
    /\ req[r].pc = "idle"
    /\ token # None => sess[token].status = "row"
    /\ op # "signin" => token # None
    /\ req' = [req EXCEPT ![r] = [Idle EXCEPT !.op = op, !.now = clock, !.token = token,
                                              !.pc = IF op = "signin" THEN "account" ELSE "resolve"]]
    /\ UNCHANGED <<clock, approved, sess, decided>>

\* The account as a sign-in or a renewal reads it, before its batch.
ReadAccount(r) ==
    /\ req[r].pc = "account"
    /\ req' = [req EXCEPT ![r] =
         IF req[r].op = "signin" /\ req[r].token # None
         THEN [req[r] EXCEPT !.pc = "resolve"]
         ELSE IF approved THEN [req[r] EXCEPT !.pc = "commit"] ELSE Idle]
    /\ UNCHANGED <<clock, approved, sess, decided>>

\* What follows the resolution of a token to nothing: a sign-in goes on, a
\* sign-out is answered, every other request is refused.
Unresolved(r) ==
    IF req[r].op = "signin" /\ approved
    THEN [req[r] EXCEPT !.pc = "commit", !.token = None]
    ELSE Idle

\* What follows otherwise.  Only a slide compares the expiry it saw.
Resolved(r) ==
    [req[r] EXCEPT !.pc = IF req[r].op = "renew" THEN "account" ELSE "commit",
                   !.expires = IF req[r].op = "session" THEN sess[req[r].token].expires ELSE 0]

\* The WHERE clause of the SELECT of resolveBrowserSession.
Resolves(r) ==
    LET s == req[r].token
    IN  Live(s) /\ sess[s].expires > req[r].now /\ sess[s].absolute > req[r].now

\* resolveBrowserSession admits a session while its account is approved.
Admits == approved

\* The SELECT, and what the request keeps of the row.
Resolve(r) ==
    /\ req[r].pc = "resolve"
    /\ \/ /\ Resolves(r) /\ Admits
          /\ req' = [req EXCEPT ![r] = Resolved(r)]
       \/ /\ Resolves(r) /\ ~ Admits
          /\ req' = [req EXCEPT ![r].pc = "evict"]
       \/ /\ ~ Resolves(r)
          /\ req' = [req EXCEPT ![r] = Unresolved(r)]
    /\ UNCHANGED <<clock, approved, sess, decided>>

\* Mutant: the request's timestamp, as the sign-out and the merge write it.
RevokedAt_Now(s, t) == t

\* revoked_at = MAX(created_at, now)
RevokedAt(s, t) == Later(sess[s].created, t)

\* The batch that revokes the session of an account that is not approved.
Evict(r) ==
    LET s == req[r].token
    IN  /\ req[r].pc = "evict"
        /\ sess' = IF Live(s) THEN [sess EXCEPT ![s].revoked = RevokedAt(s, req[r].now)] ELSE sess
        /\ req' = [req EXCEPT ![r] = Unresolved(r)]
        /\ UNCHANGED <<clock, approved, decided>>

\* createBrowserSession: inserts if the account is still approved, and then
\* retires the session the browser had.
SignIn(r, s) ==
    LET now == req[r].now
        prior == req[r].token
        inserted == [sess EXCEPT ![s] = SignedIn(s, now)]
    IN  /\ req[r].pc = "commit" /\ req[r].op = "signin"
        /\ sess[s].status = "none" /\ s # Legacy
        /\ sess' = IF ~ approved THEN sess
                   ELSE IF prior # None /\ Live(prior)
                        THEN [inserted EXCEPT ![prior].revoked = now, ![prior].by = s]
                        ELSE inserted
        /\ req' = [req EXCEPT ![r] = Idle]
        /\ UNCHANGED <<clock, approved, decided>>

\* The expiry a slide aims at: the idle window from now, under the ceiling.
SlideTarget(r) == Least(req[r].now + IdleSeconds, sess[req[r].token].absolute)

\* Mutant: the UPDATE does not look at the current expiry.
Slides_FromSeen(r) ==
    /\ SlideTarget(r) >= req[r].expires + SlideThreshold
    /\ Live(req[r].token)

\* extendBrowserSession writes if the gain over the expiry it saw reaches the
\* threshold and the session is live, not expired, and ends before the target.
Slides(r) ==
    /\ SlideTarget(r) >= req[r].expires + SlideThreshold
    /\ Live(req[r].token)
    /\ sess[req[r].token].expires < SlideTarget(r)
    /\ sess[req[r].token].expires > req[r].now

Slide(r) ==
    /\ req[r].pc = "commit" /\ req[r].op = "session"
    /\ sess' = IF Slides(r) THEN [sess EXCEPT ![req[r].token].expires = SlideTarget(r)] ELSE sess
    /\ req' = [req EXCEPT ![r] = Idle]
    /\ UNCHANGED <<clock, approved, decided>>

\* Mutant: the ceiling is counted from the renewal.
Rotated_NewCeiling(r) ==
    LET old == sess[req[r].token]
    IN  [old EXCEPT !.created = req[r].now, !.expires = req[r].now + IdleSeconds,
                    !.revoked = None, !.by = None, !.absolute = req[r].now + AbsoluteSeconds]

\* The row that a renewal inserts in place of the old one.
Rotated(r) ==
    LET old == sess[req[r].token]
    IN  [old EXCEPT !.created = req[r].now, !.revoked = None, !.by = None,
                    !.expires = Least(sess[req[r].token].absolute, req[r].now + IdleSeconds)]

\* Mutant: the INSERT does not ask whether the old session is live.
Rotates_Dead(r) == approved

\* The condition under which the INSERT of rotateBrowserSession finds the old
\* row.  The ceiling was compared with the time of the request before.
Rotates(r) == approved /\ Live(req[r].token) /\ sess[req[r].token].absolute > req[r].now

\* rotateBrowserSession: inserts the successor and retires the old session.
Rotate(r, s) ==
    LET old == req[r].token
        inserted == [sess EXCEPT ![s] = Rotated(r)]
    IN  /\ req[r].pc = "commit" /\ req[r].op = "renew"
        /\ sess[s].status = "none" /\ s # Legacy
        /\ sess' = IF ~ Rotates(r) THEN sess
                   ELSE IF Live(old)
                        THEN [inserted EXCEPT ![old].revoked = req[r].now, ![old].by = s]
                        ELSE inserted
        /\ req' = [req EXCEPT ![r] = Idle]
        /\ UNCHANGED <<clock, approved, decided>>

\* revokeBrowserSession: the sign-out is answered whether or not a row changed.
SignOut(r) ==
    LET s == req[r].token
    IN  /\ req[r].pc = "commit" /\ req[r].op = "signout"
        /\ sess' = IF Live(s) THEN [sess EXCEPT ![s].revoked = req[r].now] ELSE sess
        /\ req' = [req EXCEPT ![r] = Idle]
        /\ UNCHANGED <<clock, approved, decided>>

-----------------------------------------------------------------------------
(* Other writers *)

\* Mutant: the decision leaves the sessions alone.
AllRevoked_None(t) == sess

\* Every live session revoked by a decision whose request began at time t.
AllRevoked(t) ==
    [s \in Sessions |-> IF Live(s) THEN [sess[s] EXCEPT !.revoked = RevokedAt(s, t)] ELSE sess[s]]

\* changeAccountState, away from approved,
Withdraw(t) ==
    /\ approved /\ decided < MaxDecisions
    /\ approved' = FALSE
    /\ sess' = AllRevoked(t)
    /\ decided' = decided + 1
    /\ UNCHANGED <<clock, req>>

\* and to approved.
Approve ==
    /\ ~ approved /\ decided < MaxDecisions
    /\ approved' = TRUE
    /\ decided' = decided + 1
    /\ UNCHANGED <<clock, sess, req>>

\* completeAccountMerge and its rollback revoke the account's sessions at their
\* own time; the CHECK undoes the batch if a session is younger than that.
Merge(t) ==
    /\ decided < MaxDecisions
    /\ \A s \in Sessions : Live(s) => sess[s].created <= t
    /\ sess' = [s \in Sessions |-> IF Live(s) THEN [sess[s] EXCEPT !.revoked = t] ELSE sess[s]]
    /\ decided' = decided + 1
    /\ UNCHANGED <<clock, approved, req>>

\* The rows a sign-in start at time t deletes: long expired or long revoked.
Retired(s, t) ==
    /\ sess[s].status = "row"
    /\ \/ sess[s].absolute + RetainSeconds <= t
       \/ sess[s].revoked # None /\ sess[s].revoked + RetainSeconds <= t

\* createOidcAuthorizationTransaction.  replaced_by_session_id is a foreign key:
\* the batch fails if a row that stays refers to one that goes.
Purge ==
    /\ \E s \in Sessions : Retired(s, clock)
    /\ \A s \in Sessions : sess[s].status = "row" /\ sess[s].by # None
            => (Retired(sess[s].by, clock) => Retired(s, clock))
    /\ sess' = [s \in Sessions |-> IF Retired(s, clock)
                                   THEN [NoRow EXCEPT !.status = "purged", !.root = sess[s].root]
                                   ELSE sess[s]]
    /\ UNCHANGED <<clock, approved, req, decided>>

RequestStep(r) ==
    \/ ReadAccount(r) \/ Resolve(r) \/ Evict(r) \/ Slide(r) \/ SignOut(r)
    \/ \E s \in Sessions : SignIn(r, s) \/ Rotate(r, s)

Next ==
    \/ Tick
    \/ \E r \in Requests :
          \/ \E op \in {"signin", "session", "renew", "signout"},
               token \in Sessions \cup {None} : Begin(r, op, token)
          \/ RequestStep(r)
    \/ \E t \in 0..clock : Withdraw(t) \/ Merge(t)
    \/ Approve
    \/ Purge

Spec == Init /\ [][Next]_vars

-----------------------------------------------------------------------------
(* Properties *)

Row == [status : {"none", "row", "purged"}, created : Nat, expires : Nat, absolute : Nat,
        revoked : Nat \cup {None}, by : Sessions \cup {None}, root : Sessions \cup {None},
        since : Nat]

\* The columns and the requests' variables keep their types.
TypeOK ==
    /\ clock \in Nat /\ approved \in BOOLEAN /\ decided \in Nat
    /\ sess \in [Sessions -> Row]
    /\ req \in [Requests -> [pc : {"idle", "account", "resolve", "evict", "commit"},
                             op : {"none", "signin", "session", "renew", "signout"},
                             now : Nat, token : Sessions \cup {None}, expires : Nat]]

\* A session never outlives its account's approval: no interleaving of a
\* sign-in or a renewal with a decision leaves a live session behind.
NoSessionWithoutApproval ==
    ~ approved => \A s \in Sessions : Live(s) => s = Legacy

\* Renewing in several tabs at once leaves one of them with the session: at
\* most one live session descends from a sign-in.
OneLiveSessionPerSignIn ==
    \A s, q \in Sessions : Live(s) /\ Live(q) /\ sess[s].root = sess[q].root => s = q

\* Slides and renewals, in any number and order, never carry a sign-in beyond
\* its absolute ceiling; no request, however late, writes a row that the CHECKs
\* of the table refuse; and a retired session is never kept from deletion by an
\* older one that refers to it, which the foreign key would turn into a failure
\* of every later start of a sign-in.
LifetimesEnd ==
    \A s \in Sessions : sess[s].status = "row" =>
        /\ sess[s].created < sess[s].expires /\ sess[s].expires <= sess[s].absolute
        /\ sess[s].revoked # None => sess[s].revoked >= sess[s].created
        /\ sess[s].by # None => sess[s].revoked # None
        /\ sess[s].absolute = sess[s].since + AbsoluteSeconds
        /\ sess[s].by # None =>
              \A t \in 0..(MaxClock + AbsoluteSeconds + RetainSeconds) :
                  Retired(sess[s].by, t) => Retired(s, t)

\* A slow request neither shortens a session that a faster one has slid, nor
\* slides or brings back one that was revoked in between.
ExpiryOnlyGrows ==
    [][\A s \in Sessions : sess[s].status = "row" /\ sess'[s].status = "row" =>
          /\ sess'[s].expires >= sess[s].expires
          /\ sess[s].revoked # None => sess'[s] = sess[s]]_sess

\* docs/browser-sessions.md: the sign-out "revokes the session".  When one
\* that had resolved its cookie is answered, no live session descends from the
\* same sign-in.
SignOutEndsTheSession ==
    [][\A r \in Requests : req[r].op = "signout" /\ req[r].pc = "commit" /\ req'[r].pc = "idle" =>
          \A s \in Sessions : Live(s)' => sess'[s].root # sess[req[r].token].root]_vars

=============================================================================
