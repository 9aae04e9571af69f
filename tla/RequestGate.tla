----------------------------- MODULE RequestGate -----------------------------
(***************************************************************************)
(* What a request passes before its handler does anything (handleRequest   *)
(* in src/worker.ts, src/authorization.ts): the origin, the sign-in        *)
(* limiter, the browser session or the bearer token, the account, the      *)
(* permission, and the handler's own conditions.  The account is read once *)
(* and used to the end, while owners decide on it, change its roles or     *)
(* complete its deletion.                                                  *)
(*                                                                         *)
(* What the handlers do is the business of the other modules: here it is   *)
(* one step, `done'.  A route is described by what its handler asks for;   *)
(* routes that ask for the same are not told apart.  All accounts belong   *)
(* to one installation.                                                    *)
(***************************************************************************)
EXTENDS Naturals, FiniteSets

CONSTANTS
    Visitors,
    MaxChanges,      \* how often others change the account
    None             \* before a request has a route or an account

VARIABLES
    account,         \* the caller's row in users, with its roles; "none": no such row
    session,         \* the session the browser's cookie names is live
    changes,
    ask              \* what each request carries, has read and was answered

GateConstants == MaxChanges \in Nat

gateVars == <<account, session, changes, ask>>

States == {"none", "pending", "approved", "rejected", "suspended", "revoked"}
Accounts == [state : States, roles : SUBSET {"learner", "owner"}]

-----------------------------------------------------------------------------
(* The routes.  `serves' is what a route gives access to, in the words of  *)
(* docs/authorization-boundaries.md; the other fields are the code's:      *)
(* `listed' the entry in NON_APPROVED_SELF_SERVICE_ALLOWLIST, `approved'   *)
(* the call of requireApproved, `recent' that of                           *)
(* requireRecentAuthentication ("others": for accounts that are not        *)
(* approved), `more' one further condition.                                *)

Route(area, serves, writes, listed, approved, recent, more) ==
    [area |-> area, serves |-> serves, writes |-> writes, listed |-> listed,
     approved |-> approved, recent |-> recent, more |-> more]

Me(serves, writes, listed, approved, recent, more) ==
    Route("me", serves, writes, listed, approved, recent, more)

Admin(writes, recent, more) ==
    Route("admin", "administration", writes, "no", FALSE, recent, more)

\* Routes of receipts, which no account stands behind.
ReceiptRoutes == {Route("open", "nothing", w, "no", FALSE, "no", "none") : w \in BOOLEAN}

SignInRoute == Route("callback", "session", FALSE, "no", FALSE, "no", "none")
BearerRoute == Route("bearer", "state", TRUE, "no", FALSE, "no", "none")

\* GET /v1/auth/session, POST /v1/auth/renew and POST /v1/auth/signout.
SessionRoutes ==
    {Route("auth", "state", FALSE, "no", FALSE, "no", "none"),
     Route("auth", "session", TRUE, "no", FALSE, "no", "none"),
     Route("auth", "nothing", TRUE, "no", FALSE, "no", "sign-out")}

\* GET /v1/me and the profile.
ProfileRoutes ==
    {Me("state", FALSE, "account-state", FALSE, "no", "none"),
     Me("records", FALSE, "no", TRUE, "no", "none"),
     Me("records", TRUE, "no", TRUE, "no", "body")}

\* The linked identities: listed, linked, completed, cancelled, removed.
IdentityRoutes ==
    {Me("records", FALSE, "no", TRUE, "no", "none"),
     Me("records", TRUE, "no", TRUE, "always", "body")}

\* The optional consents and the terms; a consent is granted or withdrawn.
ConsentRoutes ==
    {Me("rights", FALSE, "data-rights", FALSE, "others", "none"),
     Me("rights", TRUE, "data-rights", FALSE, "others", "grant"),
     Me("rights", TRUE, "data-rights", FALSE, "others", "body")}

\* Export, transcript, and the deletion of the account.
RightsRoutes ==
    {Me("rights", FALSE, "data-rights", FALSE, "always", "none"),
     Me("records", FALSE, "no", TRUE, "always", "none"),
     Me("rights", FALSE, "data-rights", FALSE, "others", "none"),
     Me("rights", TRUE, "data-rights", FALSE, "always", "body")}

\* The learner's own merges: whoever asks takes part in the merge.
SelfMergeRoutes ==
    {Me("records", TRUE, "no", TRUE, "always", "participant"),
     Me("records", FALSE, "no", TRUE, "no", "participant")}

AdminMergeRoutes == {Admin(TRUE, "always", "body"), Admin(FALSE, "no", "none")}
AdminAccountRoutes == {Admin(FALSE, "no", "none"), Admin(TRUE, "always", "body")}
AdminDomainRoutes == {Admin(FALSE, "no", "none"), Admin(TRUE, "always", "domain")}
AdminDeletionRoutes == {Admin(FALSE, "no", "none"), Admin(TRUE, "always", "body")}

Routes ==
    ReceiptRoutes \cup {SignInRoute, BearerRoute} \cup SessionRoutes \cup ProfileRoutes
    \cup IdentityRoutes \cup ConsentRoutes \cup RightsRoutes \cup SelfMergeRoutes
    \cup AdminMergeRoutes \cup AdminAccountRoutes \cup AdminDomainRoutes
    \cup AdminDeletionRoutes

-----------------------------------------------------------------------------
NoRequest == [pc |-> "idle", route |-> None, origin |-> FALSE, cookie |-> FALSE,
              recent |-> FALSE, read |-> None, answer |-> "none", shows |-> "nothing",
              traces |-> 0, done |-> FALSE, seen |-> {}]

GateInit ==
    /\ account \in Accounts
    /\ account.state = "none" <=> account.roles = {}
    /\ session \in {FALSE, account.state = "approved"}
    /\ changes = 0
    /\ ask = [r \in Visitors |-> NoRequest]

Underway == {r \in Visitors : ask[r].pc \notin {"idle", "answered"}}

Continues(r, pc) == ask' = [ask EXCEPT ![r].pc = pc]
Answers(r, answer) == ask' = [ask EXCEPT ![r].pc = "answered", ![r].answer = answer]

\* permittedOrigin: an origin that is not allowed ends the request before anything else.
permittedOrigin(r) ==
    /\ ask[r].pc = "idle"
    /\ \E route \in Routes, origin \in {"none", "allowed", "foreign"}, cookie \in BOOLEAN :
         LET fresh == [NoRequest EXCEPT !.route = route, !.origin = (origin = "allowed"),
                                        !.cookie = cookie, !.seen = {account}] IN
         ask' = [ask EXCEPT ![r] =
                   IF origin = "foreign"
                   THEN [fresh EXCEPT !.pc = "answered", !.answer = "refused"]
                   ELSE [fresh EXCEPT !.pc = CASE route.area = "open" -> "receipt"
                                               [] route.area = "callback" -> "limit"
                                               [] OTHER -> IF cookie THEN "session" ELSE "token"]]
    /\ UNCHANGED <<account, session, changes>>

-----------------------------------------------------------------------------
(* Who is asking.                                                          *)

\* requireCookieMutationOrigin, and the two routes with a receipt instead of a session.
UseReceipt(r) ==
    /\ ask[r].pc = "receipt"
    /\ IF ask[r].route.writes /\ ~ask[r].origin
       THEN Answers(r, "refused")
       ELSE \/ Answers(r, "refused")
            \/ ask' = [ask EXCEPT ![r].pc = "answered", ![r].answer = "ok", ![r].done = TRUE]
    /\ UNCHANGED <<account, session, changes>>

\* enforceAuthAbuseLimit: too many attempts, or nobody there to count them, end a sign-in.
enforceAuthAbuseLimit(r) ==
    /\ ask[r].pc = "limit"
    /\ Continues(r, "token") \/ Answers(r, "refused") \/ Answers(r, "unavailable")
    /\ UNCHANGED <<account, session, changes>>

\* resolveBrowserSession (BrowserSessions has its detail): a session of an account that is
\* not approved is ended.  Without one only a sign-out is answered.
resolveBrowserSession(r) ==
    LET approved == account.state = "approved" IN
    /\ ask[r].pc = "session"
    /\ session' = (session /\ approved)
    /\ IF session /\ approved
       THEN IF ask[r].route.writes /\ ~ask[r].origin
            THEN Answers(r, "refused")
            ELSE \E recent \in BOOLEAN :
                   ask' = [ask EXCEPT ![r].pc = "account", ![r].recent = recent]
       ELSE Answers(r, IF ask[r].route.more # "sign-out" THEN "expired"
                       ELSE IF ask[r].origin THEN "ok" ELSE "refused")
    /\ UNCHANGED <<account, changes>>

\* The claims of a token that are looked at: whether its signature, issuer, audience and
\* expiry hold, its nonce, its authorized party and the age of its auth_time.
Tokens == [valid : {"yes", "no", "expired", "unknown"}, nonce : BOOLEAN, party : BOOLEAN,
           age : {"none", "minutes", "days", "weeks", "future"}]

\* "unknown": the keys of the provider cannot be read.  An expired token restarts a sign-in.
verifyToken(token, signIn) ==
    IF token.valid = "unknown" THEN "unavailable"
    ELSE IF token.valid = "expired" /\ signIn THEN "restart"
    ELSE IF \/ token.valid # "yes" \/ ~token.party
            \/ signIn /\ (~token.nonce \/ token.age # "minutes")
         THEN "refused" ELSE "identity"

\* verifier.verify for a bearer token, the exchange and verifyToken for a callback: the
\* token may be missing, and the provider may not answer.
Verify(r) ==
    LET signIn == ask[r].route.area = "callback" IN
    /\ ask[r].pc = "token"
    /\ \/ Answers(r, "refused")
       \/ signIn /\ Answers(r, "unavailable")
       \/ \E token \in Tokens :
            LET verdict == verifyToken(token, signIn) IN
            IF verdict = "identity"
            THEN ask' = [ask EXCEPT ![r].pc = "account",
                                    ![r].recent = (token.age \in {"minutes", "days"})]
            ELSE Answers(r, verdict)
    /\ UNCHANGED <<account, session, changes>>

-----------------------------------------------------------------------------
(* What it may do.                                                         *)

\* Mutant: the state of the account is not looked at.
authorizeProject42Operation_AnyState(permission, a) ==
    /\ a.roles # {}
    /\ permission = "installation:owner-administration" => "owner" \in a.roles

\* normalizedRoles refuses an account without a role; the target of a self-service request
\* is the account itself.
authorizeProject42Operation(permission, a) ==
    /\ a.roles # {}
    /\ permission \notin {"self:account-state", "self:data-rights"} => a.state = "approved"
    /\ permission = "installation:owner-administration" => "owner" \in a.roles

\* authorizeSelfServiceRoute: which permission is asked for; "none": requireApproved throws.
SelfPermission(route, a) ==
    IF a.state = "approved" THEN "self:learner-records"
    ELSE IF route.listed = "account-state" THEN "self:account-state"
    ELSE IF route.listed = "data-rights" THEN "self:data-rights"
    ELSE "none"

\* The permission a request must have; "free" where none is asked for.
Permission(route, a) ==
    CASE route.area = "me" -> SelfPermission(route, a)
      [] route.area = "admin" -> "installation:owner-administration"
      [] route.area = "auth" /\ route.serves = "state" -> "self:account-state"
      [] route.area = "auth" /\ route.serves = "session" -> "session:establish"
      [] route.area \in {"callback", "bearer"} /\ a.state = "approved" -> "session:establish"
      [] OTHER -> "free"

\* What is left to do with the permission decided; a denial is still to be recorded.
Decided(q, a) ==
    LET permission == Permission(q.route, a) IN
    IF permission = "none" THEN [q EXCEPT !.pc = "answered", !.answer = "refused"]
    ELSE IF permission = "free" \/ authorizeProject42Operation(permission, a)
         THEN [q EXCEPT !.pc = "handler"]
         ELSE [q EXCEPT !.pc = "denied"]

\* findAccount, and what follows it without an await; createOrRefreshAccount registers who
\* has no account (Identities has its detail).  requireSelfScope refuses a selector.
findAccount(r) ==
    LET q == ask[r]
        registers == q.route.area \in {"callback", "bearer"} /\ account.state = "none"
        found == IF registers THEN [state |-> "pending", roles |-> {"learner"}] ELSE account
        read == [q EXCEPT !.read = found, !.seen = @ \cup {found}]
    IN
    /\ q.pc = "account"
    /\ account' = IF q.route.area = "bearer" /\ q.cookie THEN account ELSE found
    /\ IF q.route.area = "bearer" /\ q.cookie THEN Answers(r, "refused")
       ELSE IF found.state = "none" THEN Answers(r, "refused")
       ELSE \/ ask' = [ask EXCEPT ![r] = Decided(read, found)]
            \/ q.route.area = "me" /\ ask' = [ask EXCEPT ![r] = [read EXCEPT !.pc = "denied"]]
    /\ UNCHANGED <<session, changes>>

\* recordOwnerAuthorizationDenied, recordRoleAuthorizationDenied and
\* recordSelfScopeAuthorizationDenied, then the answer.
recordDenial(r) ==
    /\ ask[r].pc = "denied"
    /\ ask' = [ask EXCEPT ![r].pc = "answered", ![r].answer = "denied", ![r].traces = @ + 1]
    /\ UNCHANGED <<account, session, changes>>

-----------------------------------------------------------------------------
(* What its handler asks for, and the handler.                             *)

requireRecentAuthentication(q) ==
    \/ q.recent
    \/ q.route.recent = "no"
    \/ q.route.recent = "others" /\ q.read.state = "approved"

\* The conditions up to the body of the request, which is awaited and may be unfit, and
\* the ones after it.
Checks(r) ==
    LET q == ask[r] IN
    /\ q.pc = "handler"
    /\ IF /\ q.route.approved => q.read.state = "approved"
          /\ requireRecentAuthentication(q)
       THEN \/ q.route.more \notin {"none", "sign-out"} /\ Answers(r, "refused")
            \/ /\ q.route.more = "grant" => q.read.state = "approved"
               /\ Continues(r, "act")
       ELSE Answers(r, "refused")
    /\ UNCHANGED <<account, session, changes>>

\* accountStateDisclosure.
Disclosed(q) ==
    IF q.route.serves # "state" THEN "nothing"
    ELSE IF q.read.state = "approved" THEN "account" ELSE "state"

\* The handler's call of the repository.  It may fail; a session is created or renewed only
\* for an account that is approved in the same statement; rows of an erased account cannot
\* be written.  Who signs in without approval gets a receipt, or nothing.
Act(r) ==
    LET q == ask[r]
        establishes == q.route.serves = "session" /\ q.read.state = "approved"
        possible == /\ establishes =>
                         /\ account.state = "approved"
                         /\ q.route.area = "auth" => q.cookie /\ session
                    /\ q.route.serves = "session" => establishes \/ q.route.area = "callback"
                    /\ q.route.writes => account.state # "none"
    IN
    /\ q.pc = "act"
    /\ \/ /\ Answers(r, "failed")
          /\ UNCHANGED session
       \/ /\ possible
          /\ ask' = [ask EXCEPT ![r].pc = "answered", ![r].answer = "ok",
                                ![r].shows = Disclosed(q), ![r].done = TRUE]
          /\ session' = IF establishes THEN TRUE
                        ELSE IF q.route.more = "sign-out" /\ q.cookie THEN FALSE ELSE session
    /\ UNCHANGED <<account, changes>>

-----------------------------------------------------------------------------
\* Everybody under way sees the account as it becomes.
Becomes(a) ==
    /\ changes < MaxChanges /\ changes' = changes + 1
    /\ account' = a
    /\ ask' = [r \in Visitors |->
                 IF r \in Underway THEN [ask[r] EXCEPT !.seen = @ \cup {a}] ELSE ask[r]]

\* changeAccountState ends the sessions of an account that is no longer approved.
Decide ==
    /\ account.state # "none"
    /\ \E s \in States \ {"none", account.state} :
         /\ Becomes([account EXCEPT !.state = s])
         /\ session' = (session /\ s = "approved")

\* A merge or its rollback gives and takes roles.
Assign ==
    /\ account.state # "none"
    /\ \E roles \in SUBSET {"learner", "owner"} : Becomes([account EXCEPT !.roles = roles])
    /\ UNCHANGED session

\* completeDeletion.
Erase ==
    /\ account.state # "none"
    /\ Becomes([state |-> "none", roles |-> {}])
    /\ session' = FALSE

GateNext ==
    \/ \E r \in Visitors :
         permittedOrigin(r) \/ UseReceipt(r) \/ enforceAuthAbuseLimit(r)
         \/ resolveBrowserSession(r) \/ Verify(r) \/ findAccount(r) \/ recordDenial(r)
         \/ Checks(r) \/ Act(r)
    \/ Decide \/ Assign \/ Erase

GateSpec == GateInit /\ [][GateNext]_gateVars

-----------------------------------------------------------------------------
\* The permission and state matrix of docs/authorization-boundaries.md.
Matrix(serves, a) ==
    /\ a.state # "none" /\ a.roles # {}
    /\ serves \in {"records", "administration"} => a.state = "approved"
    /\ serves = "administration" => "owner" \in a.roles

\* Whatever is decided about an account while a request is under way, the request does
\* something only if the account had the right to it at some moment in between; with the
\* cookie of a browser, only if it was approved then and the page's origin is allowed; and
\* with the rights of an account that is not approved, only after a recent authentication.
OnlyTheEntitled ==
    \A r \in Visitors : ask[r].done /\ ask[r].route.area \in {"me", "admin", "auth"} =>
        /\ ask[r].route.serves # "nothing" => \E a \in ask[r].seen : Matrix(ask[r].route.serves, a)
        /\ ask[r].cookie =>
             /\ \E a \in ask[r].seen : a.state = "approved"
             /\ ask[r].route.writes => ask[r].origin
        /\ ask[r].route.serves = "rights" /\ ~ask[r].recent =>
             \E a \in ask[r].seen : a.state = "approved"

\* A denied request did nothing and left one entry in the audit trail; nothing else leaves
\* one.
DenialsLeaveATrace ==
    \A r \in Visitors :
        /\ ask[r].answer = "denied" <=> ask[r].traces = 1
        /\ ask[r].done => ask[r].traces = 0 /\ ask[r].answer = "ok"

\* More than its state is shown only of an account that was approved meanwhile.
OnlyTheStateIsShown ==
    \A r \in Visitors : ask[r].shows = "account" => \E a \in ask[r].seen : a.state = "approved"

GateTypeOK ==
    /\ account \in Accounts /\ session \in BOOLEAN /\ changes \in 0..MaxChanges
    /\ \A r \in Visitors :
         /\ ask[r].pc \in {"idle", "receipt", "limit", "session", "token", "account", "denied",
                           "handler", "act", "answered"}
         /\ ask[r].answer \in {"none", "ok", "refused", "denied", "expired", "unavailable",
                               "restart", "failed"}
         /\ ask[r].read = None \/ ask[r].read \in Accounts
         /\ ask[r].seen \subseteq Accounts
=============================================================================
