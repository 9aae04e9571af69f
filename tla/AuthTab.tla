------------------------------- MODULE AuthTab -------------------------------
(***************************************************************************)
(* One browser tab's view of who is signed in                              *)
(* (web/app/components/AuthProvider.tsx and what its status decides in the *)
(* header and on the account page), against the cookies of the browser and *)
(* the sessions, receipts and terms acceptances of the server              *)
(* (src/worker.ts).  Every call is sent with the cookies of that moment,   *)
(* served later, and taken by the page later still.  Leaving a page drops  *)
(* its answers with their cookies, while the server may yet serve a call.  *)
(***************************************************************************)
EXTENDS Integers, FiniteSets

CONSTANTS
    People,          \* who may sign in on this browser
    Nobody,          \* SQL's NULL and JavaScript's null
    InOrder,         \* do answers reach the page in the order they were given?
    Serial,          \* does a renewal overlap no other call of the page?
    MaxOpen,         \* how many calls are under way at a time
    MaxSessions,     \* bound on the sessions that are minted
    MaxTroubles      \* how often a call fails or the owner decides, together

AuthConstants == Nobody \notin People /\ MaxSessions \in Nat

VARIABLES
    acct,            \* account_state of each person's account
    open,            \* whose registration receipt is live
    sessions,        \* browser_sessions: [who, live], in the order they were minted
    minted,
    terms,           \* who has a current row of terms acceptance
    audits,          \* how many terms.accept events each account has
    cookies,         \* the session and the receipt cookie
    tab,             \* React state and storage (`asked' and `stored')
    calls,           \* calls under way
    troubles

authVars == <<acct, open, sessions, minted, terms, audits, cookies, tab, calls,
              troubles>>

server == <<acct, open, sessions, minted, terms, audits>>

AccountStates == {"none", "pending", "approved", "rejected", "suspended"}

NoCookies == [session |-> 0, receipt |-> Nobody]

BlankTab ==
    [status |-> "loading", account |-> Nobody, session |-> FALSE,
     phase |-> "none", asked |-> FALSE, stored |-> FALSE, accepted |-> FALSE, here |-> TRUE]

\* fetch: the call takes the cookies of the moment along.
Fetch(op, outcome, expected, with, others) ==
    [id |-> CHOOSE n \in 1..(MaxOpen + 2) : \A c \in others : c.id # n,
     op |-> op, outcome |-> outcome, expected |-> expected, mine |-> TRUE,
     sends |-> with, step |-> "sent", answer |-> "none", who |-> Nobody,
     sets |-> with, at |-> 0]

AuthInit ==
    /\ acct \in [People -> AccountStates]
    /\ open = {}
    /\ sessions = [n \in 1..MaxSessions |-> [who |-> Nobody, live |-> FALSE]]
    /\ minted = 0
    /\ terms = {} /\ audits = [p \in People |-> 0]
    /\ cookies = NoCookies
    /\ tab = BlankTab
    /\ calls = {Fetch("session", "null", FALSE, NoCookies, {})}
    /\ troubles = 0

-----------------------------------------------------------------------------
(* The page.                                                               *)

\* What the header claims.
headerAccountPresentation(t) ==
    CASE t.status = "signed-in" /\ t.account # Nobody -> "signed-in"
      [] t.status = "signed-out" -> "signed-out"
      [] OTHER -> "unknown"

\* The tab becomes t, and the effects that depend on its status and phase run: an
\* acceptance in sessionStorage is posted when a session or a receipt is there.
Becomes(t, rest) ==
    /\ tab' = t
    /\ LET changed == t.status # tab.status \/ t.phase # tab.phase
           path == IF t.status = "signed-in" THEN "terms" ELSE "registration terms"
       IN IF changed /\ t.stored /\ (t.status = "signed-in" \/ t.phase = "current")
          THEN calls' = rest \cup {Fetch(path, "null", FALSE, cookies', rest)}
          ELSE calls' = rest

Sends(op, outcome) == calls' = calls \cup {Fetch(op, outcome, FALSE, cookies, calls)}

OnPage ==
    /\ tab.here /\ Cardinality(calls) < MaxOpen
    /\ Serial => \A c \in calls : c.op # "renew"

\* The calls of a page that is left: nobody waits for their answers.
Unheard == {[c EXCEPT !.mine = FALSE] : c \in {d \in calls : d.step # "answered"}}

\* The page is left for the identity provider.
signIn(t) ==
    /\ tab' = [t EXCEPT !.status = "signing-in", !.here = FALSE]
    /\ calls' = Unheard

Leave ==
    /\ OnPage /\ tab.status = "signed-out"
    /\ signIn(tab)
    /\ UNCHANGED <<server, cookies, troubles>>

\* "Request an account": the terms are accepted first.
handleRequestAccount ==
    /\ OnPage /\ tab.status = "signed-out" /\ tab.phase = "none"
    /\ signIn([tab EXCEPT !.asked = TRUE, !.stored = TRUE, !.accepted = TRUE])
    /\ UNCHANGED <<server, cookies, troubles>>

\* A new page of the tab, and the call its first effect makes.
Opens(outcome) ==
    /\ tab' = [BlankTab EXCEPT !.asked = tab.asked, !.stored = tab.stored,
                               !.accepted = tab.accepted]
    /\ calls' = Unheard \cup {Fetch("session", outcome, FALSE, cookies', Unheard)}

Reload ==
    /\ OnPage
    /\ cookies' = cookies
    /\ Opens("null")
    /\ UNCHANGED <<server, troubles>>

refreshAccount ==
    /\ OnPage /\ tab.status \in {"error", "signed-in"}
    /\ Sends("session", "null")
    /\ UNCHANGED <<server, cookies, tab, troubles>>

\* A registration status is asked for; the receipt on show stays.
loadRegistration(outcome, expected, rest) ==
    /\ tab' = [tab EXCEPT !.phase = "checking", !.account = Nobody, !.session = FALSE]
    /\ calls' = rest \cup {Fetch("registration", outcome, expected, cookies', rest)}

refreshRegistration ==
    /\ OnPage /\ tab.status = "signed-out"
    /\ tab.phase \in {"current", "temporarily-unavailable"}
    /\ cookies' = cookies
    /\ loadRegistration("null", TRUE, calls)
    /\ UNCHANGED <<server, troubles>>

\* The timer of a session on show.
renewSession ==
    /\ OnPage /\ tab.status = "signed-in" /\ tab.session
    /\ IF Serial THEN calls = {} ELSE \A c \in calls : ~(c.op = "renew" /\ c.mine)
    /\ Sends("renew", "null")
    /\ UNCHANGED <<server, cookies, tab, troubles>>

\* Offered to who is signed in, on an error, and beside a receipt.
signOut ==
    /\ OnPage
    /\ tab.status \in {"signed-in", "error"} \/ tab.phase = "current"
    /\ Sends("signout", "null")
    /\ UNCHANGED <<server, cookies, tab, troubles>>

-----------------------------------------------------------------------------
(* The server.                                                             *)

Resolves(c) == c.sends.session # 0 /\ sessions[c.sends.session].live

Who(c) == sessions[c.sends.session].who

Answered == {c \in calls : c.step = "answered"}

\* An answer queues behind those that are on their way.
Answers(c, answer, who, sets) ==
    calls' = (calls \ {c}) \cup
        IF c.mine THEN {[c EXCEPT !.step = "answered", !.answer = answer, !.who = who,
                                  !.sets = sets, !.at = Cardinality(Answered) + 1]}
        ELSE {}

Mint(p, replaced) ==
    /\ minted < MaxSessions
    /\ minted' = minted + 1
    /\ sessions' = [n \in 1..MaxSessions |->
         IF n = minted + 1 THEN [who |-> p, live |-> TRUE]
         ELSE IF n = replaced THEN [sessions[n] EXCEPT !.live = FALSE] ELSE sessions[n]]

\* The redirect comes back: the account is found or registered, and the cookies say
\* which it is.  The page that opens knows the outcome.
Callback(p) ==
    /\ ~tab.here
    /\ \/ /\ acct[p] = "approved"
          /\ Mint(p, IF cookies.session # 0 /\ sessions[cookies.session].who = p
                     THEN cookies.session ELSE 0)
          /\ cookies' = [session |-> minted + 1, receipt |-> Nobody]
          /\ Opens("success")
          /\ UNCHANGED <<acct, open>>
       \/ /\ acct[p] \in {"none", "pending", "rejected"}
          /\ acct' = [acct EXCEPT ![p] = IF @ = "none" THEN "pending" ELSE @]
          /\ open' = open \cup {p}
          /\ cookies' = [session |-> 0, receipt |-> p]
          /\ Opens(acct'[p])
          /\ UNCHANGED <<sessions, minted>>
       \/ /\ acct[p] = "suspended"
          /\ cookies' = NoCookies
          /\ Opens("unavailable")
          /\ UNCHANGED <<acct, open, sessions, minted>>
    /\ UNCHANGED <<terms, audits, troubles>>

\* The provider reports an error, and no cookie changes.
CallbackError ==
    /\ ~tab.here
    /\ cookies' = cookies
    /\ Opens("error")
    /\ UNCHANGED <<server, troubles>>

ServeSession(c) ==
    /\ c.op = "session" /\ c.step = "sent"
    /\ \/ Resolves(c) /\ Answers(c, "ok", Who(c), c.sends)
       \/ ~Resolves(c) /\ Answers(c, "401", Nobody, c.sends)
    /\ UNCHANGED <<server, cookies, tab, troubles>>

getRegistrationStatus(c) ==
    /\ c.op = "registration" /\ c.step = "sent"
    /\ LET p == c.sends.receipt
       IN \/ p \in open /\ Answers(c, "ok", p, c.sends)
          \/ p \notin open /\ Answers(c, "401", Nobody, c.sends)
    /\ UNCHANGED <<server, cookies, tab, troubles>>

\* A session that another call replaces between the resolution and the batch is a 409.
rotateBrowserSession(c) ==
    /\ c.op = "renew" /\ c.step = "sent"
    /\ \/ /\ Resolves(c)
          /\ Mint(Who(c), c.sends.session)
          /\ Answers(c, "ok", Who(c), [c.sends EXCEPT !.session = minted + 1])
       \/ /\ ~Resolves(c) /\ Answers(c, "401", Nobody, c.sends)
          /\ UNCHANGED <<sessions, minted>>
       \/ /\ ~Resolves(c) /\ c.sends.session # 0 /\ Answers(c, "409", Nobody, c.sends)
          /\ UNCHANGED <<sessions, minted>>
    /\ UNCHANGED <<acct, open, terms, audits, cookies, tab, troubles>>

\* Without a session cookie the call is taken for one with a bearer token and refused
\* before any cookie is cleared.
ClearedBySignOut(sends) == IF sends.session = 0 THEN sends ELSE NoCookies

revokeBrowserSession(c) ==
    /\ c.op = "signout" /\ c.step = "sent"
    /\ sessions' = [n \in 1..MaxSessions |->
         IF n = c.sends.session THEN [sessions[n] EXCEPT !.live = FALSE] ELSE sessions[n]]
    /\ Answers(c, IF c.sends.session = 0 THEN "401" ELSE "ok", Nobody, ClearedBySignOut(c.sends))
    /\ UNCHANGED <<acct, open, minted, terms, audits, cookies, tab, troubles>>

\* Whose acceptance a call records: the session's, or the receipt's.
Accepting(c) ==
    IF c.op = "terms" THEN (IF Resolves(c) THEN Who(c) ELSE Nobody)
    ELSE IF c.sends.receipt \in open THEN c.sends.receipt ELSE Nobody

\* INSERT OR IGNORE: only the call that inserted the row goes on to record the event.
Audited(p) == p \notin terms

recordTermsAcceptance(c) ==
    /\ c.op \in {"terms", "registration terms"} /\ c.step = "sent"
    /\ LET p == Accepting(c)
       IN \/ /\ p # Nobody /\ Audited(p)
             /\ terms' = terms \cup {p}
             /\ calls' = (calls \ {c}) \cup {[c EXCEPT !.step = "inserted", !.who = p]}
          \/ p # Nobody /\ ~Audited(p) /\ terms' = terms /\ Answers(c, "ok", p, c.sends)
          \/ p = Nobody /\ terms' = terms /\ Answers(c, "401", Nobody, c.sends)
    /\ UNCHANGED <<acct, open, sessions, minted, audits, cookies, tab, troubles>>

auditTermsAcceptance(c) ==
    /\ c.step = "inserted"
    /\ audits' = [audits EXCEPT ![c.who] = @ + 1]
    /\ Answers(c, "ok", c.who, c.sends)
    /\ UNCHANGED <<acct, open, sessions, minted, terms, cookies, tab, troubles>>

\* The owner decides; the receipt ends with the decision, and so do the sessions of an
\* account that is not approved.
Decide ==
    /\ troubles < MaxTroubles
    /\ \E p \in People, s \in {"approved", "rejected", "suspended"} :
         /\ acct[p] # "none" /\ s # acct[p]
         /\ acct' = [acct EXCEPT ![p] = s]
         /\ open' = open \ {p}
         /\ sessions' = [n \in 1..MaxSessions |->
              IF sessions[n].who = p THEN [sessions[n] EXCEPT !.live = FALSE] ELSE sessions[n]]
    /\ troubles' = troubles + 1
    /\ UNCHANGED <<minted, terms, audits, cookies, tab, calls>>

\* The call or its answer is lost, or the server answers an error.
Fail(c) ==
    /\ troubles < MaxTroubles
    /\ \/ c.step # "answered" /\ Answers(c, "failed", Nobody, c.sends)
       \/ /\ c.step = "answered" /\ c.answer # "failed"
          /\ calls' = (calls \ {c}) \cup {[c EXCEPT !.answer = "failed", !.sets = c.sends, !.who = Nobody]}
    /\ troubles' = troubles + 1
    /\ UNCHANGED <<server, cookies, tab>>

-----------------------------------------------------------------------------
(* The page takes an answer, and the browser its cookies.                  *)

\* The answer whose turn it is.
Arrives(c) ==
    /\ c.step = "answered"
    /\ InOrder => c.at = 1

SetCookies(c) ==
    cookies' = IF c.sets = c.sends \/ c.answer = "failed" THEN cookies
               ELSE IF c.op = "renew" THEN [cookies EXCEPT !.session = c.sets.session]
               ELSE c.sets

Takes(c) == Arrives(c) /\ SetCookies(c)

\* The calls without c; the answers behind it move up.
Without(c) == {[d EXCEPT !.at = IF @ > c.at THEN @ - 1 ELSE @] : d \in calls \ {c}}

SignedIn(c) == [tab EXCEPT !.status = "signed-in", !.account = c.who, !.session = TRUE,
                           !.phase = "none", !.asked = FALSE]

\* Mutant: a read that failed is taken for the answer that there is no session.
Failed_SignsOut(t) == [t EXCEPT !.status = "signed-out", !.account = Nobody,
                                !.session = FALSE, !.phase = "none"]

Failed(t) == [t EXCEPT !.status = "error", !.account = Nobody, !.session = FALSE,
                       !.phase = "none"]

loadAccount(c) ==
    /\ c.op = "session" /\ Takes(c)
    /\ \/ /\ c.answer = "401"
          /\ loadRegistration(c.outcome, c.outcome \in {"pending", "rejected", "success"},
                              Without(c))
       \/ c.answer = "ok" /\ Becomes(SignedIn(c), Without(c))
       \/ c.answer = "failed" /\ Becomes(Failed(tab), Without(c))
    /\ UNCHANGED <<server, troubles>>

\* Which card is shown for a receipt that is not valid.
registrationPhaseForInvalidReceipt(outcome, requestedHere) ==
    CASE outcome = "error" -> "provider-error"
      [] outcome = "unavailable" -> "account-unavailable"
      [] outcome = "pending" -> "none"
      [] outcome \in {"rejected", "success"} -> "expired"
      [] OTHER -> IF requestedHere THEN "expired" ELSE "none"

takeRegistration(c) ==
    /\ c.op = "registration" /\ Takes(c)
    /\ LET phase == CASE c.answer = "ok" -> "current"
                      [] c.answer = "401" -> registrationPhaseForInvalidReceipt(c.outcome, c.expected \/ tab.asked)
                      [] OTHER -> "temporarily-unavailable"
       IN Becomes([tab EXCEPT !.status = "signed-out", !.phase = phase,
                               !.asked = @ \/ c.answer = "ok"], Without(c))
    /\ UNCHANGED <<server, troubles>>

takeRenewal(c) ==
    /\ c.op = "renew" /\ Takes(c)
    /\ \/ c.answer = "ok" /\ Becomes(tab, Without(c))
       \/ /\ c.answer = "401"
          /\ Becomes([tab EXCEPT !.status = "signed-out", !.account = Nobody, !.session = FALSE],
                     Without(c))
       \/ /\ c.answer = "409" /\ tab' = tab
          /\ calls' = Without(c) \cup {Fetch("session", "null", FALSE, cookies', Without(c))}
       \/ c.answer = "failed" /\ Becomes([tab EXCEPT !.status = "error"], Without(c))
    /\ UNCHANGED <<server, troubles>>

\* A 401 counts as having signed out.
takeSignOut(c) ==
    /\ c.op = "signout" /\ Takes(c)
    /\ \/ /\ c.answer \in {"ok", "401"}
          /\ Becomes([tab EXCEPT !.status = "signed-out", !.account = Nobody, !.session = FALSE,
                                 !.phase = "none"], Without(c))
       \/ c.answer = "failed" /\ Becomes([tab EXCEPT !.status = "error"], Without(c))
    /\ UNCHANGED <<server, troubles>>

\* Only an answer that it was recorded empties the storage.
StillStored(c) == c.answer # "ok" /\ tab.stored

recordStoredTermsAcceptance(c) ==
    /\ c.op \in {"terms", "registration terms"} /\ Takes(c)
    /\ tab' = [tab EXCEPT !.stored = StillStored(c)]
    /\ calls' = Without(c)
    /\ UNCHANGED <<server, troubles>>

AuthNext ==
    \/ Leave \/ handleRequestAccount \/ Reload \/ refreshAccount \/ refreshRegistration
    \/ renewSession \/ signOut
    \/ \E p \in People : Callback(p)
    \/ CallbackError
    \/ \E c \in calls :
         \/ ServeSession(c) \/ getRegistrationStatus(c) \/ rotateBrowserSession(c)
         \/ revokeBrowserSession(c) \/ recordTermsAcceptance(c) \/ auditTermsAcceptance(c)
         \/ Fail(c)
         \/ loadAccount(c) \/ takeRegistration(c) \/ takeRenewal(c) \/ takeSignOut(c)
         \/ recordStoredTermsAcceptance(c)
    \/ Decide

AuthSpec == AuthInit /\ [][AuthNext]_authVars

-----------------------------------------------------------------------------
Quiet == tab.here /\ calls = {}

\* What the header claims when nothing is under way is so: it names the person whose
\* session the browser holds, and says "signed out" only when the browser holds no
\* session that would still be honoured (loadAccount, renewSession and signOut against
\* lost answers, renewals, decisions of the owner and the sign-in of somebody else).
HeaderTellsTheTruth ==
    Quiet =>
        /\ headerAccountPresentation(tab) = "signed-in" =>
               cookies.session # 0 /\ sessions[cookies.session].who = tab.account
        /\ headerAccountPresentation(tab) = "signed-out" =>
               cookies.session = 0 \/ ~sessions[cookies.session].live

\* An acceptance of the terms is in the tab's storage until an account has it on record,
\* and no account records it twice, whatever is lost or repeated
\* (recordStoredTermsAcceptance against recordTermsAcceptance).
AcceptanceIsKept ==
    /\ tab.accepted => tab.stored \/ terms # {}
    /\ \A p \in People : audits[p] <= (IF p \in terms THEN 1 ELSE 0)

\* A browser that has signed out holds nothing that names an account: neither a session
\* nor the receipt of a request (signOut and the route behind it).
SignOutLeavesNothing ==
    (Quiet /\ tab.status = "signed-out" /\ tab.phase = "none") => cookies.receipt = Nobody

AuthTypeOK ==
    /\ acct \in [People -> AccountStates]
    /\ cookies \in [session : 0..MaxSessions, receipt : People \cup {Nobody}]
    /\ open \subseteq {p \in People : acct[p] # "none"}
    /\ terms \subseteq People
    /\ tab.session => tab.account # Nobody
=============================================================================
