------------------------------ MODULE Identities ------------------------------
(***************************************************************************)
(* Sign-in and identity linking: oidc_authorization_transactions,          *)
(* user_identities and identity_link_transactions, and the requests of     *)
(* src/worker.ts that work on them (/v1/auth/start, /v1/auth/callback,     *)
(* createOrRefreshAccount, createIdentityLinkTransaction ...               *)
(* unlinkIdentity).                                                        *)
(*                                                                         *)
(* A subject is a provider, issuer and subject.  Every query or batch of a *)
(* request is one step; between two steps other requests run, and a        *)
(* request may die.  What the account may do once it is found is the       *)
(* business of AccountApproval and BrowserSessions.                        *)
(***************************************************************************)
EXTENDS Integers, FiniteSets

CONSTANTS
  Subjects,      \* external identities
  Users,         \* ids of accounts
  Txns,          \* sign-in transactions
  Links,         \* identity-link transactions
  Requests,      \* requests under way
  PendingLimit,  \* pending links of one account (the code's 5)
  MaxWork,       \* requests begun
  Nobody         \* no account, no subject

VARIABLES
  txn,      \* oidc_authorization_transactions
  ident,    \* user_identities, by subject
  users,    \* ids of the users rows
  link,     \* identity_link_transactions
  req,      \* local state of the requests
  work,     \* requests begun so far
  signed,   \* history: who was signed in with a transaction
  linked    \* history: the subjects a link transaction attached

idVars == <<txn, ident, users, link, req, work, signed, linked>>

NoIdentity == [owner |-> Nobody, status |-> "none", primary |-> FALSE]
NoLink == [owner |-> Nobody, status |-> "none", late |-> FALSE]
NoReq == [op |-> "none", pc |-> "idle", txn |-> Nobody, subject |-> Nobody,
          user |-> Nobody, link |-> Nobody, row |-> NoIdentity, n |-> 0]

Init ==
  /\ txn = [t \in Txns |-> "none"]
  /\ ident = [s \in Subjects |-> NoIdentity]
  /\ users = {}
  /\ link = [l \in Links |-> NoLink]
  /\ req = [r \in Requests |-> NoReq]
  /\ work = 0
  /\ signed = {}
  /\ linked = [l \in Links |-> {}]

Active(s) == ident[s].status = "active"
ActiveOf(u) == {s \in Subjects : ident[s].owner = u /\ Active(s)}
PendingOf(u) == {l \in Links : link[l].owner = u /\ link[l].status = "pending"}

Go(r, pc) == req' = [req EXCEPT ![r].pc = pc]
End(r) == req' = [req EXCEPT ![r] = NoReq]
Take(r, fresh) ==
  /\ req[r].pc = "idle" /\ work < MaxWork
  /\ req' = [req EXCEPT ![r] = [fresh EXCEPT !.n = work + 1]]
  /\ work' = work + 1

Dies(r) ==
  /\ req[r].pc # "idle"
  /\ End(r)
  /\ UNCHANGED <<txn, ident, users, link, work, signed, linked>>

\* Ten minutes pass for the transactions of both kinds.
TimePasses ==
  /\ \/ \E t \in Txns : txn[t] = "open"
     \/ \E l \in Links : link[l].status = "pending" /\ ~link[l].late
  /\ txn' = [t \in Txns |-> IF txn[t] = "open" THEN "expired" ELSE txn[t]]
  /\ link' = [l \in Links |-> [link[l] EXCEPT !.late = link[l].status # "none"]]
  /\ UNCHANGED <<ident, users, req, work, signed, linked>>

-----------------------------------------------------------------------------
(* Sign-in.                                                                *)

\* createOidcAuthorizationTransaction: one batch, which also deletes what is
\* expired or consumed.
Start(t) ==
  /\ txn[t] = "none"
  /\ txn' = [u \in Txns |-> IF u = t THEN "open"
                            ELSE IF txn[u] \in {"expired", "consumed"} THEN "gone" ELSE txn[u]]
  /\ UNCHANGED <<ident, users, link, req, work, signed, linked>>

\* A browser comes back with the sealed transaction, perhaps for the second
\* time.
BeginCallback(r, t, s) ==
  /\ txn[t] # "none"
  /\ Take(r, [NoReq EXCEPT !.op = "callback", !.pc = "consume", !.txn = t, !.subject = s])
  /\ UNCHANGED <<txn, ident, users, link, signed, linked>>

\* Mutant: the update also matches a consumed transaction.
Consumable_Again(t) == txn[t] \in {"open", "consumed"}

\* consumeOidcAuthorizationTransaction: the guarded update has to change a row.
Consumable(t) == txn[t] = "open"

Consume(r) ==
  LET t == req[r].txn IN
  /\ req[r].pc = "consume"
  /\ \/ Consumable(t) /\ txn' = [txn EXCEPT ![t] = "consumed"] /\ Go(r, "exchange")
     \/ ~Consumable(t) /\ UNCHANGED txn /\ End(r)
  /\ UNCHANGED <<ident, users, link, work, signed, linked>>

\* The code is exchanged and the token verified, or the callback ends with an
\* error or a redirect to a new sign-in.
Exchange(r) ==
  /\ req[r].pc = "exchange"
  /\ Go(r, "find") \/ End(r)
  /\ UNCHANGED <<txn, ident, users, link, work, signed, linked>>

\* The callback goes on to a session or a registration receipt.
SignIn(r, u) ==
  /\ signed' = signed \cup {<<req[r].n, req[r].txn, req[r].subject, u>>}
  /\ End(r)

\* createOrRefreshAccount: findAccount; a known identity is refreshed.
Find(r) ==
  LET s == req[r].subject IN
  /\ req[r].pc = "find"
  /\ \/ Active(s) /\ SignIn(r, ident[s].owner)
     \/ ~Active(s) /\ Go(r, "register") /\ UNCHANGED signed
  /\ UNCHANGED <<txn, ident, users, link, work, linked>>

\* Mutant: the identity goes to the account that is registered last.
Register_Upsert(r, u) ==
  LET s == req[r].subject IN
  /\ req[r].pc = "register" /\ u \notin users
  /\ ident' = [ident EXCEPT ![s] = [owner |-> u, status |-> "active", primary |-> TRUE]]
  /\ users' = users \cup {u}
  /\ SignIn(r, u)
  /\ UNCHANGED <<txn, link, work, linked>>

\* The batch of a new account fails on an identity that exists; the account
\* that is active by then is taken, and an unlinked identity is an error.
Register(r, u) ==
  LET s == req[r].subject IN
  /\ req[r].pc = "register" /\ u \notin users
  /\ \/ /\ ident[s] = NoIdentity
        /\ ident' = [ident EXCEPT ![s] = [owner |-> u, status |-> "active", primary |-> TRUE]]
        /\ users' = users \cup {u}
        /\ SignIn(r, u)
     \/ /\ Active(s) /\ SignIn(r, ident[s].owner)
        /\ UNCHANGED <<ident, users>>
     \/ /\ ident[s].status = "unlinked" /\ End(r)
        /\ UNCHANGED <<ident, users, signed>>
  /\ UNCHANGED <<txn, link, work, linked>>

-----------------------------------------------------------------------------
(* Linking.                                                                *)

\* createIdentityLinkTransaction: the late ones expire and the pending ones
\* are counted, then the new one is inserted.
BeginLink(r, u) ==
  /\ u \in users
  /\ Take(r, [NoReq EXCEPT !.op = "link", !.pc = "count", !.user = u])
  /\ UNCHANGED <<txn, ident, users, link, signed, linked>>

CountPending(r) ==
  LET u == req[r].user
      swept == [l \in Links |-> IF l \in PendingOf(u) /\ link[l].late
                                THEN [link[l] EXCEPT !.status = "expired"] ELSE link[l]]
      left == {l \in PendingOf(u) : ~link[l].late}
  IN
  /\ req[r].pc = "count"
  /\ link' = swept
  /\ IF Cardinality(left) >= PendingLimit THEN End(r) ELSE Go(r, "insert")
  /\ UNCHANGED <<txn, ident, users, work, signed, linked>>

InsertLink(r, l) ==
  /\ req[r].pc = "insert" /\ link[l].status = "none"
  /\ link' = [link EXCEPT ![l] = [owner |-> req[r].user, status |-> "pending", late |-> FALSE]]
  /\ End(r)
  /\ UNCHANGED <<txn, ident, users, work, signed, linked>>

\* cancelIdentityLinkTransaction: a pending one is read, then updated if it
\* still is pending; the answer does not depend on that.
BeginCancel(r, l) ==
  /\ link[l].status = "pending"
  /\ Take(r, [NoReq EXCEPT !.op = "cancel", !.pc = "cancel", !.link = l])
  /\ UNCHANGED <<txn, ident, users, link, signed, linked>>

Cancelled(row) == IF row.status = "pending" THEN [row EXCEPT !.status = "cancelled"] ELSE row

Cancel(r) ==
  LET l == req[r].link IN
  /\ req[r].pc = "cancel"
  /\ link' = [link EXCEPT ![l] = Cancelled(link[l])]
  /\ End(r)
  /\ UNCHANGED <<txn, ident, users, work, signed, linked>>

\* beginIdentityLinkCompletion: the owner comes back from the provider.
BeginCompletion(r, l, s) ==
  /\ link[l].status # "none"
  /\ Take(r, [NoReq EXCEPT !.op = "complete", !.pc = "open", !.link = l,
                           !.user = link[l].owner, !.subject = s])
  /\ UNCHANGED <<txn, ident, users, link, signed, linked>>

Open(r) ==
  LET l == req[r].link IN
  /\ req[r].pc = "open"
  /\ \/ link[l].status # "pending" /\ End(r) /\ UNCHANGED link
     \/ /\ link[l].status = "pending" /\ link[l].late
        /\ link' = [link EXCEPT ![l].status = "expired"]
        /\ End(r)
     \/ link[l].status = "pending" /\ ~link[l].late /\ Go(r, "claim") /\ UNCHANGED link
  /\ UNCHANGED <<txn, ident, users, work, signed, linked>>

Claimable(l) == link[l].status = "pending"

Claim(r) ==
  LET l == req[r].link IN
  /\ req[r].pc = "claim"
  /\ \/ Claimable(l) /\ link' = [link EXCEPT ![l].status = "processing"] /\ Go(r, "verify")
     \/ ~Claimable(l) /\ UNCHANGED link /\ End(r)
  /\ UNCHANGED <<txn, ident, users, work, signed, linked>>

\* The provider answers; a failure goes to failIdentityLinkCompletion.
VerifyProvider(r) ==
  /\ req[r].pc = "verify"
  /\ Go(r, "look") \/ Go(r, "fail")
  /\ UNCHANGED <<txn, ident, users, link, work, signed, linked>>

\* completeIdentityLink: an identity of another account is refused.
Look(r) ==
  LET s == req[r].subject IN
  /\ req[r].pc = "look"
  /\ IF ident[s].owner \in {Nobody, req[r].user}
     THEN req' = [req EXCEPT ![r].pc = "attach", ![r].row = ident[s]]
     ELSE Go(r, "fail")
  /\ UNCHANGED <<txn, ident, users, link, work, signed, linked>>

\* The row after the statement: an update of the known row, or an insert, which
\* fails on a row that has appeared.
Attached(r) ==
  IF req[r].row = NoIdentity
  THEN IF ident[req[r].subject] = NoIdentity
       THEN [owner |-> req[r].user, status |-> "active", primary |-> FALSE]
       ELSE NoIdentity
  ELSE [ident[req[r].subject] EXCEPT !.status = "active"]

Attach(r) ==
  LET s == req[r].subject
      l == req[r].link
  IN
  /\ req[r].pc = "attach"
  /\ \/ /\ Attached(r) # NoIdentity
        /\ ident' = [ident EXCEPT ![s] = Attached(r)]
        /\ link' = [link EXCEPT ![l].status = IF @ = "processing" THEN "completed" ELSE @]
        /\ linked' = [linked EXCEPT ![l] = @ \cup {s}]
        /\ End(r)
     \/ /\ Attached(r) = NoIdentity
        /\ Go(r, "fail")
        /\ UNCHANGED <<ident, link, linked>>
  /\ UNCHANGED <<txn, users, work, signed>>

Fail(r) ==
  LET l == req[r].link IN
  /\ req[r].pc = "fail"
  /\ link' = [link EXCEPT ![l].status = IF @ = "processing" THEN "failed" ELSE @]
  /\ End(r)
  /\ UNCHANGED <<txn, ident, users, work, signed, linked>>

-----------------------------------------------------------------------------
\* unlinkIdentity: an active identity that is not the primary one ...
Unlinkable(s) == Active(s) /\ ~ident[s].primary

BeginUnlink(r, s) ==
  /\ Unlinkable(s)
  /\ Take(r, [NoReq EXCEPT !.op = "unlink", !.pc = "others", !.subject = s,
                           !.user = ident[s].owner])
  /\ UNCHANGED <<txn, ident, users, link, signed, linked>>

\* ... of several; it is updated if that still holds.
CountOthers(r) ==
  /\ req[r].pc = "others"
  /\ IF Cardinality(ActiveOf(req[r].user)) <= 1 THEN End(r) ELSE Go(r, "unlink")
  /\ UNCHANGED <<txn, ident, users, link, work, signed, linked>>

Unlink(r) ==
  LET s == req[r].subject IN
  /\ req[r].pc = "unlink"
  /\ ident' = IF Unlinkable(s) THEN [ident EXCEPT ![s].status = "unlinked"] ELSE ident
  /\ End(r)
  /\ UNCHANGED <<txn, users, link, work, signed, linked>>

SignInStep(r) ==
  \/ \E t \in Txns, s \in Subjects : BeginCallback(r, t, s)
  \/ Consume(r) \/ Exchange(r) \/ Find(r)
  \/ \E u \in Users : Register(r, u)

LinkStep(r) ==
  \/ \E u \in Users : BeginLink(r, u)
  \/ CountPending(r)
  \/ \E l \in Links : InsertLink(r, l) \/ BeginCancel(r, l)
  \/ Cancel(r)
  \/ \E l \in Links, s \in Subjects : BeginCompletion(r, l, s)
  \/ Open(r) \/ Claim(r) \/ VerifyProvider(r) \/ Look(r) \/ Attach(r) \/ Fail(r)
  \/ \E s \in Subjects : BeginUnlink(r, s)
  \/ CountOthers(r) \/ Unlink(r)

Next ==
  \/ \E r \in Requests : SignInStep(r) \/ LinkStep(r) \/ Dies(r)
  \/ \E t \in Txns : Start(t)
  \/ TimePasses

Spec == Init /\ [][Next]_idVars

-----------------------------------------------------------------------------
(* What must hold.                                                         *)

\* Every variable has its type.
IdentitiesTypeOK ==
  /\ txn \in [Txns -> {"none", "open", "expired", "consumed", "gone"}]
  /\ users \subseteq Users
  /\ \A s \in Subjects : ident[s].owner \in users \cup {Nobody}
  /\ \A l \in Links : link[l].owner \in users \cup {Nobody}

\* Whichever registrations, links and unlinks overlap, an external identity
\* that once belongs to an account is never given to another, not even after
\* it was unlinked (worker.ts:4825, the key of user_identities).
IdentityKeepsItsAccount ==
  \A s \in Subjects : ident[s] # NoIdentity => ident'[s].owner = ident[s].owner

\* Every account has exactly one active primary identity to sign in with,
\* although the counts of two unlinks may both be stale (worker.ts:4982).
EveryAccountCanSignIn ==
  \A u \in users : Cardinality({s \in ActiveOf(u) : ident[s].primary}) = 1

\* One authorization transaction signs in once, however often the callback is
\* delivered (worker.ts:2213), and into the account that owns the identity.
TransactionServesOnce ==
  /\ \A a, b \in signed : a[2] = b[2] => a = b
  /\ \A a \in signed : ident[a[3]].owner = a[4]

\* A link transaction attaches at most one identity, and one that did is
\* recorded as completed, whatever cancellations, expiries, failures and
\* repeated completions it met (worker.ts:4752, 4871).
LinksAreHonest ==
  \A l \in Links : /\ Cardinality(linked[l]) <= 1
                   /\ linked[l] # {} => link[l].status = "completed"
===============================================================================
