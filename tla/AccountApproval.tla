--------------------------- MODULE AccountApproval ---------------------------
(***************************************************************************)
(* Requesting an account and deciding on it (src/src/worker.ts,            *)
(* createOrRefreshAccount, createRegistrationRequest, changeAccountState,  *)
(* with the guards of src/migrations/0014_registration_boundary.sql).      *)
(*                                                                         *)
(* Sign-in callbacks of one learner and decisions of owners on that        *)
(* learner's account overlap.  A callback finds or creates the account,    *)
(* reads its state again, and leaves a registration request (whose receipt *)
(* can read the account's state) if it awaits or was denied review.  A     *)
(* decision reads the state and its revision, and applies the transition   *)
(* in one batch under a compare-and-set.  A batch is atomic: a statement   *)
(* that trips a CHECK or a trigger undoes it, one that changes no row does *)
(* not.  Every request stamps what it writes with the time it began.       *)
(*                                                                         *)
(* Every statement names one account, so there is one.  Sessions are in    *)
(* BrowserSessions, the delivery of notifications in NotificationOutbox.   *)
(* The 30 days of a receipt only narrow when it is answered and are left   *)
(* out: a new request revokes the expired and the open ones alike.         *)
(***************************************************************************)
EXTENDS Naturals, Sequences, FiniteSets

CONSTANTS
    Deciders,        \* owner decisions; a decision is its transition id
    SignIns,         \* sign-in callbacks; one is its registration request id
    None,            \* SQL NULL
    MaxClock         \* bound on the clock

\* What is assumed of the constants.
ApprovalConstants ==
    /\ MaxClock \in Nat
    /\ None \notin Nat /\ None \notin SignIns /\ None \notin Deciders
    /\ Deciders \cap SignIns = {}

VARIABLES
    clock,       \* wall-clock time
    user,        \* the users row
    regs,        \* registration_requests
    decisions,   \* approval_decisions, oldest first
    notices,     \* decisions whose learner notification is committed
    alerts,      \* registration requests whose receipt and fan-out are committed
    req          \* the requests' local state

vars == <<clock, user, regs, decisions, notices, alerts, req>>

AccountStates == {"pending", "approved", "rejected", "suspended", "revoked"}

\* canTransitionAccount
Allowed(from) ==
    CASE from = "pending"   -> {"approved", "rejected", "revoked"}
      [] from = "approved"  -> {"suspended", "revoked"}
      [] from = "rejected"  -> {"approved", "revoked"}
      [] from = "suspended" -> {"approved", "revoked"}
      [] OTHER              -> {}

NoUser == [state |-> "none", revision |-> 1, transition |-> None, active |-> None]

\* `epoch' is the number of decisions taken when the request was recorded.
NoReg == [requested |-> None, revoked |-> None, by |-> None, epoch |-> 0]

NewReg(now) == [NoReg EXCEPT !.requested = now, !.epoch = Len(decisions)]

\* `seen' is the number of decisions taken when the request read the account.
Fresh == [pc |-> "new", now |-> 0, to |-> "none", from |-> "none", revision |-> 0, seen |-> 0]

Init ==
    /\ clock = 0
    /\ user = NoUser
    /\ regs = [s \in SignIns |-> NoReg]
    /\ decisions = <<>>
    /\ notices = {}
    /\ alerts = {}
    /\ req = [r \in Deciders \cup SignIns |-> Fresh]

Tick ==
    /\ clock < MaxClock
    /\ clock' = clock + 1
    /\ UNCHANGED <<user, regs, decisions, notices, alerts, req>>

\* A request arrives and takes its timestamp.  An owner decides on an account
\* that the account list has shown.
Arrive(r) ==
    /\ req[r].pc = "new"
    /\ r \in Deciders => user.state # "none"
    /\ req' = [req EXCEPT ![r] = [Fresh EXCEPT !.pc = "read", !.now = clock]]
    /\ UNCHANGED <<clock, user, regs, decisions, notices, alerts>>

Open(s) == regs[s].requested # None /\ regs[s].revoked = None

\* CHECK (revoked_at IS NULL OR revoked_at >= requested_at), for an UPDATE that
\* revokes every open request at time t.
RevocationPassesCheck(t) == \A s \in SignIns : Open(s) => regs[s].requested <= t

-----------------------------------------------------------------------------
(* Decisions of owners *)

\* The SELECT of changeAccountState and the transition table.
ReadForDecision(d, to) ==
    /\ req[d].pc = "read"
    /\ req' = [req EXCEPT ![d] =
         IF to \in Allowed(user.state)
         THEN [req[d] EXCEPT !.pc = "decide", !.to = to, !.from = user.state,
                             !.revision = user.revision, !.seen = Len(decisions)]
         ELSE [req[d] EXCEPT !.pc = "refused"]]
    /\ UNCHANGED <<clock, user, regs, decisions, notices, alerts>>

\* Mutant: only the state is compared.
DecisionApplies_AnyRevision(d) == user.state = req[d].from

\* The WHERE clause of the UPDATE of the users row.
DecisionApplies(d) == user.state = req[d].from /\ user.revision = req[d].revision

\* The users row after that UPDATE.
Decided(d) ==
    [state |-> req[d].to, revision |-> user.revision + 1, transition |-> d, active |-> None]

\* require_atomic_owner_account_transition: the decision row is only accepted
\* if the account is in the state, and by the transition, it records.
DecisionMarked(d, u) == u.state = req[d].to /\ u.transition = d

\* The registration requests after every open one is revoked at time t.
RevokedAt(t) == [s \in SignIns |-> IF Open(s) THEN [regs[s] EXCEPT !.revoked = t] ELSE regs[s]]

\* The notification of a decision is inserted in its batch.
Noticed(d, committed) == IF committed THEN notices \cup {d} ELSE notices

\* The batch of changeAccountState.  A decision that lost the compare-and-set
\* is refused by the trigger; a stale timestamp fails on the CHECK.
CommitDecision(d) ==
    LET u == IF DecisionApplies(d) THEN Decided(d) ELSE user
        committed == DecisionMarked(d, u) /\ RevocationPassesCheck(req[d].now)
    IN  /\ req[d].pc = "decide"
        /\ notices' = Noticed(d, committed)
        /\ \/ /\ committed
              /\ user' = u
              /\ decisions' = Append(decisions, [from |-> req[d].from, to |-> req[d].to,
                                                 seen |-> req[d].seen])
              /\ regs' = RevokedAt(req[d].now)
              /\ req' = [req EXCEPT ![d].pc = IF DecisionApplies(d) THEN "done" ELSE "conflict"]
           \/ /\ ~ committed
              /\ req' = [req EXCEPT ![d].pc = IF DecisionMarked(d, u) THEN "error" ELSE "conflict"]
              /\ UNCHANGED <<user, regs, decisions>>
        /\ UNCHANGED <<clock, alerts>>

-----------------------------------------------------------------------------
(* Sign-in callbacks *)

\* createOrRefreshAccount: look for the account,
FindAccount(s) ==
    /\ req[s].pc = "read"
    /\ req' = [req EXCEPT ![s].pc = IF user.state = "none" THEN "create" ELSE "reread"]
    /\ UNCHANGED <<clock, user, regs, decisions, notices, alerts>>

\* The users row after the INSERTs of a registration: the unique identity of an
\* account that was created meanwhile makes the batch fail.
Created(state) == IF user.state = "none" THEN [NoUser EXCEPT !.state = state] ELSE user

\* create it, approved for the bootstrap owner or by a domain rule,
CreateAccount(s, state) ==
    /\ req[s].pc = "create"
    /\ state \in {"pending", "approved"}
    /\ user' = Created(state)
    /\ decisions' = IF user.state = "none"
                    THEN <<[from |-> "none", to |-> state, seen |-> 0]>> ELSE decisions
    /\ req' = [req EXCEPT ![s].pc = "reread"]
    /\ UNCHANGED <<clock, regs, notices, alerts>>

\* and read it again: the state decides which capability the callback issues.
RereadAccount(s) ==
    /\ req[s].pc = "reread"
    /\ req' = [req EXCEPT ![s].from = user.state,
                          ![s].pc = IF user.state \in {"pending", "rejected"}
                                    THEN "register" ELSE "done"]
    /\ UNCHANGED <<clock, user, regs, decisions, notices, alerts>>

\* The condition of the UPDATE that moves active_registration_request_id.
AwaitsReview == user.state \in {"pending", "rejected"}

\* createRegistrationRequest.  If the account was decided meanwhile the marker
\* stays and require_active_registration_request_marker undoes the batch.
\* The last UPDATE links every request revoked at this very time.
CommitRegistration(s) ==
    LET now == req[s].now
        revoked == RevokedAt(now)
    IN  /\ req[s].pc = "register"
        /\ \/ /\ AwaitsReview /\ RevocationPassesCheck(now)
              /\ user' = [user EXCEPT !.active = s]
              /\ regs' = [q \in SignIns |->
                    IF q = s THEN NewReg(now)
                    ELSE IF revoked[q].revoked = now /\ revoked[q].by = None
                         THEN [revoked[q] EXCEPT !.by = s] ELSE revoked[q]]
              /\ alerts' = alerts \cup {s}
              /\ req' = [req EXCEPT ![s].pc = "done"]
           \/ /\ ~ (AwaitsReview /\ RevocationPassesCheck(now))
              /\ req' = [req EXCEPT ![s].pc = "error"]
              /\ UNCHANGED <<user, regs, alerts>>
        /\ UNCHANGED <<clock, decisions, notices>>

DecisionStep(d) == CommitDecision(d) \/ \E to \in AccountStates : ReadForDecision(d, to)

SignInStep(s) ==
    \/ FindAccount(s) \/ RereadAccount(s) \/ CommitRegistration(s)
    \/ \E state \in {"pending", "approved"} : CreateAccount(s, state)

Next ==
    \/ Tick
    \/ \E r \in Deciders \cup SignIns : Arrive(r)
    \/ \E d \in Deciders : DecisionStep(d)
    \/ \E s \in SignIns : SignInStep(s)

Spec == Init /\ [][Next]_vars

-----------------------------------------------------------------------------
(* Properties *)

States == AccountStates \cup {"none"}

\* The columns and the requests' variables keep their types, and the columns
\* of registration_requests the CHECKs on them.
TypeOK ==
    /\ clock \in Nat
    /\ user \in [state : States, revision : Nat, transition : Deciders \cup {None},
                 active : SignIns \cup {None}]
    /\ regs \in [SignIns -> [requested : Nat \cup {None}, revoked : Nat \cup {None},
                             by : SignIns \cup {None}, epoch : Nat]]
    /\ \A s \in SignIns : /\ regs[s].revoked # None => regs[s].revoked >= regs[s].requested
                          /\ regs[s].by # None => regs[s].revoked # None
    /\ decisions \in Seq([from : States, to : AccountStates, seen : Nat])
    /\ notices \subseteq Deciders /\ alerts \subseteq SignIns
    /\ req \in [Deciders \cup SignIns ->
                  [pc : {"new", "read", "decide", "create", "reread", "register", "done",
                         "refused", "conflict", "error"},
                   now : Nat, to : States, from : States, revision : Nat, seen : Nat]]

\* The recorded decisions form one history: each starts in the state in which
\* the one before it ended, and the account is where the last one left it.
DecisionsFormAHistory ==
    /\ \A i \in 1..Len(decisions) :
          decisions[i].from = IF i = 1 THEN "none" ELSE decisions[i - 1].to
    /\ decisions # <<>> => user.state = decisions[Len(decisions)].to
    /\ decisions = <<>> => user.state = "none"

\* An owner's decision is only recorded if no other was recorded since the
\* owner's request read the account, even if the state has come back to what
\* it was: two decisions made on the same view never both count.
NoStaleDecision == \A i \in 1..Len(decisions) : decisions[i].seen = i - 1

\* A decision is answered with success exactly if it is in the history with its
\* notification; a refused, conflicting or failed one has left nothing behind.
DecidedIsNotified ==
    /\ notices = {d \in Deciders : req[d].pc = "done"}
    /\ decisions # <<>> => Len(decisions) = Cardinality(notices) + 1

\* The users row names the one open registration request, and there is no other
\* open one, although the two are in different tables and both are written by
\* overlapping callbacks and decisions.
MarkerNamesTheOpenRequest ==
    {s \in SignIns : Open(s)} = IF user.active = None THEN {} ELSE {user.active}

\* getRegistrationStatus: what a receipt must satisfy to be answered.
ReceiptIsValid(s) ==
    Open(s) /\ user.active = s

\* A receipt that is answered was issued since the last decision, to an account
\* that awaits or was denied review: a decision ends every receipt, also those
\* of callbacks that had read the account before it.
ReceiptEndsWithDecision ==
    \A s \in SignIns : ReceiptIsValid(s) =>
        /\ user.state \in {"pending", "rejected"}
        /\ regs[s].epoch = Len(decisions)

=============================================================================
