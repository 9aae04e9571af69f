------------------------------- MODULE MCSignIn -------------------------------
(***************************************************************************)
(* The five state machines a sign-in runs through: the limiter in front of *)
(* it (SignInLimiter), the transaction and the external identities         *)
(* (Identities), the approval of the account (AccountApproval), the        *)
(* browser session (BrowserSessions) and the checks of the requests made   *)
(* with it (RequestGate).  They meet in one column each, which             *)
(* the machine behind it takes as free input, so a behaviour is one of a   *)
(* single machine, chosen at its beginning.  The sessions have their own   *)
(* variables and rest in an initial state while another machine runs; the  *)
(* others take turns on the registers, and what is not needed is empty.    *)
(***************************************************************************)
EXTENDS BrowserSessions, TLC

CONSTANTS
    Pair1, Pair2, Pair3, Pair4,   \* interchangeable names, used by all the machines
    Nobody, Installation, Visitor,
    PendingLimit, MaxWork, PerClient, PerInstallation, Span, MaxNow, MaxLost, MaxChanges

VARIABLES machine, r1, r2, r3, r4, r5, r6, r7, r8

registers == <<r1, r2, r3, r4, r5, r6, r7, r8>>

Approval == INSTANCE AccountApproval
              WITH Deciders <- Pair1 \cup {Legacy}, SignIns <- Pair2,
                   clock <- r1, user <- r2, regs <- r3, decisions <- r4, notices <- r5,
                   alerts <- r6, req <- r7

Identity == INSTANCE Identities
              WITH Subjects <- Pair1, Users <- Pair2, Txns <- Pair1, Links <- Pair4,
                   Requests <- Pair3, txn <- r1, ident <- r2, users <- r3, link <- r4,
                   req <- r5, work <- r6, signed <- r7, linked <- r8

Limiter == INSTANCE SignInLimiter
             WITH Attempts <- Pair1 \cup Pair2, Clients <- Pair3, Unlocked <- Nobody,
                  now <- r1, lost <- r2, lock <- r3, attempt <- r4, admitted <- r5, denials <- r6

Gate == INSTANCE RequestGate
          WITH Visitors <- {Visitor}, account <- r1, session <- r2, changes <- r3,
               ask <- r4

ASSUME SignInConstants ==
    /\ Approval!ApprovalConstants /\ Limiter!LimiterConstants /\ Gate!GateConstants

Empty == <<>>

SignInInit ==
    /\ Init
    /\ \/ /\ machine = "session"
          /\ r1 = Empty /\ r2 = Empty /\ r3 = Empty /\ r4 = Empty
          /\ r5 = Empty /\ r6 = Empty /\ r7 = Empty /\ r8 = Empty
       \/ /\ approved
          /\ \/ machine = "approval" /\ Approval!Init /\ r8 = Empty
             \/ machine = "identity" /\ Identity!Init
             \/ machine = "limiter" /\ Limiter!LimiterInit /\ r7 = Empty /\ r8 = Empty
             \/ /\ machine = "request" /\ Gate!GateInit
                /\ r5 = Empty /\ r6 = Empty /\ r7 = Empty /\ r8 = Empty

SignInNext ==
    /\ UNCHANGED machine
    /\ \/ machine = "session" /\ Next /\ UNCHANGED registers
       \/ /\ UNCHANGED vars
          /\ \/ machine = "approval" /\ Approval!Next /\ UNCHANGED r8
             \/ machine = "identity" /\ Identity!Next
             \/ machine = "limiter" /\ Limiter!LimiterNext /\ UNCHANGED <<r7, r8>>
             \/ machine = "request" /\ Gate!GateNext /\ UNCHANGED <<r5, r6, r7, r8>>

SignInSpec == SignInInit /\ [][SignInNext]_<<machine, vars, registers>>

Swaps == Permutations(Pair1) \cup Permutations(Pair2) \cup Permutations(Pair3)
         \cup Permutations(Pair4)

-------------------------------------------------------------------------------
\* Overlapping decisions of owners and sign-ins of the learner form one history without a
\* stale decision, each decision with its notification; the marker names the open request,
\* and no receipt outlives the decision that came after it.
DecisionsFormAHistory ==
    machine = "approval" =>
        /\ Approval!TypeOK /\ Approval!DecisionsFormAHistory /\ Approval!NoStaleDecision
        /\ Approval!DecidedIsNotified /\ Approval!MarkerNamesTheOpenRequest
        /\ Approval!ReceiptEndsWithDecision

\* However often a callback is delivered, a sign-in transaction signs in once, into the
\* account that owns the identity; a link transaction attaches at most one identity, and is
\* recorded as completed if it did; and every account keeps one primary identity.
TransactionsServeOnce ==
    machine = "identity" =>
        /\ Identity!IdentitiesTypeOK /\ Identity!TransactionServesOnce
        /\ Identity!LinksAreHonest /\ Identity!EveryAccountCanSignIn

\* An external identity that belongs to an account is never given to another.
IdentityKeepsItsAccount ==
    [][machine = "identity" => Identity!IdentityKeepsItsAccount]_registers

\* Concurrent attempts never exceed the limits of a client or of the installation.  And
\* whatever is decided about an account while its request is under way, only an account that
\* had the right to it at some moment is served; a denial does nothing and leaves one entry
\* in the audit trail; and of an account that is not approved only the state is shown.
OnlyTheEntitled ==
    /\ machine = "limiter" => Limiter!LimiterTypeOK /\ Limiter!LimitHolds
    /\ machine = "request" =>
        /\ Gate!GateTypeOK /\ Gate!OnlyTheEntitled /\ Gate!DenialsLeaveATrace
        /\ Gate!OnlyTheStateIsShown
===============================================================================
