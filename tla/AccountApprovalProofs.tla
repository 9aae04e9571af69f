------------------------- MODULE AccountApprovalProofs -------------------------
(***************************************************************************)
(* What holds of AccountApproval for any number of owners' decisions and   *)
(* sign-in callbacks, however they overlap and however late their          *)
(* timestamps are.                                                         *)
(***************************************************************************)
EXTENDS AccountApproval, FiniteSetTheorems, SequenceTheorems, TLAPS

DeciderPcs == {"new", "read", "decide", "done", "refused", "conflict", "error"}
SignInPcs  == {"new", "read", "create", "reread", "register", "done", "error"}

\* The revision counts the decisions of the account, and a registration that is
\* not recorded has left nothing.
RowsFit ==
    /\ user.state # "none" => user.revision = Len(decisions)
    /\ user.state = "none" => user = NoUser
    /\ \A s \in SignIns : regs[s].revoked # None => regs[s].requested # None
    /\ \A s \in SignIns : req[s].pc # "done" => regs[s] = NoReg

\* A decision under way has seen a state of the account with a way out, and
\* knows the account as it is if it was not decided since; it is not recorded.
DecidersFit ==
    \A d \in Deciders :
        /\ req[d].pc \in DeciderPcs
        /\ req[d].pc # "new" => user.state # "none"
        /\ req[d].pc # "done" => user.transition # d
        /\ req[d].pc = "decide" =>
              /\ req[d].from \in AccountStates /\ req[d].to \in AccountStates
              /\ req[d].revision = req[d].seen /\ req[d].seen <= Len(decisions)
              /\ req[d].seen = Len(decisions) => req[d].from = user.state

SignInsFit == \A s \in SignIns : /\ req[s].pc \in SignInPcs
                                 /\ req[s].pc \in {"reread", "register"} => user.state # "none"

\* Notices are as many as decisions after the registration.
NoticesFit ==
    /\ IsFiniteSet(notices)
    /\ decisions = <<>> => notices = {}

ApprovalInv ==
    /\ TypeOK /\ RowsFit /\ DecidersFit /\ SignInsFit /\ NoticesFit
    /\ DecisionsFormAHistory /\ NoStaleDecision /\ DecidedIsNotified
    /\ MarkerNamesTheOpenRequest /\ ReceiptEndsWithDecision

-----------------------------------------------------------------------------
(* Facts about the operators *)

LEMMA AllowedStates ==
    ASSUME NEW s \in States, NEW t \in Allowed(s)
    PROVE  s \in AccountStates /\ t \in AccountStates
  BY DEF Allowed, States, AccountStates

\* What an UPDATE that revokes every open request leaves.
LEMMA Revoking ==
    ASSUME ApprovalConstants, ApprovalInv, NEW t \in Nat, NEW s \in SignIns
    PROVE  /\ RevokedAt(t)[s] \in [requested : Nat \cup {None}, revoked : Nat \cup {None},
                                   by : SignIns \cup {None}, epoch : Nat]
           /\ RevokedAt(t)[s].requested = regs[s].requested
           /\ RevokedAt(t)[s].by = regs[s].by
           /\ ~ (RevokedAt(t)[s].requested # None /\ RevokedAt(t)[s].revoked = None)
           /\ RevokedAt(t)[s].revoked # None => regs[s].requested # None
           /\ regs[s] = NoReg => RevokedAt(t)[s] = NoReg
           /\ RevokedAt(t)[s].by # None => RevokedAt(t)[s].revoked # None
           /\ RevocationPassesCheck(t) /\ RevokedAt(t)[s].revoked # None
                => RevokedAt(t)[s].revoked >= RevokedAt(t)[s].requested
  <1> DEFINE Reg == [requested : Nat \cup {None}, revoked : Nat \cup {None},
                     by : SignIns \cup {None}, epoch : Nat]
  <1>1. /\ regs \in [SignIns -> Reg] /\ regs[s] \in Reg
        /\ regs[s].revoked # None => regs[s].revoked >= regs[s].requested
        /\ regs[s].by # None => regs[s].revoked # None
        /\ regs[s].revoked # None => regs[s].requested # None
    BY DEF ApprovalInv, TypeOK, RowsFit
  <1>2. t # None
    BY DEF ApprovalConstants
  <1>3. CASE Open(s)
    <2>1. RevokedAt(t)[s] = [regs[s] EXCEPT !.revoked = t]
      BY <1>3 DEF RevokedAt
    <2>2. /\ RevokedAt(t)[s] \in Reg /\ RevokedAt(t)[s].requested = regs[s].requested
          /\ RevokedAt(t)[s].by = regs[s].by /\ RevokedAt(t)[s].revoked = t
      BY <1>1, <2>1
    <2>3. regs[s].requested # None /\ regs[s] # NoReg
      BY <1>3 DEF Open, NoReg
    <2>4. RevocationPassesCheck(t) => t >= regs[s].requested
      BY <1>3, <1>1, <2>3 DEF RevocationPassesCheck
    <2> QED BY <1>2, <2>2, <2>3, <2>4
  <1>4. CASE ~ Open(s)
    <2>1. RevokedAt(t)[s] = regs[s]
      BY <1>4 DEF RevokedAt
    <2> QED BY <1>1, <1>4, <2>1 DEF Open
  <1> QED BY <1>3, <1>4

LEMMA OneMore ==
    ASSUME NEW d, d \notin notices, IsFiniteSet(notices)
    PROVE  /\ IsFiniteSet(notices \cup {d})
           /\ Cardinality(notices \cup {d}) = Cardinality(notices) + 1
           /\ Cardinality(notices) \in Nat
  BY FS_AddElement, FS_CardinalityType

LEMMA ApprovalInvInit == ApprovalConstants /\ Init => ApprovalInv
  <1> SUFFICES ASSUME ApprovalConstants, Init PROVE ApprovalInv
    OBVIOUS
  <1>1. TypeOK
    BY DEF TypeOK, Init, NoUser, NoReg, Fresh, States, ApprovalConstants
  <1>2. RowsFit /\ DecidersFit /\ SignInsFit
    BY DEF RowsFit, DecidersFit, SignInsFit, Init, NoUser, NoReg, Fresh, DeciderPcs, SignInPcs,
           ApprovalConstants
  <1>3. NoticesFit /\ DecidedIsNotified
    BY FS_EmptySet DEF NoticesFit, DecidedIsNotified, Init, Fresh
  <1>4. DecisionsFormAHistory /\ NoStaleDecision
    BY DEF DecisionsFormAHistory, NoStaleDecision, Init, NoUser
  <1>5. MarkerNamesTheOpenRequest /\ ReceiptEndsWithDecision
    BY DEF MarkerNamesTheOpenRequest, ReceiptEndsWithDecision, ReceiptIsValid, Open, Init, NoUser,
           NoReg
  <1> QED BY <1>1, <1>2, <1>3, <1>4, <1>5 DEF ApprovalInv

-----------------------------------------------------------------------------
(* Steps that write nothing *)

Local == [pc : {"new", "read", "decide", "create", "reread", "register", "done",
                "refused", "conflict", "error"},
          now : Nat, to : States, from : States, revision : Nat, seen : Nat]

\* Request r goes on; the tables stay as they are.
Quiet(r) ==
    /\ UNCHANGED <<user, regs, decisions, notices, alerts>>
    /\ clock' \in Nat
    /\ \E q \in Local : req' = [req EXCEPT ![r] = q]

\* What the step has to show of its own request.
QuietFits(r) ==
    /\ r \in Deciders =>
          /\ req'[r].pc \in DeciderPcs \ {"done"}
          /\ req[r].pc # "done"
          /\ req'[r].pc # "new" => user.state # "none"
          /\ req'[r].pc = "decide" =>
                /\ req'[r].from = user.state /\ req'[r].from \in AccountStates
                /\ req'[r].to \in AccountStates
                /\ req'[r].revision = user.revision /\ req'[r].seen = Len(decisions)
    /\ r \in SignIns =>
          /\ req'[r].pc \in SignInPcs
          /\ req[r].pc # "done"
          /\ req'[r].pc \in {"reread", "register"} => user.state # "none"

LEMMA DecisionsAreMany == ApprovalInv => Len(decisions) \in Nat
  BY DEF ApprovalInv, TypeOK

LEMMA QuietKeeps ==
    ASSUME ApprovalConstants, ApprovalInv, NEW r \in Deciders \cup SignIns, Quiet(r), QuietFits(r)
    PROVE  ApprovalInv'
  <1>0. PICK q \in Local : req' = [req EXCEPT ![r] = q]
    BY DEF Quiet
  <1>1. req \in [Deciders \cup SignIns -> Local]
    BY DEF ApprovalInv, TypeOK, Local
  <1>2. /\ req' \in [Deciders \cup SignIns -> Local] /\ req'[r] = q
        /\ \A p \in (Deciders \cup SignIns) \ {r} : req'[p] = req[p]
    BY <1>0, <1>1
  <1>3. /\ user' = user /\ regs' = regs /\ decisions' = decisions /\ notices' = notices
        /\ alerts' = alerts /\ clock' \in Nat
    BY DEF Quiet
  <1>4. TypeOK'
    BY <1>2, <1>3 DEF ApprovalInv, TypeOK, Local
  <1>5. RowsFit'
    BY <1>2, <1>3 DEF ApprovalInv, RowsFit, QuietFits
  <1>6. SignInsFit'
    BY <1>2, <1>3 DEF ApprovalInv, SignInsFit, QuietFits
  <1>7. DecidersFit'
    <2> SUFFICES ASSUME NEW d \in Deciders
                 PROVE  /\ req'[d].pc \in DeciderPcs
                        /\ req'[d].pc # "new" => user.state # "none"
                        /\ req'[d].pc # "done" => user.transition # d
                        /\ req'[d].pc = "decide" =>
                              /\ req'[d].from \in AccountStates /\ req'[d].to \in AccountStates
                              /\ req'[d].revision = req'[d].seen /\ req'[d].seen <= Len(decisions)
                              /\ req'[d].seen = Len(decisions) => req'[d].from = user.state
      BY <1>3 DEF DecidersFit
    <2>1. CASE d # r
      BY <2>1, <1>2 DEF ApprovalInv, DecidersFit
    <2>2. CASE d = r
      <3>1. user.transition # d /\ req'[d].pc \in DeciderPcs
            /\ (req'[d].pc # "new" => user.state # "none")
        BY <2>2 DEF ApprovalInv, DecidersFit, QuietFits
      <3>2. user.state # "none" => user.revision = Len(decisions)
        BY DEF ApprovalInv, RowsFit
      <3>3. "decide" # "new"
        OBVIOUS
      <3>4. Len(decisions) \in Nat
        BY DecisionsAreMany
      <3> QED BY <2>2, <3>1, <3>2, <3>3, <3>4 DEF QuietFits
    <2> QED BY <2>1, <2>2
  <1>8. NoticesFit' /\ DecisionsFormAHistory' /\ NoStaleDecision' /\ ReceiptEndsWithDecision'
    BY <1>3 DEF ApprovalInv, NoticesFit, DecisionsFormAHistory, NoStaleDecision,
                ReceiptEndsWithDecision, ReceiptIsValid, Open
  <1>9. MarkerNamesTheOpenRequest'
    BY <1>3 DEF ApprovalInv, MarkerNamesTheOpenRequest, Open
  <1>10. DecidedIsNotified'
    <2>1. {d \in Deciders : req'[d].pc = "done"} = {d \in Deciders : req[d].pc = "done"}
      BY <1>2 DEF QuietFits
    <2> QED BY <2>1, <1>3 DEF ApprovalInv, DecidedIsNotified
  <1> QED BY <1>4, <1>5, <1>6, <1>7, <1>8, <1>9, <1>10 DEF ApprovalInv

\* A decider's record of the account is of its type.
LEMMA RequestType ==
    ASSUME ApprovalInv, NEW r \in Deciders \cup SignIns
    PROVE  /\ req \in [Deciders \cup SignIns -> Local] /\ req[r] \in Local
           /\ clock \in Nat /\ user.state \in States /\ user.revision \in Nat
           /\ Len(decisions) \in Nat
  BY DEF ApprovalInv, TypeOK, Local

LEMMA ArriveKeeps ==
    ASSUME ApprovalConstants, ApprovalInv, NEW r \in Deciders \cup SignIns, Arrive(r)
    PROVE  ApprovalInv'
  <1> DEFINE q == [Fresh EXCEPT !.pc = "read", !.now = clock]
  <1>1. q \in Local /\ q.pc = "read"
    BY RequestType DEF Local, Fresh, States
  <1>2. req' = [req EXCEPT ![r] = q] /\ req'[r] = q
    BY RequestType DEF Arrive
  <1>3. Quiet(r)
    BY <1>1, <1>2, RequestType DEF Arrive, Quiet
  <1>4. QuietFits(r)
    BY <1>1, <1>2 DEF Arrive, QuietFits, DeciderPcs, SignInPcs
  <1> QED BY <1>3, <1>4, QuietKeeps

LEMMA ReadForDecisionKeeps ==
    ASSUME ApprovalConstants, ApprovalInv, NEW d \in Deciders, NEW to \in AccountStates,
           ReadForDecision(d, to)
    PROVE  ApprovalInv'
  <1> DEFINE q == IF to \in Allowed(user.state)
                  THEN [req[d] EXCEPT !.pc = "decide", !.to = to, !.from = user.state,
                                      !.revision = user.revision, !.seen = Len(decisions)]
                  ELSE [req[d] EXCEPT !.pc = "refused"]
  <1>0. req[d] \in Local /\ user.state \in States /\ user.revision \in Nat /\ Len(decisions) \in Nat
        /\ to \in States
    BY RequestType DEF States
  <1>1. q \in Local
    BY <1>0 DEF Local
  <1>2. req' = [req EXCEPT ![d] = q] /\ req'[d] = q
    BY RequestType DEF ReadForDecision
  <1>3. Quiet(d)
    BY <1>1, <1>2, RequestType DEF ReadForDecision, Quiet
  <1>4. user.state # "none" /\ req[d].pc = "read" /\ d \notin SignIns
    BY DEF ReadForDecision, ApprovalInv, DecidersFit, ApprovalConstants
  <1>5. \/ q.pc = "refused"
        \/ /\ q.pc = "decide" /\ q.to = to /\ q.from = user.state
           /\ q.revision = user.revision /\ q.seen = Len(decisions)
           /\ user.state \in AccountStates
    BY <1>0, AllowedStates DEF Local
  <1>6. QuietFits(d)
    BY <1>2, <1>4, <1>5 DEF QuietFits, DeciderPcs
  <1> QED BY <1>3, <1>6, QuietKeeps

\* The steps of a callback that only read.
LEMMA ReadingKeeps ==
    ASSUME ApprovalConstants, ApprovalInv, NEW s \in SignIns, FindAccount(s) \/ RereadAccount(s)
    PROVE  ApprovalInv'
  <1>0. req \in [Deciders \cup SignIns -> Local] /\ req[s] \in Local /\ user.state \in States
        /\ s \notin Deciders /\ clock \in Nat
    BY RequestType DEF ApprovalConstants
  <1>1. CASE FindAccount(s)
    <2> DEFINE q == [req[s] EXCEPT !.pc = IF user.state = "none" THEN "create" ELSE "reread"]
    <2>1. q \in Local /\ q.pc = IF user.state = "none" THEN "create" ELSE "reread"
      BY <1>0 DEF Local
    <2>2. req' = [req EXCEPT ![s] = q] /\ req'[s] = q
      BY <1>0, <1>1 DEF FindAccount
    <2>3. Quiet(s)
      BY <1>0, <1>1, <2>1, <2>2 DEF FindAccount, Quiet
    <2>4. QuietFits(s)
      BY <1>0, <1>1, <2>1, <2>2 DEF FindAccount, QuietFits, SignInPcs
    <2> QED BY <2>3, <2>4, QuietKeeps
  <1>2. CASE RereadAccount(s)
    <2> DEFINE pc == IF user.state \in {"pending", "rejected"} THEN "register" ELSE "done"
               q == [req[s] EXCEPT !.from = user.state, !.pc = pc]
    <2>1. q \in Local /\ q.pc = pc
      BY <1>0 DEF Local
    <2>2. req' = [req EXCEPT ![s] = q] /\ req'[s] = q
      BY <1>0, <1>2 DEF RereadAccount
    <2>3. Quiet(s)
      BY <1>0, <1>2, <2>1, <2>2 DEF RereadAccount, Quiet
    <2>4. QuietFits(s)
      BY <1>0, <1>2, <2>1, <2>2 DEF RereadAccount, QuietFits, SignInPcs
    <2> QED BY <2>3, <2>4, QuietKeeps
  <1> QED BY <1>1, <1>2

LEMMA TickKeeps == ASSUME ApprovalInv, Tick PROVE ApprovalInv'
  <1>1. TypeOK'
    BY SMTT(30) DEF Tick, ApprovalInv, TypeOK
  <1>2. RowsFit' /\ DecidersFit' /\ SignInsFit' /\ NoticesFit' /\ DecidedIsNotified'
    BY DEF Tick, ApprovalInv, RowsFit, DecidersFit, SignInsFit, NoticesFit, DecidedIsNotified
  <1>3. DecisionsFormAHistory' /\ NoStaleDecision' /\ ReceiptEndsWithDecision'
    BY DEF Tick, ApprovalInv, DecisionsFormAHistory, NoStaleDecision, ReceiptEndsWithDecision,
           ReceiptIsValid, Open
  <1>4. MarkerNamesTheOpenRequest'
    BY DEF Tick, ApprovalInv, MarkerNamesTheOpenRequest, Open
  <1> QED BY <1>1, <1>2, <1>3, <1>4 DEF ApprovalInv

-----------------------------------------------------------------------------
(* The batches that write *)

\* The history grows by one decision that was made on its last state.
LEMMA HistoryGrows ==
    ASSUME ApprovalInv, NEW from \in States, NEW to \in AccountStates,
           from = user.state,
           decisions' = Append(decisions, [from |-> from, to |-> to, seen |-> Len(decisions)]),
           user'.state = to
    PROVE  /\ decisions' \in Seq([from : States, to : AccountStates, seen : Nat])
           /\ Len(decisions') = Len(decisions) + 1
           /\ decisions' # <<>>
           /\ DecisionsFormAHistory' /\ NoStaleDecision'
  <1> DEFINE Dec == [from : States, to : AccountStates, seen : Nat]
             new == [from |-> from, to |-> to, seen |-> Len(decisions)]
             n == Len(decisions)
  <1>1. decisions \in Seq(Dec) /\ n \in Nat
    BY DEF ApprovalInv, TypeOK
  <1>2. new \in Dec /\ new.from = from /\ new.to = to /\ new.seen = n
    BY <1>1
  <1>3. /\ decisions' \in Seq(Dec) /\ Len(decisions') = n + 1 /\ decisions'[n + 1] = new
        /\ \A i \in 1..n : decisions'[i] = decisions[i]
    BY <1>1, <1>2
  <1>4. decisions' # <<>>
    BY <1>1, <1>3
  <1>5. ASSUME NEW i \in 1..(n + 1)
        PROVE  /\ decisions'[i].from = IF i = 1 THEN "none" ELSE decisions'[i - 1].to
               /\ decisions'[i].seen = i - 1
    <2>1. CASE i \in 1..n
      <3>1. decisions[i].from = (IF i = 1 THEN "none" ELSE decisions[i - 1].to)
            /\ decisions[i].seen = i - 1
        BY <2>1 DEF ApprovalInv, DecisionsFormAHistory, NoStaleDecision
      <3>2. i # 1 => i - 1 \in 1..n
        BY SMTT(30), <2>1, <1>1
      <3> QED BY <2>1, <3>1, <3>2, <1>3
    <2>2. CASE i = n + 1
      <3>1. n = 0 => user.state = "none"
        BY <1>1 DEF ApprovalInv, DecisionsFormAHistory
      <3>2. n # 0 => decisions # <<>> /\ n \in 1..n
        BY <1>1
      <3>3. n # 0 => user.state = decisions[n].to
        BY <3>2 DEF ApprovalInv, DecisionsFormAHistory
      <3>4. i = 1 <=> n = 0
        BY <1>1, <2>2
      <3>5. i - 1 = n
        BY <1>1, <2>2
      <3> QED BY <2>2, <1>2, <1>3, <3>1, <3>2, <3>3, <3>4, <3>5
    <2> QED BY <1>1, <2>1, <2>2
  <1>6. DecisionsFormAHistory'
    BY <1>2, <1>3, <1>4, <1>5 DEF DecisionsFormAHistory
  <1>7. NoStaleDecision'
    BY <1>3, <1>5 DEF NoStaleDecision
  <1> QED BY <1>3, <1>4, <1>6, <1>7

LEMMA CommitDecisionKeeps ==
    ASSUME ApprovalConstants, ApprovalInv, NEW d \in Deciders, CommitDecision(d)
    PROVE  ApprovalInv'
  <1> DEFINE u == IF DecisionApplies(d) THEN Decided(d) ELSE user
             t == req[d].now
             committed == DecisionMarked(d, u) /\ RevocationPassesCheck(t)
             Reg == [requested : Nat \cup {None}, revoked : Nat \cup {None},
                     by : SignIns \cup {None}, epoch : Nat]
  <1>0. /\ req \in [Deciders \cup SignIns -> Local] /\ req[d] \in Local /\ t \in Nat
        /\ d \notin SignIns /\ req[d].pc = "decide" /\ user.revision \in Nat /\ clock \in Nat
        /\ Len(decisions) \in Nat /\ d # None
    BY RequestType DEF ApprovalConstants, CommitDecision, Local
  <1>1. /\ user.state # "none" /\ user.transition # d
        /\ req[d].from \in AccountStates /\ req[d].to \in AccountStates
        /\ req[d].revision = req[d].seen /\ req[d].seen <= Len(decisions)
        /\ req[d].seen = Len(decisions) => req[d].from = user.state
        /\ user.revision = Len(decisions)
    BY <1>0 DEF ApprovalInv, DecidersFit, RowsFit
  <1>2. committed => DecisionApplies(d)
    BY <1>1 DEF DecisionMarked
  <1>3. CASE ~ committed
    <2> DEFINE pc == IF DecisionMarked(d, u) THEN "error" ELSE "conflict"
               q == [req[d] EXCEPT !.pc = pc]
    <2>1. q \in Local /\ q.pc = pc
      BY <1>0 DEF Local
    <2>2. /\ UNCHANGED <<user, regs, decisions, notices, alerts, clock>>
          /\ req' = [req EXCEPT ![d].pc = pc]
      BY <1>3 DEF CommitDecision, Noticed
    <2>3. req' = [req EXCEPT ![d] = q] /\ req'[d] = q
      BY <2>2, <1>0
    <2>4. Quiet(d)
      BY <1>0, <2>1, <2>2, <2>3 DEF Quiet
    <2>5. QuietFits(d)
      BY <1>0, <1>1, <2>1, <2>3 DEF QuietFits, DeciderPcs
    <2> QED BY <2>4, <2>5, QuietKeeps
  <1>4. CASE committed
    <2> DEFINE q == [req[d] EXCEPT !.pc = "done"]
    <2>0. DecisionApplies(d) /\ u = Decided(d)
      BY <1>2, <1>4
    <2>1. /\ user' = Decided(d) /\ regs' = RevokedAt(t) /\ notices' = notices \cup {d}
          /\ decisions' = Append(decisions, [from |-> req[d].from, to |-> req[d].to,
                                             seen |-> req[d].seen])
          /\ req' = [req EXCEPT ![d].pc = "done"]
          /\ UNCHANGED <<clock, alerts>>
      BY <1>4, <2>0 DEF CommitDecision, Noticed
    <2>2. /\ user'.state = req[d].to /\ user'.revision = user.revision + 1
          /\ user'.transition = d /\ user'.active = None /\ user'.state # "none"
      BY <1>1, <2>1 DEF Decided, AccountStates
    <2>3. /\ req' = [req EXCEPT ![d] = q] /\ req'[d] = q /\ q \in Local /\ q.pc = "done"
          /\ \A r \in (Deciders \cup SignIns) \ {d} : req'[r] = req[r]
          /\ req' \in [Deciders \cup SignIns -> Local]
      BY <1>0, <2>1 DEF Local
    <2>4. req[d].from = user.state /\ req[d].seen = Len(decisions) /\ req[d].from \in States
      BY <1>1, <2>0 DEF DecisionApplies, States
    <2>5. /\ decisions' \in Seq([from : States, to : AccountStates, seen : Nat])
          /\ Len(decisions') = Len(decisions) + 1 /\ decisions' # <<>>
          /\ DecisionsFormAHistory' /\ NoStaleDecision'
      BY <1>1, <2>1, <2>2, <2>4, HistoryGrows
    <2>6. RevocationPassesCheck(t)
      BY <1>4
    <2>7. regs' \in [SignIns -> Reg]
      BY <1>0, <2>1, Revoking DEF RevokedAt
    <2>8. TypeOK'
      <3>1. clock' \in Nat /\ alerts' \subseteq SignIns /\ notices' \subseteq Deciders
        BY <2>1 DEF ApprovalInv, TypeOK
      <3>2. user' \in [state : States, revision : Nat, transition : Deciders \cup {None},
                       active : SignIns \cup {None}]
        BY <1>0, <1>1, <2>1 DEF Decided, States
      <3>3. \A s \in SignIns : /\ regs'[s].revoked # None => regs'[s].revoked >= regs'[s].requested
                               /\ regs'[s].by # None => regs'[s].revoked # None
        BY <1>0, <2>1, <2>6, Revoking
      <3> QED BY <2>3, <2>5, <2>7, <3>1, <3>2, <3>3 DEF TypeOK, Local
    <2>9. RowsFit'
      <3>1. \A s \in SignIns : /\ regs'[s].revoked # None => regs'[s].requested # None
                               /\ req'[s].pc # "done" => regs'[s] = NoReg
        <4> TAKE s \in SignIns
        <4>1. req'[s] = req[s]
          BY <1>0, <2>3
        <4>2. req[s].pc # "done" => regs[s] = NoReg
          BY DEF ApprovalInv, RowsFit
        <4>3. /\ regs'[s].requested = regs[s].requested
              /\ regs'[s].revoked # None => regs[s].requested # None
              /\ regs[s] = NoReg => regs'[s] = NoReg
          BY <1>0, <2>1, Revoking
        <4> QED BY <4>1, <4>2, <4>3
      <3> QED BY <1>1, <2>2, <2>5, <3>1 DEF RowsFit
    <2>10. SignInsFit'
      BY <1>0, <2>2, <2>3 DEF ApprovalInv, SignInsFit
    <2>11. DecidersFit'
      <3> SUFFICES ASSUME NEW e \in Deciders
                   PROVE  /\ req'[e].pc \in DeciderPcs
                          /\ req'[e].pc # "done" => user'.transition # e
                          /\ req'[e].pc = "decide" =>
                                /\ req'[e].from \in AccountStates /\ req'[e].to \in AccountStates
                                /\ req'[e].revision = req'[e].seen
                                /\ req'[e].seen <= Len(decisions')
                                /\ req'[e].seen # Len(decisions')
        BY <2>2 DEF DecidersFit
      <3>1. CASE e = d
        BY <3>1, <2>3 DEF DeciderPcs
      <3>2. CASE e # d
        <4>1. req'[e] = req[e] /\ req[e] \in Local
          BY <1>0, <2>3, <3>2
        <4>2. req[e].seen \in Nat
          BY <4>1 DEF Local
        <4>3. /\ req[e].pc \in DeciderPcs
              /\ req[e].pc = "decide" =>
                    /\ req[e].from \in AccountStates /\ req[e].to \in AccountStates
                    /\ req[e].revision = req[e].seen /\ req[e].seen <= Len(decisions)
          BY DEF ApprovalInv, DecidersFit
        <4> QED BY <4>1, <4>2, <4>3, <1>0, <2>2, <2>5, <3>2
      <3> QED BY <3>1, <3>2
    <2>12. d \notin notices
      BY <1>0 DEF ApprovalInv, DecidedIsNotified
    <2>13. NoticesFit' /\ DecidedIsNotified'
      <3>1. notices' = {e \in Deciders : req'[e].pc = "done"}
        BY <2>1, <2>3 DEF ApprovalInv, DecidedIsNotified
      <3>2. /\ IsFiniteSet(notices') /\ Cardinality(notices') = Cardinality(notices) + 1
            /\ Cardinality(notices) \in Nat
        BY <2>1, <2>12, OneMore DEF ApprovalInv, NoticesFit
      <3>3. decisions # <<>>
        BY <1>1 DEF ApprovalInv, DecisionsFormAHistory
      <3>4. Len(decisions) = Cardinality(notices) + 1
        BY <3>3 DEF ApprovalInv, DecidedIsNotified
      <3> QED BY <2>5, <3>1, <3>2, <3>4, <1>0 DEF NoticesFit, DecidedIsNotified
    <2>14. \A s \in SignIns : ~ Open(s)'
      BY <1>0, <2>1, Revoking DEF Open
    <2>15. MarkerNamesTheOpenRequest' /\ ReceiptEndsWithDecision'
      BY <2>2, <2>14 DEF MarkerNamesTheOpenRequest, ReceiptEndsWithDecision, ReceiptIsValid
    <2> QED BY <2>5, <2>8, <2>9, <2>10, <2>11, <2>13, <2>15 DEF ApprovalInv
  <1> QED BY <1>3, <1>4

\* What a registration leaves of the decisions' requests.
LEMMA CallbacksLeaveDeciders ==
    ASSUME ApprovalConstants, ApprovalInv, NEW s \in SignIns, NEW q \in Local,
           req' = [req EXCEPT ![s] = q]
    PROVE  /\ req' \in [Deciders \cup SignIns -> Local] /\ req'[s] = q
           /\ \A d \in Deciders : req'[d] = req[d]
           /\ \A r \in SignIns \ {s} : req'[r] = req[r]
           /\ {d \in Deciders : req'[d].pc = "done"} = {d \in Deciders : req[d].pc = "done"}
  <1>1. req \in [Deciders \cup SignIns -> Local] /\ s \notin Deciders
    BY RequestType DEF ApprovalConstants
  <1> QED BY <1>1

LEMMA CreateAccountKeeps ==
    ASSUME ApprovalConstants, ApprovalInv, NEW s \in SignIns, NEW state \in {"pending", "approved"},
           CreateAccount(s, state)
    PROVE  ApprovalInv'
  <1> DEFINE q == [req[s] EXCEPT !.pc = "reread"]
  <1>0. /\ req \in [Deciders \cup SignIns -> Local] /\ req[s] \in Local /\ clock \in Nat
        /\ req[s].pc = "create" /\ state \in AccountStates /\ s \notin Deciders
    BY RequestType DEF CreateAccount, AccountStates, ApprovalConstants
  <1>1. /\ q \in Local /\ q.pc = "reread" /\ req' = [req EXCEPT ![s] = q]
        /\ UNCHANGED <<clock, regs, notices, alerts>>
    BY <1>0 DEF CreateAccount, Local
  <1>2. CASE user.state # "none"
    <2>1. Quiet(s)
      BY <1>0, <1>1, <1>2 DEF CreateAccount, Created, Quiet
    <2>2. QuietFits(s)
      BY <1>0, <1>1, <1>2 DEF QuietFits, SignInPcs
    <2> QED BY <2>1, <2>2, QuietKeeps
  <1>3. CASE user.state = "none"
    <2>1. /\ req' \in [Deciders \cup SignIns -> Local] /\ req'[s].pc = "reread"
          /\ \A d \in Deciders : req'[d] = req[d]
          /\ \A r \in SignIns \ {s} : req'[r] = req[r]
          /\ {d \in Deciders : req'[d].pc = "done"} = {d \in Deciders : req[d].pc = "done"}
      BY <1>1, CallbacksLeaveDeciders
    <2>2. user' = [NoUser EXCEPT !.state = state]
      BY <1>3 DEF CreateAccount, Created
    <2>3. /\ user'.state = state /\ user'.revision = 1 /\ user'.transition = None
          /\ user'.active = None /\ user'.state # "none"
      BY <2>2 DEF NoUser
    <2>4. decisions = <<>> /\ user.active = None
      <3>1. decisions \in Seq([from : States, to : AccountStates, seen : Nat])
        BY DEF ApprovalInv, TypeOK
      <3>2. decisions # <<>> => decisions[Len(decisions)].to \in AccountStates
        <4>1. ASSUME decisions # <<>> PROVE Len(decisions) \in 1..Len(decisions)
          BY <3>1, <4>1
        <4>2. ASSUME NEW i \in 1..Len(decisions)
              PROVE  decisions[i] \in [from : States, to : AccountStates, seen : Nat]
          BY <3>1, ElementOfSeq
        <4> QED BY <4>1, <4>2
      <3>3. "none" \notin AccountStates
        BY DEF AccountStates
      <3> QED BY <1>3, <3>2, <3>3 DEF ApprovalInv, DecisionsFormAHistory, RowsFit, NoUser
    <2>5. decisions' = <<[from |-> "none", to |-> state, seen |-> 0]>>
      BY <1>3 DEF CreateAccount
    <2>6. TypeOK'
      <3>1. user' \in [state : States, revision : Nat, transition : Deciders \cup {None},
                       active : SignIns \cup {None}]
        BY <2>2, <1>0 DEF NoUser, States
      <3>2. decisions' \in Seq([from : States, to : AccountStates, seen : Nat])
        BY <2>5, <1>0 DEF States
      <3> QED BY <1>1, <2>1, <3>1, <3>2 DEF ApprovalInv, TypeOK, Local
    <2>7. Len(decisions') = 1 /\ decisions' # <<>>
          /\ decisions'[1] = [from |-> "none", to |-> state, seen |-> 0]
      BY <2>5
    <2>8. DecisionsFormAHistory' /\ NoStaleDecision'
      BY <2>3, <2>7 DEF DecisionsFormAHistory, NoStaleDecision
    <2>9. RowsFit'
      BY <1>0, <1>1, <2>1, <2>3, <2>7 DEF ApprovalInv, RowsFit
    <2>10. DecidersFit'
      <3> SUFFICES ASSUME NEW d \in Deciders PROVE req'[d].pc = "new" /\ user'.transition # d
        BY <2>3 DEF DecidersFit, DeciderPcs
      <3> QED BY <1>3, <2>1, <2>3 DEF ApprovalInv, DecidersFit, ApprovalConstants
    <2>11. SignInsFit'
      BY <2>1, <2>3 DEF ApprovalInv, SignInsFit, SignInPcs
    <2>12. notices' = {} /\ NoticesFit'
      BY <1>1, <2>4 DEF ApprovalInv, NoticesFit
    <2>13. DecidedIsNotified'
      <3>1. Cardinality(notices') = 0
        BY <2>12, FS_EmptySet
      <3> QED BY <1>1, <2>1, <2>7, <3>1 DEF ApprovalInv, DecidedIsNotified
    <2>14. MarkerNamesTheOpenRequest' /\ ReceiptEndsWithDecision'
      <3>1. \A r \in SignIns : ~ Open(r)
        BY <2>4 DEF ApprovalInv, MarkerNamesTheOpenRequest
      <3>2. \A r \in SignIns : ~ Open(r)'
        BY <1>1, <3>1 DEF Open
      <3> QED BY <2>3, <3>2 DEF MarkerNamesTheOpenRequest, ReceiptEndsWithDecision, ReceiptIsValid
    <2> QED BY <2>6, <2>8, <2>9, <2>10, <2>11, <2>12, <2>13, <2>14 DEF ApprovalInv
  <1> QED BY <1>2, <1>3

LEMMA CommitRegistrationKeeps ==
    ASSUME ApprovalConstants, ApprovalInv, NEW s \in SignIns, CommitRegistration(s)
    PROVE  ApprovalInv'
  <1> DEFINE t == req[s].now
             revoked == RevokedAt(t)
             commits == AwaitsReview /\ RevocationPassesCheck(t)
             Reg == [requested : Nat \cup {None}, revoked : Nat \cup {None},
                     by : SignIns \cup {None}, epoch : Nat]
  <1>0. /\ req \in [Deciders \cup SignIns -> Local] /\ req[s] \in Local /\ clock \in Nat
        /\ t \in Nat /\ req[s].pc = "register" /\ s \notin Deciders /\ Len(decisions) \in Nat
    BY RequestType DEF CommitRegistration, ApprovalConstants, Local
  <1>1. CASE ~ commits
    <2> DEFINE q == [req[s] EXCEPT !.pc = "error"]
    <2>1. q \in Local /\ q.pc = "error"
      BY <1>0 DEF Local
    <2>2. /\ UNCHANGED <<user, regs, decisions, notices, alerts, clock>>
          /\ req' = [req EXCEPT ![s] = q] /\ req'[s] = q
      BY <1>0, <1>1 DEF CommitRegistration
    <2>3. Quiet(s)
      BY <1>0, <2>1, <2>2 DEF Quiet
    <2>4. QuietFits(s)
      BY <1>0, <2>1, <2>2 DEF QuietFits, SignInPcs
    <2> QED BY <2>3, <2>4, QuietKeeps
  <1>2. CASE commits
    <2> DEFINE q == [req[s] EXCEPT !.pc = "done"]
               linked(r) == IF revoked[r].revoked = t /\ revoked[r].by = None
                            THEN [revoked[r] EXCEPT !.by = s] ELSE revoked[r]
    <2>1. /\ user' = [user EXCEPT !.active = s]
          /\ regs' = [r \in SignIns |-> IF r = s THEN NewReg(t) ELSE linked(r)]
          /\ alerts' = alerts \cup {s} /\ req' = [req EXCEPT ![s].pc = "done"]
          /\ UNCHANGED <<clock, decisions, notices>>
          /\ user.state \in {"pending", "rejected"} /\ RevocationPassesCheck(t)
      BY <1>2 DEF CommitRegistration, AwaitsReview
    <2>2. q \in Local /\ q.pc = "done" /\ req' = [req EXCEPT ![s] = q]
      BY <1>0, <2>1 DEF Local
    <2>3. /\ req' \in [Deciders \cup SignIns -> Local] /\ req'[s].pc = "done"
          /\ \A d \in Deciders : req'[d] = req[d]
          /\ \A r \in SignIns \ {s} : req'[r] = req[r]
          /\ {d \in Deciders : req'[d].pc = "done"} = {d \in Deciders : req[d].pc = "done"}
      BY <2>2, CallbacksLeaveDeciders
    <2>4. user \in [state : States, revision : Nat, transition : Deciders \cup {None},
                    active : SignIns \cup {None}]
      BY DEF ApprovalInv, TypeOK
    <2>5. /\ user' \in [state : States, revision : Nat, transition : Deciders \cup {None},
                        active : SignIns \cup {None}]
          /\ user'.state = user.state /\ user'.revision = user.revision
          /\ user'.transition = user.transition /\ user'.active = s
      BY <2>1, <2>4
    <2>6. /\ regs'[s] = NewReg(t) /\ NewReg(t) \in Reg /\ regs'[s].requested = t
          /\ regs'[s].revoked = None /\ regs'[s].by = None /\ regs'[s].epoch = Len(decisions)
      BY <1>0, <2>1 DEF NewReg, NoReg
    <2>7. ASSUME NEW r \in SignIns \ {s}
          PROVE  /\ regs'[r] \in Reg
                 /\ ~ (regs'[r].requested # None /\ regs'[r].revoked = None)
                 /\ regs'[r].revoked # None => regs'[r].requested # None
                 /\ regs[r] = NoReg => regs'[r] = NoReg
                 /\ regs'[r].by # None => regs'[r].revoked # None
                 /\ regs'[r].revoked # None => regs'[r].revoked >= regs'[r].requested
      <3>1. /\ revoked[r] \in Reg
            /\ revoked[r].requested = regs[r].requested
            /\ ~ (revoked[r].requested # None /\ revoked[r].revoked = None)
            /\ revoked[r].revoked # None => regs[r].requested # None
            /\ regs[r] = NoReg => revoked[r] = NoReg
            /\ revoked[r].by # None => revoked[r].revoked # None
            /\ revoked[r].revoked # None => revoked[r].revoked >= revoked[r].requested
        BY <1>0, <2>1, Revoking
      <3>2. regs'[r] = linked(r) /\ t # None
        BY <1>0, <2>1 DEF ApprovalConstants
      <3> HIDE DEF revoked
      <3>3. CASE revoked[r].revoked = t /\ revoked[r].by = None
        <4>1. regs'[r] = [revoked[r] EXCEPT !.by = s]
          BY <3>2, <3>3
        <4>2. /\ regs'[r] \in Reg /\ regs'[r].requested = revoked[r].requested
              /\ regs'[r].revoked = revoked[r].revoked
          BY <3>1, <4>1
        <4>3. revoked[r] # NoReg
          BY <3>2, <3>3 DEF NoReg
        <4> QED BY <3>1, <3>2, <3>3, <4>2, <4>3
      <3>4. CASE ~ (revoked[r].revoked = t /\ revoked[r].by = None)
        <4>1. regs'[r] = revoked[r]
          BY <3>2, <3>4
        <4> QED BY <3>1, <4>1
      <3> QED BY <3>3, <3>4
    <2>8. s # None /\ t # None
      BY <1>0 DEF ApprovalConstants
    <2>9. TypeOK'
      <3>1. regs' \in [SignIns -> Reg]
        BY <2>1, <2>6, <2>7
      <3>2. clock' \in Nat /\ alerts' \subseteq SignIns /\ notices' \subseteq Deciders
            /\ decisions' \in Seq([from : States, to : AccountStates, seen : Nat])
        BY <2>1 DEF ApprovalInv, TypeOK
      <3>3. \A r \in SignIns : /\ regs'[r].revoked # None => regs'[r].revoked >= regs'[r].requested
                               /\ regs'[r].by # None => regs'[r].revoked # None
        BY <2>6, <2>7
      <3> QED BY SMTT(30), <2>3, <2>5, <3>1, <3>2, <3>3 DEF TypeOK, Local
    <2>10. RowsFit'
      <3>1. \A r \in SignIns : /\ regs'[r].revoked # None => regs'[r].requested # None
                               /\ req'[r].pc # "done" => regs'[r] = NoReg
        BY <2>3, <2>6, <2>7 DEF ApprovalInv, RowsFit
      <3>2. user'.state # "none" => user'.revision = Len(decisions')
        BY <2>1, <2>5 DEF ApprovalInv, RowsFit
      <3>3. user'.state # "none"
        BY <2>1, <2>5
      <3> QED BY <3>1, <3>2, <3>3 DEF RowsFit
    <2>11. DecidersFit' /\ SignInsFit'
      BY <2>1, <2>3, <2>5 DEF ApprovalInv, DecidersFit, SignInsFit, SignInPcs
    <2>12. NoticesFit' /\ DecidedIsNotified' /\ DecisionsFormAHistory' /\ NoStaleDecision'
      BY <2>1, <2>3, <2>5 DEF ApprovalInv, NoticesFit, DecidedIsNotified, DecisionsFormAHistory,
                              NoStaleDecision
    <2>13. Open(s)' /\ \A r \in SignIns \ {s} : ~ Open(r)'
      BY <2>6, <2>7, <2>8 DEF Open
    <2>14. MarkerNamesTheOpenRequest'
      BY <2>5, <2>8, <2>13 DEF MarkerNamesTheOpenRequest
    <2>15. ReceiptEndsWithDecision'
      BY <2>1, <2>5, <2>6, <2>13 DEF ReceiptEndsWithDecision, ReceiptIsValid
    <2> QED BY <2>9, <2>10, <2>11, <2>12, <2>14, <2>15 DEF ApprovalInv
  <1> QED BY <1>1, <1>2

-----------------------------------------------------------------------------
LEMMA ApprovalInvNext == ApprovalConstants /\ ApprovalInv /\ [Next]_vars => ApprovalInv'
  <1> SUFFICES ASSUME ApprovalConstants, ApprovalInv, [Next]_vars PROVE ApprovalInv'
    OBVIOUS
  <1>1. CASE UNCHANGED vars
    <2>1. TypeOK' /\ RowsFit' /\ DecidersFit' /\ SignInsFit'
      BY <1>1 DEF vars, ApprovalInv, TypeOK, RowsFit, DecidersFit, SignInsFit
    <2>2. /\ NoticesFit' /\ DecidedIsNotified' /\ DecisionsFormAHistory' /\ NoStaleDecision'
          /\ ReceiptEndsWithDecision'
      BY <1>1 DEF vars, ApprovalInv, NoticesFit, DecidedIsNotified, DecisionsFormAHistory,
                  NoStaleDecision, ReceiptEndsWithDecision, ReceiptIsValid, Open
    <2>3. MarkerNamesTheOpenRequest'
      BY <1>1 DEF vars, ApprovalInv, MarkerNamesTheOpenRequest, Open
    <2> QED BY <2>1, <2>2, <2>3 DEF ApprovalInv
  <1>2. CASE Tick
    BY <1>2, TickKeeps
  <1>3. ASSUME NEW r \in Deciders \cup SignIns, Arrive(r) PROVE ApprovalInv'
    BY <1>3, ArriveKeeps
  <1>4. ASSUME NEW d \in Deciders, DecisionStep(d) PROVE ApprovalInv'
    BY <1>4, CommitDecisionKeeps, ReadForDecisionKeeps DEF DecisionStep
  <1>5. ASSUME NEW s \in SignIns, SignInStep(s) PROVE ApprovalInv'
    BY <1>5, ReadingKeeps, CreateAccountKeeps, CommitRegistrationKeeps DEF SignInStep
  <1> QED BY <1>1, <1>2, <1>3, <1>4, <1>5 DEF Next

\* However owners' decisions and sign-ins of the learner overlap, with whatever late
\* timestamps: the recorded decisions form one history that ends in the account's state, no
\* decision was made on a view another decision had made stale, each has its notification,
\* the account names its one open registration request, and a decision ends every receipt.
THEOREM ApprovalIsSound ==
    ASSUME ApprovalConstants
    PROVE  Spec => [](/\ TypeOK /\ DecisionsFormAHistory /\ NoStaleDecision /\ DecidedIsNotified
                      /\ MarkerNamesTheOpenRequest /\ ReceiptEndsWithDecision)
  <1>1. ApprovalInv => /\ TypeOK /\ DecisionsFormAHistory /\ NoStaleDecision /\ DecidedIsNotified
                       /\ MarkerNamesTheOpenRequest /\ ReceiptEndsWithDecision
    BY DEF ApprovalInv
  <1>2. Init => ApprovalInv
    BY ApprovalInvInit
  <1>3. ApprovalInv /\ [Next]_vars => ApprovalInv'
    BY ApprovalInvNext
  <1> QED BY <1>1, <1>2, <1>3, PTL DEF Spec
================================================================================
