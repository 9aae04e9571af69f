----------------------------- MODULE SignInProofs -----------------------------
(***************************************************************************)
(* Proofs about the machines of a sign-in, as MCSignIn puts them together: *)
(* first the browser sessions, which have variables of their own and are   *)
(* treated here, then the machines that take turns on the registers, which *)
(* the modules instantiated below tell of.                                 *)
(***************************************************************************)
EXTENDS MCSignIn, TLAPS

-----------------------------------------------------------------------------
(* The browser sessions: the inductive invariant *)

\* A request began in the past.  The session its cookie names was there when it
\* began, so that the request is not older than the session; only a sign-in may
\* have no session, and not while it resolves one.
RequestsFit ==
    \A r \in Requests : req[r].pc # "idle" =>
        /\ req[r].now <= clock
        /\ req[r].token # None => /\ sess[req[r].token].status # "none"
                                  /\ sess[req[r].token].created <= req[r].now
        /\ req[r].op # "signin" \/ req[r].pc \in {"resolve", "evict"} => req[r].token # None

\* What the CHECKs of the table say of row x, and that its ceiling is the one of
\* the sign-in, which is not later than the row.
Sound(x) ==
    /\ x.created < x.expires /\ x.expires <= x.absolute
    /\ x.revoked # None => x.revoked >= x.created
    /\ x.by # None => x.revoked # None
    /\ x.absolute = x.since + AbsoluteSeconds
    /\ x.since <= x.created

\* No session began in the future.
RowsPast == \A s \in Sessions : sess[s].created <= clock

RowsSound == \A s \in Sessions : sess[s].status = "row" => Sound(sess[s])

\* A session is retired in favour of one that begins no earlier than it ends and
\* that may last no shorter: this is why the successor is never purged first.
SuccessorsLater ==
    \A s \in Sessions : sess[s].status = "row" /\ sess[s].by # None =>
        LET q == sess[s].by
        IN  /\ sess[q].status # "none"
            /\ sess[q].status = "row" => /\ sess[q].created >= sess[s].revoked
                                         /\ sess[q].absolute >= sess[s].absolute

\* Every session descends from a sign-in whose id is used, so that a new sign-in
\* starts a family of its own.
RootsUsed ==
    \A s \in Sessions : sess[s].status # "none" =>
        sess[s].root \in Sessions /\ sess[sess[s].root].status # "none"

SessionInv ==
    /\ TypeOK /\ RequestsFit /\ RowsPast /\ RowsSound /\ SuccessorsLater /\ RootsUsed
    /\ NoSessionWithoutApproval /\ OneLiveSessionPerSignIn

-----------------------------------------------------------------------------
(* What an action may do to the rows *)

\* Some live sessions end, none before it began.
SomeRevoked ==
    \A s \in Sessions :
        \/ sess'[s] = sess[s]
        \/ /\ Live(s)
           /\ \E t \in Nat : t >= sess[s].created /\ sess'[s] = [sess[s] EXCEPT !.revoked = t]

\* A live session gets a later expiry under its ceiling.
OneSlid ==
    \E p \in Sessions, t \in Nat :
        /\ Live(p) /\ sess[p].expires < t /\ t <= sess[p].absolute
        /\ sess' = [sess EXCEPT ![p].expires = t]

\* A fresh id s gets row x, and a live session p, if there is one, ends in its
\* favour.  The new row starts a family, or p gives up its place in its own.
Inserted(s, x, p) ==
    /\ sess[s].status = "none"
    /\ x \in Row /\ x.created <= clock
    /\ x.status = "row" /\ x.revoked = None /\ x.by = None /\ Sound(x)
    /\ \/ x.root = s
       \/ p # None /\ x.root = sess[p].root
    /\ p # None => /\ p \in Sessions /\ Live(p)
                   /\ sess[p].created <= x.created /\ sess[p].absolute <= x.absolute
    /\ sess' = [q \in Sessions |-> IF q = s THEN x
                                   ELSE IF q = p
                                   THEN [sess[q] EXCEPT !.revoked = x.created, !.by = s]
                                   ELSE sess[q]]

OneInserted == \E s \in Sessions, x \in Row, p \in Sessions \cup {None} : Inserted(s, x, p)

\* The rows of a set go.
SomePurged ==
    \A s \in Sessions :
        \/ sess'[s] = sess[s]
        \/ sess[s].status = "row" /\ sess'[s] = [NoRow EXCEPT !.status = "purged", !.root = sess[s].root]

\* Ids are never used again and a session's beginning never changes.
IdsStayUsed ==
    \A s \in Sessions : sess[s].status # "none" =>
        sess'[s].status # "none" /\ sess'[s].created <= sess[s].created

\* The rows as the invariant describes them.
RowInv ==
    /\ clock \in Nat /\ sess \in [Sessions -> Row]
    /\ RowsPast /\ RowsSound /\ SuccessorsLater /\ RootsUsed /\ OneLiveSessionPerSignIn

\* Time goes on, and the rows keep their type.
StepTyped == clock' \in Nat /\ clock' >= clock /\ sess' \in [Sessions -> Row]

-----------------------------------------------------------------------------
(* The rows stay sound *)

LEMMA RevokedKeepsRows ==
    ASSUME RowInv, SomeRevoked, StepTyped
    PROVE  RowInv' /\ IdsStayUsed
  <1> USE SessionConstants DEF RowInv, Row, StepTyped
  <1>1. ASSUME NEW s \in Sessions
        PROVE  /\ sess'[s].status = sess[s].status /\ sess'[s].created = sess[s].created
               /\ sess'[s].expires = sess[s].expires /\ sess'[s].absolute = sess[s].absolute
               /\ sess'[s].by = sess[s].by /\ sess'[s].root = sess[s].root
               /\ sess'[s].since = sess[s].since
               /\ sess'[s].revoked = sess[s].revoked
                    \/ (Live(s) /\ sess'[s].revoked \in Nat /\ sess'[s].revoked >= sess[s].created)
    BY DEF SomeRevoked
  <1>2. RowsSound'
    BY <1>1 DEF RowsSound, Sound, Live
  <1>3. SuccessorsLater'
    <2> SUFFICES ASSUME NEW s \in Sessions, sess'[s].status = "row", sess'[s].by # None
                 PROVE  /\ sess'[sess'[s].by].status # "none"
                        /\ sess'[sess'[s].by].status = "row" =>
                              /\ sess'[sess'[s].by].created >= sess'[s].revoked
                              /\ sess'[sess'[s].by].absolute >= sess'[s].absolute
      BY DEF SuccessorsLater
    <2>1. sess[s].by \in Sessions /\ sess[s].status = "row" /\ sess[s].by # None
      BY <1>1
    <2>2. sess'[s].revoked = sess[s].revoked
      BY <1>1, <2>1 DEF RowsSound, Sound, Live
    <2> QED BY <1>1, <2>1, <2>2 DEF SuccessorsLater
  <1>4. RootsUsed'
    BY <1>1 DEF RootsUsed
  <1>5. \A s \in Sessions : Live(s)' => Live(s)
    BY <1>1 DEF Live
  <1>6. OneLiveSessionPerSignIn'
    BY <1>1, <1>5 DEF OneLiveSessionPerSignIn
  <1>7. RowsPast'
    BY <1>1 DEF RowsPast
  <1> QED BY <1>1, <1>2, <1>3, <1>4, <1>6, <1>7 DEF IdsStayUsed

LEMMA SlidKeepsRows ==
    ASSUME RowInv, OneSlid, StepTyped
    PROVE  RowInv' /\ IdsStayUsed
  <1> USE SessionConstants DEF RowInv, Row, StepTyped
  <1>1. ASSUME NEW s \in Sessions
        PROVE  /\ sess'[s].status = sess[s].status /\ sess'[s].created = sess[s].created
               /\ sess'[s].revoked = sess[s].revoked /\ sess'[s].absolute = sess[s].absolute
               /\ sess'[s].by = sess[s].by /\ sess'[s].root = sess[s].root
               /\ sess'[s].since = sess[s].since
               /\ sess'[s].expires >= sess[s].expires
               /\ sess'[s].expires = sess[s].expires \/ sess'[s].expires <= sess[s].absolute
    BY DEF OneSlid
  <1>2. RowsSound'
    BY <1>1 DEF RowsSound, Sound
  <1>3. SuccessorsLater'
    BY <1>1 DEF SuccessorsLater
  <1>4. RootsUsed'
    BY <1>1 DEF RootsUsed
  <1>5. \A s \in Sessions : Live(s)' => Live(s)
    BY <1>1 DEF Live
  <1>6. OneLiveSessionPerSignIn'
    BY <1>1, <1>5 DEF OneLiveSessionPerSignIn
  <1>7. RowsPast'
    BY <1>1 DEF RowsPast
  <1> QED BY <1>1, <1>2, <1>3, <1>4, <1>6, <1>7 DEF IdsStayUsed

LEMMA PurgedKeepsRows ==
    ASSUME RowInv, SomePurged, StepTyped
    PROVE  RowInv' /\ IdsStayUsed
  <1> USE SessionConstants DEF RowInv, Row, StepTyped
  <1>1. ASSUME NEW s \in Sessions
        PROVE  \/ sess'[s] = sess[s]
               \/ /\ sess[s].status = "row" /\ sess'[s].status = "purged"
                  /\ sess'[s].root = sess[s].root /\ sess'[s].created = 0
    BY DEF SomePurged, NoRow
  <1>2. RowsSound'
    BY <1>1 DEF RowsSound, Sound
  <1>3. SuccessorsLater'
    BY <1>1 DEF SuccessorsLater
  <1>4. RootsUsed'
    BY <1>1 DEF RootsUsed
  <1>5. \A s \in Sessions : Live(s)' => Live(s)
    BY <1>1 DEF Live
  <1>6. OneLiveSessionPerSignIn'
    BY <1>1, <1>5 DEF OneLiveSessionPerSignIn
  <1>7. RowsPast'
    BY <1>1 DEF RowsPast
  <1> QED BY <1>1, <1>2, <1>3, <1>4, <1>6, <1>7 DEF IdsStayUsed

LEMMA InsertedKeepsRows ==
    ASSUME RowInv, OneInserted, StepTyped
    PROVE  RowInv' /\ IdsStayUsed
  <1> USE SessionConstants DEF RowInv, Row, StepTyped
  <1>1. PICK s \in Sessions, x \in Row, p \in Sessions \cup {None} : Inserted(s, x, p)
    BY DEF OneInserted
  <1>2. sess'[s] = x /\ x.created \in Nat /\ p # s
    BY <1>1 DEF Inserted, Live
  <1>3. ASSUME NEW q \in Sessions, q # s
        PROVE  /\ sess'[q].status = sess[q].status /\ sess'[q].created = sess[q].created
               /\ sess'[q].expires = sess[q].expires /\ sess'[q].absolute = sess[q].absolute
               /\ sess'[q].root = sess[q].root /\ sess'[q].since = sess[q].since
               /\ q # p => sess'[q] = sess[q]
               /\ q = p => sess'[q].revoked = x.created /\ sess'[q].by = s
    <2>1. sess'[q] = IF q = p THEN [sess[q] EXCEPT !.revoked = x.created, !.by = s] ELSE sess[q]
      BY <1>1, <1>3 DEF Inserted
    <2>2. sess[q] \in Row
      OBVIOUS
    <2>3. CASE q = p
      BY <2>1, <2>2, <2>3
    <2>4. CASE q # p
      BY <2>1, <2>4
    <2> QED BY <2>3, <2>4
  <1>4. RowsSound'
    <2> SUFFICES ASSUME NEW q \in Sessions, sess'[q].status = "row" PROVE Sound(sess'[q])
      BY DEF RowsSound
    <2>1. CASE q = s
      BY <1>1, <1>2, <2>1 DEF Inserted
    <2>2. CASE q # s /\ q # p
      BY <1>3, <2>2 DEF RowsSound
    <2>3. CASE q # s /\ q = p
      <3>1. Sound(sess[q])
        BY <1>3, <2>3 DEF RowsSound
      <3>2. sess[q].created <= x.created
        BY <1>1, <2>3, SessionConstants DEF Inserted
      <3> QED BY <1>2, <1>3, <2>3, <3>1, <3>2 DEF Sound
    <2> QED BY <2>1, <2>2, <2>3
  <1>5. SuccessorsLater'
    <2> SUFFICES ASSUME NEW q \in Sessions, sess'[q].status = "row", sess'[q].by # None
                 PROVE  /\ sess'[sess'[q].by].status # "none"
                        /\ sess'[sess'[q].by].status = "row" =>
                              /\ sess'[sess'[q].by].created >= sess'[q].revoked
                              /\ sess'[sess'[q].by].absolute >= sess'[q].absolute
      BY DEF SuccessorsLater
    <2>1. q # s
      BY <1>1, <1>2 DEF Inserted
    <2>2. CASE q = p
      <3>1. sess'[q].by = s /\ sess'[q].revoked = x.created /\ sess'[q].absolute = sess[q].absolute
        BY <1>3, <2>1, <2>2
      <3>2. sess[q].absolute <= x.absolute /\ x.status = "row"
        BY <1>1, <2>2 DEF Inserted
      <3> QED BY <1>2, <3>1, <3>2
    <2>3. CASE q # p
      <3>1. sess'[q] = sess[q] /\ sess[q].by \in Sessions
        BY <1>3, <2>1, <2>3
      <3>2. sess[sess[q].by].status # "none" /\ sess[q].by # s
        <4>1. sess[q].by # None /\ sess[q].status = "row" /\ sess[s].status = "none"
          BY <1>1, <3>1 DEF Inserted
        <4> QED BY <3>1, <4>1 DEF SuccessorsLater
      <3> QED BY <1>3, <3>1, <3>2 DEF SuccessorsLater
    <2> QED BY <2>2, <2>3
  <1>6. RootsUsed'
    <2> SUFFICES ASSUME NEW q \in Sessions, sess'[q].status # "none"
                 PROVE  sess'[q].root \in Sessions /\ sess'[sess'[q].root].status # "none"
      BY DEF RootsUsed
    <2>1. CASE q = s /\ x.root = s
      BY <1>1, <1>2, <2>1 DEF Inserted
    <2>2. CASE q = s /\ x.root # s
      <3>1. p \in Sessions /\ x.root = sess[p].root /\ sess[p].status # "none"
        BY <1>1, <2>2 DEF Inserted, Live
      <3> QED BY <1>2, <1>3, <2>2, <3>1 DEF RootsUsed
    <2>3. CASE q # s
      <3>1. sess[q].status # "none" /\ sess'[q].root = sess[q].root
        BY <1>3, <2>3
      <3>2. sess[q].root \in Sessions /\ sess[sess[q].root].status # "none"
        BY <3>1 DEF RootsUsed
      <3>3. sess[q].root # s
        BY <1>1, <3>2 DEF Inserted
      <3> QED BY <1>3, <3>1, <3>2, <3>3
    <2> QED BY <2>1, <2>2, <2>3
  <1>7. OneLiveSessionPerSignIn'
    <2>1. ASSUME NEW q \in Sessions, q # s, Live(q)'
          PROVE  Live(q) /\ q # p /\ sess'[q].root = sess[q].root
      BY <1>1, <1>2, <1>3, <2>1 DEF Live
    <2>2. ASSUME NEW q \in Sessions, q # s, Live(q)' PROVE sess[q].root # x.root
      <3>1. Live(q) /\ q # p
        BY <2>1, <2>2
      <3>2. sess[q].root # s
        BY <1>1, <3>1 DEF RootsUsed, Live, Inserted
      <3> QED BY <1>1, <3>1, <3>2 DEF OneLiveSessionPerSignIn, Inserted
    <2> SUFFICES ASSUME NEW a \in Sessions, NEW b \in Sessions, Live(a)', Live(b)',
                        sess'[a].root = sess'[b].root
                 PROVE  a = b
      BY DEF OneLiveSessionPerSignIn
    <2>3. CASE a # s /\ b # s
      BY <2>1, <2>3 DEF OneLiveSessionPerSignIn
    <2>4. CASE a = s \/ b = s
      BY <1>2, <2>1, <2>2, <2>4
    <2> QED BY <2>3, <2>4
  <1>8. IdsStayUsed
    <2>1. sess[s].status = "none"
      BY <1>1 DEF Inserted
    <2> QED BY <1>3, <2>1 DEF IdsStayUsed
  <1>9. RowsPast'
    <2>1. x.created <= clock
      BY <1>1 DEF Inserted
    <2> QED BY <1>2, <1>3, <2>1 DEF RowsPast
  <1> QED BY <1>4, <1>5, <1>6, <1>7, <1>8, <1>9

-----------------------------------------------------------------------------
(* What an action does to the requests *)

\* A request stays, ends, begins with the cookie of a session that exists, or
\* goes on with the time it has and with its session or, in a sign-in, without.
RequestMove(r) ==
    \/ req'[r] = req[r]
    \/ req'[r].pc = "idle"
    \/ /\ req'[r].now = clock
       /\ req'[r].token # None => sess[req'[r].token].status = "row"
       /\ req'[r].op # "signin" => req'[r].token # None
       /\ req'[r].pc \in {"account", "resolve"}
       /\ req'[r].pc = "resolve" => req'[r].op # "signin"
    \/ /\ req[r].pc # "idle" /\ req'[r].now = req[r].now /\ req'[r].op = req[r].op
       /\ \/ req'[r].token = req[r].token
          \/ req'[r].token = None /\ req[r].op = "signin"
       /\ req'[r].pc \in {"resolve", "evict"} => req'[r].token # None

RequestsMove == \A r \in Requests : RequestMove(r)

Request == [pc : {"idle", "account", "resolve", "evict", "commit"},
            op : {"none", "signin", "session", "renew", "signout"},
            now : Nat, token : Sessions \cup {None}, expires : Nat]

LEMMA RequestsStayFit ==
    ASSUME TypeOK, RequestsFit, RowsPast, RequestsMove, IdsStayUsed,
           StepTyped, req' \in [Requests -> Request]
    PROVE  RequestsFit'
  <1> SUFFICES ASSUME NEW r \in Requests, req'[r].pc # "idle"
               PROVE  /\ req'[r].now <= clock'
                      /\ req'[r].token # None =>
                            /\ sess'[req'[r].token].status # "none"
                            /\ sess'[req'[r].token].created <= req'[r].now
                      /\ req'[r].op # "signin" \/ req'[r].pc \in {"resolve", "evict"}
                            => req'[r].token # None
    BY DEF RequestsFit
  <1> USE SessionConstants DEF TypeOK, Row, Request, StepTyped
  <1>0. RequestMove(r) /\ req[r].now \in Nat /\ req'[r].now \in Nat
    BY DEF RequestsMove
  <1>1. ASSUME NEW q \in Sessions, sess[q].status # "none"
        PROVE  /\ sess'[q].status # "none" /\ sess'[q].created <= sess[q].created
               /\ sess'[q].created \in Nat /\ sess[q].created \in Nat
    BY <1>1 DEF IdsStayUsed
  <1>2. CASE req'[r] = req[r]
    BY <1>0, <1>1, <1>2 DEF RequestsFit
  <1>3. CASE req'[r].now = clock /\ (req'[r].token # None => sess[req'[r].token].status = "row")
             /\ (req'[r].op # "signin" => req'[r].token # None)
             /\ (req'[r].pc = "resolve" => req'[r].op # "signin")
             /\ req'[r].pc \in {"account", "resolve"}
    BY <1>1, <1>3 DEF RowsPast
  <1>4. CASE /\ req[r].pc # "idle" /\ req'[r].now = req[r].now /\ req'[r].op = req[r].op
             /\ \/ req'[r].token = req[r].token
                \/ req'[r].token = None /\ req[r].op = "signin"
             /\ req'[r].pc \in {"resolve", "evict"} => req'[r].token # None
    BY <1>0, <1>1, <1>4 DEF RequestsFit
  <1> QED BY <1>0, <1>2, <1>3, <1>4 DEF RequestMove

-----------------------------------------------------------------------------
(* Every action does one of these *)

RowsMove == SomeRevoked \/ OneSlid \/ OneInserted \/ SomePurged

\* What is shown of each step.
StepOK ==
    /\ TypeOK' /\ clock' >= clock
    /\ RowsMove /\ RequestsMove /\ NoSessionWithoutApproval'

LEMMA StepKeepsSessionInv ==
    ASSUME SessionInv, StepOK PROVE SessionInv'
  <1>1. RowInv /\ StepTyped
    BY DEF SessionInv, StepOK, RowInv, StepTyped, TypeOK
  <1>2. RowInv' /\ IdsStayUsed
    BY <1>1, RevokedKeepsRows, SlidKeepsRows, InsertedKeepsRows, PurgedKeepsRows
       DEF StepOK, RowsMove
  <1>3. RequestsFit'
    BY <1>1, <1>2, RequestsStayFit DEF SessionInv, StepOK, TypeOK, Request
  <1> QED BY <1>2, <1>3 DEF SessionInv, StepOK, RowInv

LEMMA TickOK == ASSUME SessionInv, Tick PROVE StepOK
  BY SessionConstants DEF SessionInv, Tick, StepOK, TypeOK, RowsMove, SomeRevoked, RequestsMove, RequestMove,
     NoSessionWithoutApproval, Live

LEMMA BeginOK ==
    ASSUME SessionInv, NEW r \in Requests, NEW op \in {"signin", "session", "renew", "signout"},
           NEW token \in Sessions \cup {None}, Begin(r, op, token)
    PROVE  StepOK
  <1> USE SessionConstants DEF SessionInv, Begin, TypeOK, Idle
  <1>1. TypeOK'
    OBVIOUS
  <1>2. RequestsMove
    BY DEF RequestsMove, RequestMove
  <1> QED BY <1>1, <1>2 DEF StepOK, RowsMove, SomeRevoked, NoSessionWithoutApproval, Live

LEMMA ReadAccountOK ==
    ASSUME SessionInv, NEW r \in Requests, ReadAccount(r) PROVE StepOK
  <1> USE SessionConstants DEF SessionInv, ReadAccount, TypeOK, Idle
  <1>1. TypeOK'
    OBVIOUS
  <1>2. RequestsMove
    BY DEF RequestsMove, RequestMove
  <1> QED BY <1>1, <1>2 DEF StepOK, RowsMove, SomeRevoked, NoSessionWithoutApproval, Live

\* A request that has a session to resolve, and what it becomes without it.
LEMMA UnresolvedFits ==
    ASSUME SessionInv, NEW r \in Requests, req[r].pc \in {"resolve", "evict"}
    PROVE  /\ req[r].token \in Sessions
           /\ Unresolved(r) \in Request
           /\ \/ Unresolved(r).pc = "idle"
              \/ /\ Unresolved(r).now = req[r].now /\ Unresolved(r).op = req[r].op
                 /\ Unresolved(r).token = None /\ req[r].op = "signin"
                 /\ Unresolved(r).pc = "commit"
  BY SessionConstants DEF SessionInv, RequestsFit, TypeOK, Unresolved, Idle, Request

LEMMA ResolveOK ==
    ASSUME SessionInv, NEW r \in Requests, Resolve(r) PROVE StepOK
  <1> USE SessionConstants DEF SessionInv
  <1>1. /\ req[r] \in Request /\ req[r].pc = "resolve" /\ req[r].token \in Sessions
        /\ req \in [Requests -> Request]
    BY UnresolvedFits DEF TypeOK, Resolve, Request
  <1>2. PICK x \in Request :
           /\ req' = [req EXCEPT ![r] = x]
           /\ x.pc = "idle" \/ /\ x.now = req[r].now /\ x.op = req[r].op
                               /\ x.token = req[r].token \/ (x.token = None /\ req[r].op = "signin")
                               /\ x.pc \in {"resolve", "evict"} => x.token # None
    <2>1. CASE Resolves(r) /\ Admits /\ req' = [req EXCEPT ![r] = Resolved(r)]
      <3>1. Resolved(r) \in Request
        BY <1>1 DEF Resolved, Request, TypeOK, Row
      <3> QED BY ZenonT(40), <1>1, <2>1, <3>1 DEF Resolved, Request
    <2>2. CASE req' = [req EXCEPT ![r].pc = "evict"]
      <3>1. [req[r] EXCEPT !.pc = "evict"] \in Request
        BY <1>1 DEF Request
      <3>2. req' = [req EXCEPT ![r] = [req[r] EXCEPT !.pc = "evict"]]
        BY <2>2
      <3> QED BY <1>1, <3>1, <3>2 DEF Request
    <2>3. CASE req' = [req EXCEPT ![r] = Unresolved(r)]
      BY <1>1, <2>3, UnresolvedFits
    <2> QED BY <2>1, <2>2, <2>3 DEF Resolve
  <1>3. TypeOK'
    BY <1>1, <1>2 DEF TypeOK, Resolve, Request
  <1>4. RequestsMove
    BY <1>1, <1>2 DEF RequestsMove, RequestMove
  <1> QED BY <1>3, <1>4 DEF StepOK, RowsMove, SomeRevoked, NoSessionWithoutApproval, Live, Resolve, TypeOK

\* A request that is idle afterwards, with the other requests as they were.
LEMMA OneEnds ==
    ASSUME TypeOK, NEW r \in Requests, req' = [req EXCEPT ![r] = Idle]
    PROVE  RequestsMove /\ req' \in [Requests -> Request]
  BY SessionConstants DEF TypeOK, RequestsMove, RequestMove, Idle, Request

\* One live session, or none, ends at a time that is not before its start.
LEMMA OneRevoked ==
    ASSUME TypeOK, NEW s \in Sessions, NEW t \in Nat, Live(s) => t >= sess[s].created,
           sess' = IF Live(s) THEN [sess EXCEPT ![s].revoked = t] ELSE sess
    PROVE  /\ SomeRevoked /\ sess' \in [Sessions -> Row]
           /\ \A q \in Sessions : Live(q)' => Live(q)
  BY SessionConstants DEF TypeOK, SomeRevoked, Row, Live

LEMMA EvictOK ==
    ASSUME SessionInv, NEW r \in Requests, Evict(r) PROVE StepOK
  <1> USE SessionConstants DEF SessionInv
  <1>1. req[r].pc = "evict" /\ req[r].token \in Sessions /\ req \in [Requests -> Request]
    BY UnresolvedFits DEF Evict, TypeOK, Request
  <1> DEFINE t == RevokedAt(req[r].token, req[r].now)
  <1>2. t \in Nat /\ t >= sess[req[r].token].created
    BY <1>1 DEF RevokedAt, Later, TypeOK, Row
  <1>3. /\ SomeRevoked /\ sess' \in [Sessions -> Row]
        /\ \A q \in Sessions : Live(q)' => Live(q)
    <2>1. sess' = IF Live(req[r].token) THEN [sess EXCEPT ![req[r].token].revoked = t] ELSE sess
      BY DEF Evict
    <2> HIDE DEF t
    <2> QED BY <1>1, <1>2, <2>1, OneRevoked
  <1>4. req' \in [Requests -> Request] /\ RequestsMove
    BY <1>1, UnresolvedFits DEF Evict, RequestsMove, RequestMove
  <1>5. TypeOK'
    BY <1>3, <1>4 DEF TypeOK, Evict, Request
  <1> QED BY <1>3, <1>4, <1>5 DEF StepOK, RowsMove, NoSessionWithoutApproval, Evict, TypeOK

LEMMA SignOutOK ==
    ASSUME SessionInv, NEW r \in Requests, SignOut(r) PROVE StepOK
  <1> USE SessionConstants DEF SessionInv
  <1>1. /\ req[r].token \in Sessions /\ req[r].now \in Nat
        /\ sess[req[r].token].created <= req[r].now
    BY DEF SignOut, RequestsFit, TypeOK
  <1>2. /\ SomeRevoked /\ sess' \in [Sessions -> Row]
        /\ \A q \in Sessions : Live(q)' => Live(q)
    BY <1>1, OneRevoked DEF SignOut, TypeOK, Row
  <1>3. req' \in [Requests -> Request] /\ RequestsMove
    BY OneEnds DEF SignOut
  <1>4. TypeOK'
    BY <1>2, <1>3 DEF TypeOK, SignOut, Request
  <1> QED BY <1>2, <1>3, <1>4 DEF StepOK, RowsMove, NoSessionWithoutApproval, SignOut, TypeOK

LEMMA SlideOK ==
    ASSUME SessionInv, NEW r \in Requests, Slide(r) PROVE StepOK
  <1> USE SessionConstants DEF SessionInv
  <1>1. req[r].token \in Sessions /\ req[r].now \in Nat
    BY DEF Slide, RequestsFit, TypeOK
  <1> DEFINE p == req[r].token
             t == SlideTarget(r)
  <1>2. t \in Nat /\ t <= sess[p].absolute
    BY <1>1 DEF SlideTarget, Least, TypeOK, Row
  <1>3. RowsMove /\ sess' \in [Sessions -> Row] /\ \A q \in Sessions : Live(q)' => Live(q)
    <2>1. CASE Slides(r)
      <3>1. sess' = [sess EXCEPT ![p].expires = t] /\ Live(p) /\ sess[p].expires < t
        BY <2>1 DEF Slide, Slides
      <3>2. p \in Sessions /\ sess \in [Sessions -> Row]
        BY <1>1 DEF TypeOK
      <3> HIDE DEF p, t
      <3>3. OneSlid
        BY <1>2, <3>1, <3>2 DEF OneSlid
      <3>4. sess' \in [Sessions -> Row] /\ \A q \in Sessions : Live(q)' => Live(q)
        BY <1>2, <3>1, <3>2 DEF Row, Live
      <3> QED BY <3>3, <3>4 DEF RowsMove
    <2>2. CASE ~ Slides(r)
      BY <2>2 DEF Slide, SomeRevoked, RowsMove, TypeOK, Live
    <2> QED BY <2>1, <2>2
  <1>4. req' \in [Requests -> Request] /\ RequestsMove
    BY OneEnds DEF Slide
  <1>5. TypeOK'
    BY <1>3, <1>4 DEF TypeOK, Slide, Request
  <1> QED BY <1>3, <1>4, <1>5 DEF StepOK, NoSessionWithoutApproval, Slide, TypeOK

\* A table in which a row is new and another session ended is a table of rows.
LEMMA InsertedType ==
    ASSUME sess \in [Sessions -> Row],
           NEW s \in Sessions, NEW x \in Row, NEW p \in Sessions \cup {None}, Inserted(s, x, p)
    PROVE  sess' \in [Sessions -> Row]
  <1> DEFINE New(q) == IF q = s THEN x
                       ELSE IF q = p THEN [sess[q] EXCEPT !.revoked = x.created, !.by = s]
                       ELSE sess[q]
  <1>1. ASSUME NEW q \in Sessions PROVE New(q) \in Row
    BY DEF Row
  <1>2. sess' = [q \in Sessions |-> New(q)]
    BY DEF Inserted
  <1> HIDE DEF New
  <1> QED BY <1>1, <1>2

LEMMA SignInOK ==
    ASSUME SessionInv, NEW r \in Requests, NEW s \in Sessions, SignIn(r, s) PROVE StepOK
  <1> USE SessionConstants DEF SessionInv
  <1> DEFINE now == req[r].now
             prior == req[r].token
             p == IF prior # None /\ Live(prior) THEN prior ELSE None
             x == SignedIn(s, now)
  <1>1. /\ now \in Nat /\ now <= clock /\ prior \in Sessions \cup {None}
        /\ prior # None => sess[prior].created <= now
        /\ sess \in [Sessions -> Row] /\ sess[s].status = "none"
    BY DEF SignIn, RequestsFit, TypeOK
  <1>2. x \in Row /\ x.status = "row" /\ x.revoked = None /\ x.by = None /\ x.root = s
        /\ x.created = now /\ x.absolute = now + AbsoluteSeconds /\ Sound(x)
    BY <1>1 DEF SignedIn, Row, Sound
  <1>3. p # None => p \in Sessions /\ Live(p) /\ sess[p].created <= x.created
                    /\ sess[p].absolute <= x.absolute
    <2> SUFFICES ASSUME p # None PROVE p \in Sessions /\ Live(p) /\ sess[p].created <= x.created
                                       /\ sess[p].absolute <= x.absolute
      OBVIOUS
    <2>1. p \in Sessions /\ Live(p) /\ sess[p].created <= now
      BY <1>1
    <2>2. Sound(sess[p]) /\ sess[p] \in Row
      BY <1>1, <2>1 DEF RowsSound, Live
    <2> QED BY <1>1, <1>2, <2>1, <2>2 DEF Sound, Row
  <1>4. ASSUME approved PROVE OneInserted /\ sess' \in [Sessions -> Row]
    <2>1. p \in Sessions \cup {None} /\ p # s
      BY <1>1, <1>3 DEF Live
    <2>2. sess' = [q \in Sessions |-> IF q = s THEN x
                                      ELSE IF q = p
                                      THEN [sess[q] EXCEPT !.revoked = x.created, !.by = s]
                                      ELSE sess[q]]
      <3>1. CASE prior # None /\ Live(prior)
        <4>1. sess' = [[sess EXCEPT ![s] = x] EXCEPT ![prior].revoked = now, ![prior].by = s]
          BY <1>4, <3>1 DEF SignIn
        <4>2. p = prior /\ x.created = now
          BY <1>2, <3>1
        <4> HIDE DEF x, p
        <4> QED BY <1>1, <2>1, <4>1, <4>2 DEF Row
      <3>2. CASE ~ (prior # None /\ Live(prior))
        <4>1. sess' = [sess EXCEPT ![s] = x]
          BY <1>4, <3>2 DEF SignIn
        <4>2. p = None
          BY <3>2
        <4> HIDE DEF x, p
        <4> QED BY <1>1, <4>1, <4>2
      <3> QED BY <3>1, <3>2
    <2> HIDE DEF x, p
    <2>3. Inserted(s, x, p)
      BY <1>1, <1>2, <1>3, <2>2 DEF Inserted
    <2>4. sess' \in [Sessions -> Row]
      BY <1>1, <1>2, <2>1, <2>3, InsertedType
    <2>5. OneInserted
      BY <1>2, <2>1, <2>3 DEF OneInserted
    <2> QED BY <1>4, <2>4, <2>5
  <1>5. RowsMove /\ sess' \in [Sessions -> Row] /\ NoSessionWithoutApproval'
    <2>1. CASE approved
      BY <1>4, <2>1 DEF RowsMove, NoSessionWithoutApproval, SignIn
    <2>2. CASE ~ approved
      BY <1>1, <2>2 DEF RowsMove, SomeRevoked, NoSessionWithoutApproval, SignIn, Live
    <2> QED BY <2>1, <2>2
  <1>6. req' \in [Requests -> Request] /\ RequestsMove
    BY OneEnds DEF SignIn
  <1>7. TypeOK'
    BY <1>5, <1>6 DEF TypeOK, SignIn, Request
  <1> QED BY <1>5, <1>6, <1>7 DEF StepOK, SignIn, TypeOK

LEMMA RotateOK ==
    ASSUME SessionInv, NEW r \in Requests, NEW s \in Sessions, Rotate(r, s) PROVE StepOK
  <1> USE SessionConstants DEF SessionInv
  <1> DEFINE now == req[r].now
             old == req[r].token
             x == Rotated(r)
  <1>1. /\ now \in Nat /\ now <= clock /\ old \in Sessions
        /\ sess[old].created <= now
        /\ sess \in [Sessions -> Row] /\ sess[s].status = "none"
    BY DEF Rotate, RequestsFit, TypeOK
  <1>2. ASSUME Rotates(r) PROVE OneInserted /\ sess' \in [Sessions -> Row]
    <2>1. Live(old) /\ sess[old].absolute > now /\ Sound(sess[old]) /\ sess[old] \in Row /\ old # s
      BY <1>1, <1>2 DEF Rotates, RowsSound, Live
    <2>2. /\ x \in Row /\ x.status = "row" /\ x.revoked = None /\ x.by = None
          /\ x.root = sess[old].root /\ x.created = now /\ x.absolute = sess[old].absolute
          /\ x.since = sess[old].since
          /\ x.expires = Least(sess[old].absolute, now + IdleSeconds)
      <3>1. Least(sess[old].absolute, now + IdleSeconds) \in Nat
        BY <1>1, <2>1 DEF Row, Least
      <3>2. x = [sess[old] EXCEPT !.created = now, !.revoked = None, !.by = None,
                                  !.expires = Least(sess[old].absolute, now + IdleSeconds)]
        BY DEF Rotated
      <3> HIDE DEF x
      <3> QED BY <1>1, <2>1, <3>1, <3>2 DEF Row, Live
    <2>3. Sound(x)
      BY <1>1, <2>1, <2>2 DEF Sound, Row, Least
    <2>4. sess' = [q \in Sessions |-> IF q = s THEN x
                                      ELSE IF q = old
                                      THEN [sess[q] EXCEPT !.revoked = x.created, !.by = s]
                                      ELSE sess[q]]
      <3>1. sess' = [[sess EXCEPT ![s] = x] EXCEPT ![old].revoked = now, ![old].by = s]
        BY <1>2, <2>1 DEF Rotate
      <3> HIDE DEF x
      <3> QED BY <1>1, <2>1, <2>2, <3>1 DEF Row
    <2> HIDE DEF x
    <2>5. Inserted(s, x, old)
      <3>1. sess[old].created <= x.created /\ sess[old].absolute <= x.absolute /\ x.created <= clock
        BY <1>1, <2>1, <2>2 DEF Row
      <3> QED BY <1>1, <2>1, <2>2, <2>3, <2>4, <3>1 DEF Inserted
    <2>6. sess' \in [Sessions -> Row]
      BY <1>1, <2>2, <2>5, InsertedType
    <2> QED BY <1>1, <2>2, <2>5, <2>6 DEF OneInserted
  <1>3. RowsMove /\ sess' \in [Sessions -> Row] /\ NoSessionWithoutApproval'
    <2>1. CASE Rotates(r)
      BY <1>2, <2>1 DEF RowsMove, NoSessionWithoutApproval, Rotate, Rotates
    <2>2. CASE ~ Rotates(r)
      BY <1>1, <2>2 DEF RowsMove, SomeRevoked, NoSessionWithoutApproval, Rotate, Live
    <2> QED BY <2>1, <2>2
  <1>4. req' \in [Requests -> Request] /\ RequestsMove
    BY OneEnds DEF Rotate
  <1>5. TypeOK'
    BY <1>3, <1>4 DEF TypeOK, Rotate, Request
  <1> QED BY <1>3, <1>4, <1>5 DEF StepOK, Rotate, TypeOK

\* The requests do not take part in a decision or a purge.
LEMMA OthersKeepRequests == UNCHANGED req => RequestsMove
  BY DEF RequestsMove, RequestMove

\* What is left of the type invariant when a decision or a purge wrote rows.
LEMMA OthersKeepType ==
    ASSUME TypeOK, sess' \in [Sessions -> Row], approved' \in BOOLEAN, decided' \in Nat,
           UNCHANGED <<clock, req>>
    PROVE  TypeOK' /\ clock' >= clock
  BY DEF TypeOK

LEMMA WithdrawOK ==
    ASSUME SessionInv, NEW t \in 0..clock, Withdraw(t) PROVE StepOK
  <1> USE SessionConstants
  <1>0. t \in Nat /\ sess \in [Sessions -> Row] /\ TypeOK /\ decided \in Nat
    BY DEF TypeOK, SessionInv
  <1>1. ASSUME NEW s \in Sessions
        PROVE  /\ RevokedAt(s, t) \in Nat /\ RevokedAt(s, t) >= sess[s].created
               /\ sess'[s] = IF Live(s) THEN [sess[s] EXCEPT !.revoked = RevokedAt(s, t)] ELSE sess[s]
    BY <1>0 DEF RevokedAt, Later, Row, Withdraw, AllRevoked
  <1>2. SomeRevoked
    BY <1>1 DEF SomeRevoked
  <1>3. sess' \in [Sessions -> Row]
    <2>1. ASSUME NEW s \in Sessions
          PROVE (IF Live(s) THEN [sess[s] EXCEPT !.revoked = RevokedAt(s, t)] ELSE sess[s]) \in Row
      BY <1>0, <1>1 DEF Row
    <2> QED BY <2>1 DEF Withdraw, AllRevoked
  <1>4. \A s \in Sessions : ~ Live(s)'
    <2>1. ASSUME NEW s \in Sessions PROVE sess'[s].status = "row" => sess'[s].revoked # None
      BY <1>0, <1>1 DEF Live, Row
    <2> QED BY <2>1 DEF Live
  <1>5. TypeOK' /\ clock' >= clock
    <2>1. approved' \in BOOLEAN /\ decided' \in Nat /\ UNCHANGED <<clock, req>>
      <3>1. approved' = FALSE /\ decided' = decided + 1 /\ UNCHANGED <<clock, req>>
        BY DEF Withdraw
      <3>2. decided' \in Nat
        BY <1>0, <3>1
      <3>3. approved' \in BOOLEAN
        BY <3>1, Zenon
      <3> QED BY <3>1, <3>2, <3>3
    <2> QED BY <1>0, <1>3, <2>1, OthersKeepType
  <1> QED BY <1>2, <1>4, <1>5, OthersKeepRequests DEF StepOK, RowsMove, NoSessionWithoutApproval, Withdraw

LEMMA ApproveOK == ASSUME SessionInv, Approve PROVE StepOK
  BY OthersKeepRequests, SessionConstants
     DEF SessionInv, Approve, StepOK, RowsMove, SomeRevoked, NoSessionWithoutApproval, TypeOK

LEMMA MergeOK ==
    ASSUME SessionInv, NEW t \in 0..clock, Merge(t) PROVE StepOK
  <1> USE SessionConstants DEF SessionInv
  <1>0. t \in Nat /\ sess \in [Sessions -> Row]
    BY DEF TypeOK
  <1>1. ASSUME NEW s \in Sessions
        PROVE  /\ Live(s) => t >= sess[s].created
               /\ sess'[s] = IF Live(s) THEN [sess[s] EXCEPT !.revoked = t] ELSE sess[s]
    BY <1>0 DEF Row, Merge
  <1>2. SomeRevoked
    BY <1>0, <1>1 DEF SomeRevoked
  <1>3. sess' \in [Sessions -> Row]
    <2>1. ASSUME NEW s \in Sessions
          PROVE (IF Live(s) THEN [sess[s] EXCEPT !.revoked = t] ELSE sess[s]) \in Row
      BY <1>0 DEF Row
    <2> QED BY <2>1 DEF Merge
  <1>4. \A s \in Sessions : Live(s)' => Live(s)
    BY <1>0, <1>1 DEF Live, Row
  <1>5. TypeOK' /\ clock' >= clock
    <2>1. approved' \in BOOLEAN /\ decided' \in Nat /\ UNCHANGED <<clock, req>>
      BY DEF Merge, TypeOK
    <2> QED BY <1>3, <2>1, OthersKeepType
  <1> QED BY <1>2, <1>4, <1>5, OthersKeepRequests DEF StepOK, RowsMove, NoSessionWithoutApproval, Merge

LEMMA PurgeOK ==
    ASSUME SessionInv, Purge PROVE StepOK
  <1> USE SessionConstants DEF SessionInv
  <1> DEFINE Gone(s) == [NoRow EXCEPT !.status = "purged", !.root = sess[s].root]
  <1>0. sess \in [Sessions -> Row]
    BY DEF TypeOK
  <1>1. ASSUME NEW s \in Sessions
        PROVE  /\ Gone(s) \in Row /\ Gone(s).status = "purged"
               /\ Retired(s, clock) => sess[s].status = "row"
    BY <1>0 DEF NoRow, Row, Retired
  <1>2. sess' = [s \in Sessions |-> IF Retired(s, clock) THEN Gone(s) ELSE sess[s]]
    BY DEF Purge
  <1> HIDE DEF Gone
  <1>3. sess' \in [Sessions -> Row]
    BY <1>0, <1>1, <1>2
  <1>4. \A s \in Sessions : Live(s)' => Live(s)
    BY <1>1, <1>2 DEF Live
  <1>5. SomePurged
    BY <1>1, <1>2 DEF SomePurged, Gone
  <1>6. TypeOK' /\ clock' >= clock
    <2>1. approved' \in BOOLEAN /\ decided' \in Nat /\ UNCHANGED <<clock, req>>
      BY DEF Purge, TypeOK
    <2> QED BY <1>3, <2>1, OthersKeepType
  <1> QED BY <1>4, <1>5, <1>6, OthersKeepRequests DEF StepOK, RowsMove, NoSessionWithoutApproval, Purge

-----------------------------------------------------------------------------
(* Theorems *)

LEMMA SessionInvInit == Init => SessionInv
  <1> SUFFICES ASSUME Init PROVE SessionInv
    OBVIOUS
  <1> USE SessionConstants
  <1>1. \A s \in Sessions : sess[s] = NoRow \/ (s = Legacy /\ ~ approved /\ sess[s] = SignedIn(s, 0))
    BY DEF Init
  <1>2. /\ NoRow \in Row /\ NoRow.status = "none" /\ NoRow.created = 0
        /\ \A s \in Sessions :
             /\ SignedIn(s, 0) \in Row /\ SignedIn(s, 0).created = 0 /\ SignedIn(s, 0).root = s
             /\ SignedIn(s, 0).by = None /\ Sound(SignedIn(s, 0)) /\ SignedIn(s, 0).status = "row"
    BY DEF NoRow, SignedIn, Row, Sound
  <1>3. sess \in [Sessions -> Row] /\ clock = 0 /\ req = [r \in Requests |-> Idle] /\ decided = 0
    BY <1>2 DEF Init
  <1>3a. approved \in BOOLEAN
    BY Zenon DEF Init
  <1>4. TypeOK /\ RequestsFit
    BY <1>3, <1>3a DEF TypeOK, RequestsFit, Idle
  <1>5. RowsPast /\ RowsSound /\ SuccessorsLater /\ RootsUsed
    BY <1>1, <1>2, <1>3 DEF RowsPast, RowsSound, SuccessorsLater, RootsUsed
  <1>6. NoSessionWithoutApproval /\ OneLiveSessionPerSignIn
    BY <1>1, <1>2 DEF NoSessionWithoutApproval, OneLiveSessionPerSignIn, Live
  <1> QED BY <1>4, <1>5, <1>6 DEF SessionInv

LEMMA NextOK == ASSUME SessionInv, Next PROVE StepOK
  <1>1. CASE Tick
    BY <1>1, TickOK
  <1>2. ASSUME NEW r \in Requests, NEW op \in {"signin", "session", "renew", "signout"},
               NEW token \in Sessions \cup {None}, Begin(r, op, token)
        PROVE  StepOK
    BY <1>2, BeginOK
  <1>3. ASSUME NEW r \in Requests, RequestStep(r) PROVE StepOK
    <2>1. CASE ReadAccount(r) \/ Resolve(r) \/ Evict(r)
      BY <2>1, ReadAccountOK, ResolveOK, EvictOK
    <2>2. CASE Slide(r) \/ SignOut(r)
      BY <2>2, SlideOK, SignOutOK
    <2>3. ASSUME NEW s \in Sessions, SignIn(r, s) \/ Rotate(r, s) PROVE StepOK
      BY <2>3, SignInOK, RotateOK
    <2> QED BY <1>3, <2>1, <2>2, <2>3 DEF RequestStep
  <1>4. ASSUME NEW t \in 0..clock, Withdraw(t) \/ Merge(t) PROVE StepOK
    BY <1>4, WithdrawOK, MergeOK
  <1>5. CASE Approve \/ Purge
    BY <1>5, ApproveOK, PurgeOK
  <1> QED BY <1>1, <1>2, <1>3, <1>4, <1>5 DEF Next

LEMMA SessionInvNext == SessionInv /\ [Next]_vars => SessionInv'
  <1>1. ASSUME SessionInv, Next PROVE SessionInv'
    BY <1>1, NextOK, StepKeepsSessionInv
  <1>2. ASSUME SessionInv, UNCHANGED vars PROVE SessionInv'
    BY <1>2 DEF vars, SessionInv, TypeOK, RequestsFit, RowsPast, RowsSound, SuccessorsLater,
                RootsUsed, NoSessionWithoutApproval, OneLiveSessionPerSignIn, Live
  <1> QED BY <1>1, <1>2

\* The rows of browser_sessions and the requests' variables keep their types,
\* whatever requests, decisions, merges and purges overlap.
THEOREM SessionTypes == Spec => []TypeOK
  <1>1. SessionInv => TypeOK
    BY DEF SessionInv
  <1> QED BY <1>1, SessionInvInit, SessionInvNext, PTL DEF Spec

\* No sign-in or renewal, however it overlaps with a decision that withdraws the
\* approval, leaves a live session behind.
THEOREM ApprovalBoundsSessions == Spec => []NoSessionWithoutApproval
  <1>1. SessionInv => NoSessionWithoutApproval
    BY DEF SessionInv
  <1> QED BY <1>1, SessionInvInit, SessionInvNext, PTL DEF Spec

\* Any number of tabs that renew one sign-in's session at once leave at most one
\* live session.
THEOREM OneSessionSurvivesRenewal == Spec => []OneLiveSessionPerSignIn
  <1>1. SessionInv => OneLiveSessionPerSignIn
    BY DEF SessionInv
  <1> QED BY <1>1, SessionInvInit, SessionInvNext, PTL DEF Spec

\* A successor is never long retired when the session it replaced is not, so the
\* foreign key never makes a purge fail.
LEMMA SuccessorOutlasts ==
    ASSUME SessionInv, NEW s \in Sessions, sess[s].status = "row", sess[s].by # None,
           NEW t \in Nat, Retired(sess[s].by, t)
    PROVE  Retired(s, t)
  <1> USE SessionConstants DEF SessionInv, TypeOK, Row
  <1> DEFINE q == sess[s].by
  <1>1. /\ q \in Sessions /\ sess[q].status = "row"
        /\ sess[q].created >= sess[s].revoked /\ sess[q].absolute >= sess[s].absolute
    BY DEF SuccessorsLater, Retired
  <1>2. Sound(sess[q]) /\ Sound(sess[s]) /\ sess[s].revoked \in Nat
    BY <1>1 DEF RowsSound, Sound
  <1>3. CASE sess[q].absolute + RetainSeconds <= t
    BY <1>1, <1>3 DEF Retired
  <1>4. CASE sess[q].revoked # None /\ sess[q].revoked + RetainSeconds <= t
    <2>1. sess[q].revoked \in Nat /\ sess[q].revoked >= sess[q].created
      BY <1>1, <1>2, <1>4 DEF Sound
    <2> QED BY <1>1, <1>2, <1>4, <2>1 DEF Retired
  <1> QED BY <1>3, <1>4 DEF Retired

\* Any number of slides and renewals keeps a sign-in under its absolute ceiling,
\* no request writes a row that a CHECK refuses, and no retired session is kept
\* from deletion by one that refers to it.
THEOREM SessionLifetimesEnd == Spec => []LifetimesEnd
  <1>1. SessionInv => LifetimesEnd
    <2> SUFFICES ASSUME SessionInv PROVE LifetimesEnd
      OBVIOUS
    <2>1. ASSUME NEW s \in Sessions, sess[s].status = "row", sess[s].by # None,
                 NEW t \in 0..(MaxClock + AbsoluteSeconds + RetainSeconds),
                 Retired(sess[s].by, t)
          PROVE  Retired(s, t)
      BY <2>1, SuccessorOutlasts, SessionConstants
    <2>2. \A s \in Sessions : sess[s].status = "row" => Sound(sess[s])
      BY DEF SessionInv, RowsSound
    <2> QED BY <2>1, <2>2 DEF LifetimesEnd, Sound
  <1> QED BY <1>1, SessionInvInit, SessionInvNext, PTL DEF Spec

\* A slow request never shortens a session that a faster one has slid, nor slides
\* or brings back one that was revoked in between.
THEOREM SlowRequestsNeverShorten == Spec => ExpiryOnlyGrows
  <1> DEFINE Grows == \A s \in Sessions : sess[s].status = "row" /\ sess'[s].status = "row" =>
                         /\ sess'[s].expires >= sess[s].expires
                         /\ sess[s].revoked # None => sess'[s] = sess[s]
  <1>1. ASSUME SessionInv, [Next]_vars PROVE [Grows]_sess
    <2>1. CASE UNCHANGED vars
      BY <2>1 DEF vars
    <2>2. CASE Next
      <3>1. RowsMove /\ sess \in [Sessions -> Row]
        BY <1>1, <2>2, NextOK DEF StepOK, SessionInv, TypeOK
      <3>2. CASE SomeRevoked
        <4> SUFFICES ASSUME NEW s \in Sessions PROVE /\ sess'[s].expires >= sess[s].expires
                                                     /\ sess[s].revoked # None => sess'[s] = sess[s]
          OBVIOUS
        <4>1. sess[s].expires \in Nat /\ sess[s] \in Row
          BY <3>1 DEF Row
        <4>2. CASE sess'[s] = sess[s]
          BY <4>1, <4>2
        <4>3. ASSUME NEW t \in Nat, Live(s), sess'[s] = [sess[s] EXCEPT !.revoked = t]
              PROVE  sess'[s].expires >= sess[s].expires /\ sess[s].revoked = None
          BY <4>1, <4>3 DEF Live, Row
        <4> QED BY <3>2, <4>2, <4>3 DEF SomeRevoked
      <3>3. CASE OneSlid
        BY <3>1, <3>3 DEF OneSlid, Live, Row
      <3>4. CASE OneInserted
        <4>1. PICK s \in Sessions, x \in Row, p \in Sessions \cup {None} : Inserted(s, x, p)
          BY <3>4 DEF OneInserted
        <4>2. ASSUME NEW q \in Sessions, q # s
              PROVE  sess'[q].expires = sess[q].expires /\ (q # p => sess'[q] = sess[q])
          BY <3>1, <4>1, <4>2 DEF Inserted, Row
        <4>3. sess[s].status = "none" /\ (p # None => Live(p))
          BY <4>1 DEF Inserted
        <4> QED BY <3>1, <4>2, <4>3, SessionConstants DEF Live, Row
      <3>5. CASE SomePurged
        <4>1. ASSUME NEW s \in Sessions, sess'[s].status = "row" PROVE sess'[s] = sess[s]
          BY ZenonT(40), <3>5, <4>1 DEF SomePurged, NoRow
        <4>2. ASSUME NEW s \in Sessions PROVE sess[s].expires \in Nat
          BY <3>1 DEF Row
        <4> QED BY <4>1, <4>2
      <3> QED BY <3>1, <3>2, <3>3, <3>4, <3>5 DEF RowsMove
    <2> QED BY <1>1, <2>1, <2>2
  <1> QED BY <1>1, SessionInvInit, SessionInvNext, PTL DEF Spec, ExpiryOnlyGrows


-----------------------------------------------------------------------------
(* The approval of an account, of which AccountApprovalProofs tells *)

ApprovalTheory == INSTANCE AccountApprovalProofs
                    WITH Deciders <- Pair1 \cup {Legacy}, SignIns <- Pair2,
                         clock <- r1, user <- r2, regs <- r3, decisions <- r4, notices <- r5,
                         alerts <- r6, req <- r7

\* The two instances are the same state machine.
LEMMA SameApprovalInit == Approval!Init => ApprovalTheory!Init
  BY DEF Approval!Init, ApprovalTheory!Init, Approval!NoUser, ApprovalTheory!NoUser,
         Approval!NoReg, ApprovalTheory!NoReg, Approval!Fresh, ApprovalTheory!Fresh

LEMMA SameApprovalNext == Approval!Next => ApprovalTheory!Next
  BY DEF Approval!Next, ApprovalTheory!Next, Approval!Fresh, ApprovalTheory!Fresh,
         Approval!NoUser, ApprovalTheory!NoUser, Approval!Tick, ApprovalTheory!Tick,
         Approval!Arrive, ApprovalTheory!Arrive, Approval!RevocationPassesCheck,
         ApprovalTheory!RevocationPassesCheck, Approval!Open, ApprovalTheory!Open,
         Approval!ReadForDecision, ApprovalTheory!ReadForDecision, Approval!Allowed,
         ApprovalTheory!Allowed, Approval!DecisionApplies, ApprovalTheory!DecisionApplies,
         Approval!Decided, ApprovalTheory!Decided, Approval!DecisionMarked,
         ApprovalTheory!DecisionMarked, Approval!RevokedAt, ApprovalTheory!RevokedAt,
         Approval!Noticed, ApprovalTheory!Noticed, Approval!CommitDecision,
         ApprovalTheory!CommitDecision, Approval!FindAccount, ApprovalTheory!FindAccount,
         Approval!Created, ApprovalTheory!Created, Approval!CreateAccount,
         ApprovalTheory!CreateAccount, Approval!RereadAccount, ApprovalTheory!RereadAccount,
         Approval!AwaitsReview, ApprovalTheory!AwaitsReview, Approval!NewReg,
         ApprovalTheory!NewReg, Approval!NoReg, ApprovalTheory!NoReg,
         Approval!CommitRegistration, ApprovalTheory!CommitRegistration, Approval!DecisionStep,
         ApprovalTheory!DecisionStep, Approval!SignInStep, ApprovalTheory!SignInStep,
         Approval!AccountStates, ApprovalTheory!AccountStates

LEMMA SameApprovalPromises ==
    /\ ApprovalTheory!TypeOK => Approval!TypeOK
    /\ ApprovalTheory!DecisionsFormAHistory => Approval!DecisionsFormAHistory
    /\ ApprovalTheory!NoStaleDecision => Approval!NoStaleDecision
    /\ ApprovalTheory!DecidedIsNotified => Approval!DecidedIsNotified
    /\ ApprovalTheory!MarkerNamesTheOpenRequest => Approval!MarkerNamesTheOpenRequest
    /\ ApprovalTheory!ReceiptEndsWithDecision => Approval!ReceiptEndsWithDecision
  <1>1. ApprovalTheory!TypeOK => Approval!TypeOK
    BY DEF Approval!TypeOK, ApprovalTheory!TypeOK, Approval!States, ApprovalTheory!States,
       Approval!AccountStates, ApprovalTheory!AccountStates
  <1>2. ApprovalTheory!DecisionsFormAHistory => Approval!DecisionsFormAHistory
    BY DEF Approval!DecisionsFormAHistory, ApprovalTheory!DecisionsFormAHistory
  <1>3. ApprovalTheory!NoStaleDecision => Approval!NoStaleDecision
    BY DEF Approval!NoStaleDecision, ApprovalTheory!NoStaleDecision
  <1>4. ApprovalTheory!DecidedIsNotified => Approval!DecidedIsNotified
    BY DEF Approval!DecidedIsNotified, ApprovalTheory!DecidedIsNotified,
       Approval!Cardinality, ApprovalTheory!Cardinality
  <1>5. ApprovalTheory!MarkerNamesTheOpenRequest => Approval!MarkerNamesTheOpenRequest
    BY DEF Approval!MarkerNamesTheOpenRequest, ApprovalTheory!MarkerNamesTheOpenRequest,
       Approval!Open, ApprovalTheory!Open
  <1>6. ApprovalTheory!ReceiptEndsWithDecision => Approval!ReceiptEndsWithDecision
    BY DEF Approval!ReceiptEndsWithDecision, ApprovalTheory!ReceiptEndsWithDecision,
       Approval!ReceiptIsValid, ApprovalTheory!ReceiptIsValid, Approval!Open,
       ApprovalTheory!Open
  <1> QED BY <1>1, <1>2, <1>3, <1>4, <1>5, <1>6

ApprovalSound == machine = "approval" => ApprovalTheory!ApprovalInv

LEMMA ApprovalSoundInit == SignInInit => ApprovalSound
  <1>1. ApprovalTheory!ApprovalConstants
    BY SignInConstants DEF Approval!ApprovalConstants, ApprovalTheory!ApprovalConstants
  <1>2. Approval!Init => ApprovalTheory!ApprovalInv
    BY <1>1, SameApprovalInit, ApprovalTheory!ApprovalInvInit
  <1> QED BY <1>2 DEF SignInInit, ApprovalSound

LEMMA ApprovalSoundNext ==
    ASSUME ApprovalSound, [SignInNext]_<<machine, vars, registers>> PROVE ApprovalSound'
  <1>1. ApprovalTheory!ApprovalConstants
    BY SignInConstants DEF Approval!ApprovalConstants, ApprovalTheory!ApprovalConstants
  <1> SUFFICES ASSUME machine' = "approval" PROVE ApprovalTheory!ApprovalInv'
    BY DEF ApprovalSound
  <1>2. machine = "approval" /\ (Approval!Next \/ UNCHANGED registers)
    BY DEF SignInNext
  <1>3. [ApprovalTheory!Next]_(ApprovalTheory!vars)
    BY <1>2, SameApprovalNext DEF registers, ApprovalTheory!vars
  <1> QED BY <1>1, <1>2, <1>3, ApprovalTheory!ApprovalInvNext DEF ApprovalSound

\* Overlapping decisions of owners and sign-ins of the learner form one history without a
\* stale decision, each decision with its notification; the marker names the open request,
\* and no receipt outlives the decision that came after it.
THEOREM ApprovalsFormOneHistory == SignInSpec => []DecisionsFormAHistory
  <1>1. ApprovalSound => DecisionsFormAHistory
    <2>1. ApprovalTheory!ApprovalInv =>
            /\ ApprovalTheory!TypeOK /\ ApprovalTheory!DecisionsFormAHistory
            /\ ApprovalTheory!NoStaleDecision /\ ApprovalTheory!DecidedIsNotified
            /\ ApprovalTheory!MarkerNamesTheOpenRequest
            /\ ApprovalTheory!ReceiptEndsWithDecision
      BY DEF ApprovalTheory!ApprovalInv
    <2> QED BY <2>1, SameApprovalPromises DEF ApprovalSound, DecisionsFormAHistory
  <1> QED BY <1>1, ApprovalSoundInit, ApprovalSoundNext, PTL DEF SignInSpec

-----------------------------------------------------------------------------
(* The external identities, the limiter and the gate, of which AccessProofs tells *)

AccessTheory == INSTANCE AccessProofs
                  WITH Subjects <- Pair1, Users <- Pair2, Txns <- Pair1, Links <- Pair4,
                       Requests <- Pair3, txn <- r1, ident <- r2, users <- r3, link <- r4,
                       req <- r5, work <- r6, signed <- r7, linked <- r8,
                       Attempts <- Pair1 \cup Pair2, Clients <- Pair3, Unlocked <- Nobody,
                       now <- r1, lost <- r2, lock <- r3, attempt <- r4, admitted <- r5,
                       denials <- r6,
                       Visitors <- {Visitor}, account <- r1, session <- r2, changes <- r3,
                       ask <- r4

LEMMA SameIdentityInit == Identity!Init => AccessTheory!Init
  BY SMTT(30) DEF Identity!Init, AccessTheory!Init, Identity!NoIdentity,
         AccessTheory!NoIdentity, Identity!NoLink, AccessTheory!NoLink, Identity!NoReq,
         AccessTheory!NoReq

LEMMA SameIdentityNext == Identity!Next => AccessTheory!Next
  BY DEF Identity!NoIdentity, AccessTheory!NoIdentity, Identity!NoLink,
         AccessTheory!NoLink, Identity!NoReq, AccessTheory!NoReq, Identity!Active,
         AccessTheory!Active, Identity!ActiveOf, AccessTheory!ActiveOf,
         Identity!PendingOf, AccessTheory!PendingOf, Identity!Go, AccessTheory!Go,
         Identity!End, AccessTheory!End, Identity!Take, AccessTheory!Take,
         Identity!Dies, AccessTheory!Dies, Identity!TimePasses,
         AccessTheory!TimePasses, Identity!Start, AccessTheory!Start,
         Identity!BeginCallback, AccessTheory!BeginCallback, Identity!Consumable,
         AccessTheory!Consumable, Identity!Consume, AccessTheory!Consume,
         Identity!Exchange, AccessTheory!Exchange, Identity!SignIn,
         AccessTheory!SignIn, Identity!Find, AccessTheory!Find, Identity!Register,
         AccessTheory!Register, Identity!BeginLink, AccessTheory!BeginLink,
         Identity!CountPending, AccessTheory!CountPending, Identity!InsertLink,
         AccessTheory!InsertLink, Identity!BeginCancel, AccessTheory!BeginCancel,
         Identity!Cancelled, AccessTheory!Cancelled, Identity!Cancel,
         AccessTheory!Cancel, Identity!BeginCompletion, AccessTheory!BeginCompletion,
         Identity!Open, AccessTheory!Open, Identity!Claimable, AccessTheory!Claimable,
         Identity!Claim, AccessTheory!Claim, Identity!VerifyProvider,
         AccessTheory!VerifyProvider, Identity!Look, AccessTheory!Look,
         Identity!Attached, AccessTheory!Attached, Identity!Attach,
         AccessTheory!Attach, Identity!Fail, AccessTheory!Fail, Identity!Unlinkable,
         AccessTheory!Unlinkable, Identity!BeginUnlink, AccessTheory!BeginUnlink,
         Identity!CountOthers, AccessTheory!CountOthers, Identity!Unlink,
         AccessTheory!Unlink, Identity!SignInStep, AccessTheory!SignInStep,
         Identity!LinkStep, AccessTheory!LinkStep, Identity!Next, AccessTheory!Next,
         Identity!Cardinality, AccessTheory!Cardinality

LEMMA SameIdentityPromises ==
    /\ AccessTheory!IdentitiesTypeOK => Identity!IdentitiesTypeOK
    /\ AccessTheory!TransactionServesOnce => Identity!TransactionServesOnce
    /\ AccessTheory!LinksAreHonest => Identity!LinksAreHonest
    /\ AccessTheory!EveryAccountCanSignIn => Identity!EveryAccountCanSignIn
    /\ AccessTheory!IdentityKeepsItsAccount => Identity!IdentityKeepsItsAccount
  <1>1. AccessTheory!IdentitiesTypeOK => Identity!IdentitiesTypeOK
    BY DEF Identity!IdentitiesTypeOK, AccessTheory!IdentitiesTypeOK
  <1>2. AccessTheory!TransactionServesOnce => Identity!TransactionServesOnce
    BY DEF Identity!TransactionServesOnce, AccessTheory!TransactionServesOnce
  <1>3. AccessTheory!LinksAreHonest => Identity!LinksAreHonest
    BY DEF Identity!LinksAreHonest, AccessTheory!LinksAreHonest,
       Identity!Cardinality, AccessTheory!Cardinality
  <1>4. AccessTheory!EveryAccountCanSignIn => Identity!EveryAccountCanSignIn
    BY DEF Identity!EveryAccountCanSignIn, AccessTheory!EveryAccountCanSignIn,
       Identity!ActiveOf, AccessTheory!ActiveOf, Identity!Active, AccessTheory!Active,
       Identity!Cardinality, AccessTheory!Cardinality
  <1>5. AccessTheory!IdentityKeepsItsAccount => Identity!IdentityKeepsItsAccount
    BY DEF Identity!IdentityKeepsItsAccount, AccessTheory!IdentityKeepsItsAccount,
       Identity!NoIdentity, AccessTheory!NoIdentity
  <1> QED BY <1>1, <1>2, <1>3, <1>4, <1>5

IdentitySound == machine = "identity" => AccessTheory!IdentitiesInv

LEMMA IdentitySoundInit == SignInInit => IdentitySound
  <1>1. Identity!Init => AccessTheory!IdentitiesInv
    BY SameIdentityInit, AccessTheory!IdentitiesInvInit
  <1> QED BY <1>1 DEF SignInInit, IdentitySound

\* A step of the machine of a sign-in that runs is one of its identities.
LEMMA IdentitySteps ==
    ASSUME [SignInNext]_<<machine, vars, registers>>, machine' = "identity"
    PROVE  machine = "identity" /\ [AccessTheory!Next]_(AccessTheory!idVars)
  <1>1. machine = "identity" /\ (Identity!Next \/ UNCHANGED registers)
    BY DEF SignInNext
  <1> QED BY <1>1, SameIdentityNext DEF registers, AccessTheory!idVars

LEMMA IdentitySoundNext ==
    ASSUME IdentitySound, [SignInNext]_<<machine, vars, registers>> PROVE IdentitySound'
  BY IdentitySteps, AccessTheory!IdentitiesInvNext DEF IdentitySound

\* However often a callback is delivered, a sign-in transaction signs in once, into the
\* account that owns the identity; a link transaction attaches at most one identity, and is
\* recorded as completed if it did; and every account keeps one primary identity.
THEOREM IdentitiesServeOnce == SignInSpec => []TransactionsServeOnce
  <1>1. IdentitySound => TransactionsServeOnce
    BY AccessTheory!InvariantTypes, AccessTheory!InvariantAccounts,
       AccessTheory!InvariantLinks, SameIdentityPromises
       DEF IdentitySound, TransactionsServeOnce, AccessTheory!IdentitiesInv
  <1> QED BY <1>1, IdentitySoundInit, IdentitySoundNext, PTL DEF SignInSpec

\* An external identity that belongs to an account is never given to another.
THEOREM IdentitiesNeverMove == SignInSpec => IdentityKeepsItsAccount
  <1>1. ASSUME IdentitySound, [SignInNext]_<<machine, vars, registers>>
        PROVE  [machine = "identity" => Identity!IdentityKeepsItsAccount]_registers
    <2>1. CASE machine = "identity" /\ machine' = "identity"
      BY <1>1, <2>1, IdentitySteps, AccessTheory!StepsKeepAccounts, SameIdentityPromises
         DEF IdentitySound
    <2>2. CASE machine # "identity"
      BY <2>2
    <2>3. machine' = machine
      BY <1>1 DEF SignInNext
    <2> QED BY <2>1, <2>2, <2>3
  <1> QED BY <1>1, IdentitySoundInit, IdentitySoundNext, PTL
          DEF SignInSpec, IdentityKeepsItsAccount

-----------------------------------------------------------------------------
(* The limiter and the gate *)

LEMMA SameGuardConstants == AccessTheory!LimiterConstants /\ AccessTheory!GateConstants
  BY SignInConstants DEF Limiter!LimiterConstants, AccessTheory!LimiterConstants,
     Gate!GateConstants, AccessTheory!GateConstants

LEMMA SameLimiterInit == Limiter!LimiterInit => AccessTheory!LimiterInit
  BY SMTT(30) DEF Limiter!LimiterInit, AccessTheory!LimiterInit, Limiter!Locks, AccessTheory!Locks,
         Limiter!Fresh, AccessTheory!Fresh

LEMMA SameLimiterNext == Limiter!LimiterNext => AccessTheory!LimiterNext
  BY DEF Limiter!Locks, AccessTheory!Locks, Limiter!Fresh, AccessTheory!Fresh, Limiter!Goes,
         AccessTheory!Goes, Limiter!Begin, AccessTheory!Begin, Limiter!lockSubjects,
         AccessTheory!lockSubjects, Limiter!InWindow, AccessTheory!InWindow,
         Limiter!countAcceptedAttempts, AccessTheory!countAcceptedAttempts, Limiter!Allowed,
         AccessTheory!Allowed, Limiter!Released, AccessTheory!Released, Limiter!Commit,
         AccessTheory!Commit, Limiter!Lose, AccessTheory!Lose, Limiter!Pass, AccessTheory!Pass,
         Limiter!LimiterNext, AccessTheory!LimiterNext,
         Limiter!Cardinality, AccessTheory!Cardinality

LEMMA SameGateInit == Gate!GateInit => AccessTheory!GateInit
  BY DEF Gate!GateInit, AccessTheory!GateInit, Gate!Accounts, AccessTheory!Accounts, Gate!States,
         AccessTheory!States, Gate!NoRequest, AccessTheory!NoRequest

LEMMA SameRoutes == Gate!Routes = AccessTheory!Routes
  BY DEF Gate!Route, AccessTheory!Route, Gate!Me, AccessTheory!Me, Gate!Admin, AccessTheory!Admin,
         Gate!ReceiptRoutes, AccessTheory!ReceiptRoutes, Gate!SignInRoute,
         AccessTheory!SignInRoute, Gate!BearerRoute, AccessTheory!BearerRoute,
         Gate!SessionRoutes, AccessTheory!SessionRoutes, Gate!ProfileRoutes,
         AccessTheory!ProfileRoutes, Gate!IdentityRoutes, AccessTheory!IdentityRoutes,
         Gate!ConsentRoutes, AccessTheory!ConsentRoutes, Gate!RightsRoutes,
         AccessTheory!RightsRoutes, Gate!SelfMergeRoutes, AccessTheory!SelfMergeRoutes,
         Gate!AdminMergeRoutes, AccessTheory!AdminMergeRoutes, Gate!AdminAccountRoutes,
         AccessTheory!AdminAccountRoutes, Gate!AdminDomainRoutes, AccessTheory!AdminDomainRoutes,
         Gate!AdminDeletionRoutes, AccessTheory!AdminDeletionRoutes, Gate!Routes,
         AccessTheory!Routes

LEMMA SameGateDecisions ==
    /\ \A token, signIn : Gate!verifyToken(token, signIn) = AccessTheory!verifyToken(token, signIn)
    /\ \A q, a : Gate!Decided(q, a) = AccessTheory!Decided(q, a)
    /\ \A q : Gate!Disclosed(q) = AccessTheory!Disclosed(q)
    /\ Gate!Tokens = AccessTheory!Tokens /\ Gate!NoRequest = AccessTheory!NoRequest
  BY DEF Gate!verifyToken, AccessTheory!verifyToken, Gate!Decided, AccessTheory!Decided,
         Gate!Permission, AccessTheory!Permission, Gate!SelfPermission,
         AccessTheory!SelfPermission, Gate!authorizeProject42Operation,
         AccessTheory!authorizeProject42Operation, Gate!Disclosed, AccessTheory!Disclosed,
         Gate!Tokens, AccessTheory!Tokens, Gate!NoRequest, AccessTheory!NoRequest

LEMMA SameGateSteps ==
    ASSUME NEW r PROVE  /\ Gate!permittedOrigin(r) => AccessTheory!permittedOrigin(r)
                        /\ Gate!UseReceipt(r) => AccessTheory!UseReceipt(r)
                        /\ Gate!enforceAuthAbuseLimit(r) => AccessTheory!enforceAuthAbuseLimit(r)
                        /\ Gate!resolveBrowserSession(r) => AccessTheory!resolveBrowserSession(r)
                        /\ Gate!Verify(r) => AccessTheory!Verify(r)
                        /\ Gate!findAccount(r) => AccessTheory!findAccount(r)
                        /\ Gate!recordDenial(r) => AccessTheory!recordDenial(r)
                        /\ Gate!Checks(r) => AccessTheory!Checks(r)
                        /\ Gate!Act(r) => AccessTheory!Act(r)
  <1> USE DEF Gate!Answers, AccessTheory!Answers, Gate!Continues, AccessTheory!Continues
  <1>1. Gate!permittedOrigin(r) => AccessTheory!permittedOrigin(r)
    BY SameRoutes, Zenon DEF Gate!permittedOrigin, AccessTheory!permittedOrigin, Gate!NoRequest,
       AccessTheory!NoRequest
  <1>2. Gate!UseReceipt(r) => AccessTheory!UseReceipt(r)
    BY DEF Gate!UseReceipt, AccessTheory!UseReceipt
  <1>3. Gate!enforceAuthAbuseLimit(r) => AccessTheory!enforceAuthAbuseLimit(r)
    BY DEF Gate!enforceAuthAbuseLimit, AccessTheory!enforceAuthAbuseLimit
  <1>4. Gate!resolveBrowserSession(r) => AccessTheory!resolveBrowserSession(r)
    BY DEF Gate!resolveBrowserSession, AccessTheory!resolveBrowserSession
  <1>5. Gate!Verify(r) => AccessTheory!Verify(r)
    BY SameGateDecisions DEF Gate!Verify, AccessTheory!Verify
  <1>6. Gate!findAccount(r) => AccessTheory!findAccount(r)
    BY SameGateDecisions DEF Gate!findAccount, AccessTheory!findAccount
  <1>7. Gate!recordDenial(r) => AccessTheory!recordDenial(r)
    BY DEF Gate!recordDenial, AccessTheory!recordDenial
  <1>8. Gate!Checks(r) => AccessTheory!Checks(r)
    BY DEF Gate!Checks, AccessTheory!Checks, Gate!requireRecentAuthentication,
            AccessTheory!requireRecentAuthentication
  <1>9. Gate!Act(r) => AccessTheory!Act(r)
    BY SameGateDecisions DEF Gate!Act, AccessTheory!Act
  <1> QED BY <1>1, <1>2, <1>3, <1>4, <1>5, <1>6, <1>7, <1>8, <1>9

LEMMA SameGateNext == Gate!GateNext => AccessTheory!GateNext
  <1>1. Gate!Decide \/ Gate!Assign \/ Gate!Erase
          => AccessTheory!Decide \/ AccessTheory!Assign \/ AccessTheory!Erase
    BY DEF Gate!Decide, AccessTheory!Decide, Gate!Assign, AccessTheory!Assign, Gate!Erase,
           AccessTheory!Erase, Gate!Becomes, AccessTheory!Becomes, Gate!Underway,
           AccessTheory!Underway, Gate!States, AccessTheory!States
  <1> QED BY <1>1, SameGateSteps DEF Gate!GateNext, AccessTheory!GateNext

LEMMA SameGuardPromises ==
    /\ AccessTheory!LimiterTypeOK => Limiter!LimiterTypeOK
    /\ AccessTheory!LimitHolds => Limiter!LimitHolds
    /\ AccessTheory!GateTypeOK => Gate!GateTypeOK
    /\ AccessTheory!OnlyTheEntitled => Gate!OnlyTheEntitled
    /\ AccessTheory!DenialsLeaveATrace => Gate!DenialsLeaveATrace
    /\ AccessTheory!OnlyTheStateIsShown => Gate!OnlyTheStateIsShown
  <1>1. AccessTheory!LimiterTypeOK => Limiter!LimiterTypeOK
    BY DEF Limiter!LimiterTypeOK, AccessTheory!LimiterTypeOK, Limiter!Locks, AccessTheory!Locks
  <1>2. AccessTheory!LimitHolds => Limiter!LimitHolds
    BY DEF Limiter!LimitHolds, AccessTheory!LimitHolds, Limiter!Cardinality,
       AccessTheory!Cardinality
  <1>3. AccessTheory!GateTypeOK => Gate!GateTypeOK
    BY DEF Gate!GateTypeOK, AccessTheory!GateTypeOK, Gate!Accounts, AccessTheory!Accounts,
       Gate!States, AccessTheory!States
  <1>4. AccessTheory!OnlyTheEntitled => Gate!OnlyTheEntitled
    BY DEF Gate!OnlyTheEntitled, AccessTheory!OnlyTheEntitled, Gate!Matrix, AccessTheory!Matrix
  <1>5. AccessTheory!DenialsLeaveATrace => Gate!DenialsLeaveATrace
    BY DEF Gate!DenialsLeaveATrace, AccessTheory!DenialsLeaveATrace
  <1>6. AccessTheory!OnlyTheStateIsShown => Gate!OnlyTheStateIsShown
    BY DEF Gate!OnlyTheStateIsShown, AccessTheory!OnlyTheStateIsShown
  <1> QED BY <1>1, <1>2, <1>3, <1>4, <1>5, <1>6

GuardsSound ==
    /\ machine = "limiter" => AccessTheory!LimiterInv
    /\ machine = "request" => AccessTheory!GateInv

LEMMA GuardsSoundInit == SignInInit => GuardsSound
  <1>1. Limiter!LimiterInit => AccessTheory!LimiterInv
    BY SameGuardConstants, SameLimiterInit, AccessTheory!LimiterInvInit
  <1>2. Gate!GateInit => AccessTheory!GateInv
    BY SameGuardConstants, SameGateInit, AccessTheory!GateInvInit
  <1> QED BY <1>1, <1>2 DEF SignInInit, GuardsSound

LEMMA GuardsSoundNext ==
    ASSUME GuardsSound, [SignInNext]_<<machine, vars, registers>> PROVE GuardsSound'
  <1>1. ASSUME machine' = "limiter" PROVE AccessTheory!LimiterInv'
    <2>1. machine = "limiter" /\ (Limiter!LimiterNext \/ UNCHANGED registers)
      BY <1>1 DEF SignInNext
    <2>2. [AccessTheory!LimiterNext]_(AccessTheory!limiterVars)
      BY <2>1, SameLimiterNext DEF registers, AccessTheory!limiterVars
    <2> QED BY <2>1, <2>2, SameGuardConstants, AccessTheory!LimiterInvNext DEF GuardsSound
  <1>2. ASSUME machine' = "request" PROVE AccessTheory!GateInv'
    <2>1. machine = "request" /\ (Gate!GateNext \/ UNCHANGED registers)
      BY <1>2 DEF SignInNext
    <2>2. [AccessTheory!GateNext]_(AccessTheory!gateVars)
      BY <2>1, SameGateNext DEF registers, AccessTheory!gateVars
    <2> QED BY <2>1, <2>2, SameGuardConstants, AccessTheory!GateInvNext DEF GuardsSound
  <1> QED BY <1>1, <1>2 DEF GuardsSound

\* Concurrent attempts never exceed the limits of a client or of the installation.  And
\* whatever is decided about an account while its request is under way, only an account that
\* had the right to it at some moment is served; a denial does nothing and leaves one entry
\* in the audit trail; and of an account that is not approved only the state is shown.
THEOREM GuardsAdmitOnlyTheEntitled == SignInSpec => []OnlyTheEntitled
  <1>1. GuardsSound => OnlyTheEntitled
    BY AccessTheory!LimiterPromises, AccessTheory!GatePromises, SameGuardPromises
       DEF GuardsSound, OnlyTheEntitled
  <1> QED BY <1>1, GuardsSoundInit, GuardsSoundNext, PTL DEF SignInSpec

===============================================================================
