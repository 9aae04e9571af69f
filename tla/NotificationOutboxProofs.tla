---------------------- MODULE NotificationOutboxProofs ----------------------
(***************************************************************************)
(* Proofs about NotificationOutbox, for every set of notifications,        *)
(* accounts, dispatchers and replay requests and every value of the limits.*)
(***************************************************************************)
EXTENDS MCNotificationsSettle, FiniteSetTheorems, WellFoundedInduction, TLAPS

-----------------------------------------------------------------------------
(* The inductive invariant *)

\* The points at which a run works on a row it has claimed.
Busy == {"read", "deliver", "settle"}

\* A run that works on a row has a lease token that was handed out; once it
\* has read the row it knows which attempt it makes.
RunShape ==
    \A d \in Dispatchers :
        /\ disp[d].pc \in Busy => disp[d].cur \in Ids /\ disp[d].token \in 1..issued
        /\ disp[d].pc \in {"deliver", "settle"} => disp[d].attempt \in 1..MaxAttempts

\* Only a row being delivered has a lease, and its token was handed out.
LeaseShape ==
    \A n \in Ids :
        /\ rows[n].lease <= issued
        /\ rows[n].state # "delivering" => rows[n].lease = 0
        /\ rows[n].state = "delivering" => rows[n].attempt \in 1..MaxAttempts

\* No two runs work under the same token.
TokensDiffer ==
    \A d, e \in Dispatchers :
        d # e /\ disp[d].pc \in Busy /\ disp[e].pc \in Busy => disp[d].token # disp[e].token

\* A run that still holds its lease makes the attempt that the row records.
HolderIsCurrent ==
    \A d \in Dispatchers :
        disp[d].pc \in {"deliver", "settle"} /\ rows[disp[d].cur].lease = disp[d].token
            => disp[d].attempt = rows[disp[d].cur].attempt

\* A run that is about to record a delivery has the provider's acceptance.
OkWasAccepted ==
    \A d \in Dispatchers :
        disp[d].pc = "settle" /\ disp[d].outcome = "ok"
            => disp[d].attempt \in accepted[disp[d].cur]

TypeInv == TypeOK /\ RunShape /\ LeaseShape

DeliveryInv == TypeInv /\ HolderIsCurrent /\ OkWasAccepted
               /\ DeliveredWasAccepted

\* Is a run about to call the adapter for attempt a of notification n?
InCall(d, n, a) == disp[d].pc = "deliver" /\ disp[d].cur = n /\ disp[d].attempt = a

\* No call was made, nor is one about to be made, for attempt a of n.
Untried(n, a) == calls[n][a] = 0 /\ \A d \in Dispatchers : ~InCall(d, n, a)

\* The attempt of a pending call was not tried, and no other run is to try it.
PendingCallIsFirst ==
    \A d \in Dispatchers : disp[d].pc = "deliver" =>
        /\ calls[disp[d].cur][disp[d].attempt] = 0
        /\ \A e \in Dispatchers \ {d} : ~InCall(e, disp[d].cur, disp[d].attempt)

\* Nor was the attempt that a run is about to read under its lease.
ClaimedIsUntried ==
    \A d \in Dispatchers :
        disp[d].pc = "read" /\ rows[disp[d].cur].lease = disp[d].token
            => Untried(disp[d].cur, rows[disp[d].cur].attempt)

\* The attempts that a row has still to make were not tried; for a row not
\* yet inserted these are all of them, and no run can know it.
FutureIsUntried ==
    \A n \in Ids : rows[n].state # "deleted" =>
        /\ \A a \in 1..MaxAttempts : a > rows[n].attempt => Untried(n, a)
        /\ rows[n].state = "unused" => rows[n].attempt = 0

CallInv == TypeInv /\ TokensDiffer /\ PendingCallIsFirst /\ ClaimedIsUntried
           /\ FutureIsUntried /\ OneCallPerAttempt

-----------------------------------------------------------------------------
(* Lemmas about rows and runs *)

\* Every page a SELECT returns consists of rows it selected from.
LEMMA PageIsSubset ==
    ASSUME NEW S, NEW key, NEW P \in Page(S, key) PROVE P \subseteq S
  BY DEF Page

\* An empty row, a new row and a tombstone are well-formed rows.
LEMMA NewRowType ==
    ASSUME NEW kind \in Kinds, NEW parties \in SUBSET Accounts, NEW now \in Nat,
           NEW source \in Ids \cup {None}
    PROVE  /\ NoRow \in Row
           /\ [NoRow EXCEPT !.state = "deleted"] \in Row
           /\ NewRow(kind, parties, now, source) \in Row
  <1>1. 0 \in 0..MaxAttempts /\ 0 \in Nat
    BY OutboxConstants
  <1>2. "learner" \in Kinds /\ {"pending", "unused", "deleted"} \subseteq RowStates
    BY DEF Kinds, RowStates, Stored, InQueue
  <1>3. NoRow \in Row
    BY <1>1, <1>2 DEF Row, NoRow
  <1>4. "pending" \in RowStates /\ "deleted" \in RowStates
    BY <1>2
  <1>5. [NoRow EXCEPT !.state = "deleted"] \in Row
    BY <1>3, <1>4, ZenonT(30) DEF Row
  <1>6. NewRow(kind, parties, now, source) \in Row
    BY <1>3, <1>4, ZenonT(30) DEF Row, NewRow
  <1> QED BY <1>3, <1>5, <1>6

\* A row whose lease was given up, and a claimed row, are well-formed.
LEMMA ReleasedType ==
    ASSUME rows \in [Ids -> Row], NEW n \in Ids, NEW to \in RowStates, NEW at \in Nat
    PROVE  Released(n, to, at) \in Row
  <1>1. rows[n] \in Row /\ 0 \in Nat
    OBVIOUS
  <1> QED BY <1>1, ZenonT(30) DEF Released, Row

LEMMA ClaimedType ==
    ASSUME rows \in [Ids -> Row], NEW n \in Ids, NEW t \in Nat, NEW now \in Nat,
           Claimable(n, now)
    PROVE  Claimed(n, t, now) \in Row
  <1>1. rows[n] \in Row /\ "delivering" \in RowStates
    BY DEF RowStates, Stored
  <1>2. rows[n].attempt + 1 \in 0..MaxAttempts /\ now + LeaseSeconds \in Nat
    BY <1>1, OutboxConstants DEF Claimable, Row
  <1> QED BY <1>1, <1>2, ZenonT(30) DEF Claimed, Row

\* Counting a terminal audit event keeps the counters well-formed.
LEMMA AuditType ==
    ASSUME audits \in [Ids -> [Terminal -> Nat]], NEW rs, NEW n \in Ids, NEW s
    PROVE  AuditIn(rs, n, s) \in [Ids -> [Terminal -> Nat]]
  BY DEF AuditIn

\* Counting up one entry of a table of counters.
LEMMA CountUp ==
    ASSUME NEW S, NEW f \in [S -> Nat], NEW a \in S
    PROVE  [f EXCEPT ![a] = @ + 1] \in [S -> Nat]
  OBVIOUS

\* The run that starts, and the run that goes on to its next candidate.
LEMMA IdleType ==
    ASSUME NEW now \in Nat, NEW kinds \in SUBSET Kinds
    PROVE  /\ Idle \in Run
           /\ [Idle EXCEPT !.pc = "recover-select", !.now = now, !.kinds = kinds] \in Run
           /\ [Idle EXCEPT !.pc = "recover-select", !.now = now, !.kinds = kinds].pc
                = "recover-select"
  <1>1. 0 \in 0..MaxAttempts /\ 0 \in Nat
    BY OutboxConstants
  <1>2. Idle \in Run
    BY <1>1 DEF Idle, Run
  <1>3. [Idle EXCEPT !.pc = "recover-select", !.now = now, !.kinds = kinds] \in Run
    BY <1>2, ZenonT(30) DEF Run
  <1>4. [Idle EXCEPT !.pc = "recover-select", !.now = now, !.kinds = kinds].pc
          = "recover-select"
    BY <1>2 DEF Run
  <1> QED BY <1>2, <1>3, <1>4

LEMMA NextCandidateType ==
    ASSUME disp \in [Dispatchers -> Run], NEW d \in Dispatchers
    PROVE  NextCandidate(d) \in Run /\ NextCandidate(d).pc = "claim"
  <1>1. disp[d] \in Run /\ 0 \in 0..MaxAttempts /\ 0 \in Nat
    BY OutboxConstants
  <1>2. NextCandidate(d) \in Run
    BY <1>1, ZenonT(30) DEF NextCandidate, Run
  <1>3. NextCandidate(d).pc = "claim"
    BY <1>1 DEF NextCandidate, Run
  <1> QED BY <1>2, <1>3

\* What the three updates of a row leave in its columns.
LEMMA RowFields ==
    ASSUME TypeOK, NEW n \in Ids
    PROVE  /\ \A to, at : /\ Released(n, to, at).state = to
                          /\ Released(n, to, at).lease = 0
                          /\ Released(n, to, at).attempt = rows[n].attempt
           /\ \A t, now : /\ Claimed(n, t, now).state = "delivering"
                          /\ Claimed(n, t, now).lease = t
                          /\ Claimed(n, t, now).attempt = rows[n].attempt + 1
           /\ \A kind, parties, now, source :
                 /\ NewRow(kind, parties, now, source).state = "pending"
                 /\ NewRow(kind, parties, now, source).lease = 0
                 /\ NewRow(kind, parties, now, source).attempt = 0
           /\ NoRow.state = "unused" /\ NoRow.lease = 0 /\ NoRow.attempt = 0
           /\ [NoRow EXCEPT !.state = "deleted"].state = "deleted"
           /\ [NoRow EXCEPT !.state = "deleted"].lease = 0
  <1>1. rows[n] \in Row
    BY DEF TypeOK
  <1>2. \A to, at : /\ Released(n, to, at).state = to
                    /\ Released(n, to, at).lease = 0
                    /\ Released(n, to, at).attempt = rows[n].attempt
    BY <1>1 DEF Released, Row
  <1>3. \A t, now : /\ Claimed(n, t, now).state = "delivering"
                    /\ Claimed(n, t, now).lease = t
                    /\ Claimed(n, t, now).attempt = rows[n].attempt + 1
    BY <1>1 DEF Claimed, Row
  <1>4. \A kind, parties, now, source :
                 /\ NewRow(kind, parties, now, source).state = "pending"
                 /\ NewRow(kind, parties, now, source).lease = 0
                 /\ NewRow(kind, parties, now, source).attempt = 0
    BY DEF NewRow, NoRow
  <1> QED BY <1>2, <1>3, <1>4 DEF NoRow

\* A step that changes the run of one dispatcher, into one of the right shape,
\* keeps the runs well-formed.
LEMMA RunStep ==
    ASSUME TypeInv, NEW d \in Dispatchers, NEW r \in Run,
           disp' = [disp EXCEPT ![d] = r],
           issued' \in Nat, issued <= issued',
           r.pc \in Busy => r.cur \in Ids /\ r.token \in 1..issued',
           r.pc \in {"deliver", "settle"} => r.attempt \in 1..MaxAttempts
    PROVE  disp' \in [Dispatchers -> Run] /\ RunShape'
  <1>1. disp' \in [Dispatchers -> Run]
    BY DEF TypeInv, TypeOK
  <1>2. ASSUME NEW e \in Dispatchers
        PROVE  /\ disp'[e].pc \in Busy => disp'[e].cur \in Ids /\ disp'[e].token \in 1..issued'
               /\ disp'[e].pc \in {"deliver", "settle"} => disp'[e].attempt \in 1..MaxAttempts
    <2>1. CASE e = d
      <3>1. disp'[e] = r
        BY <2>1 DEF TypeInv, TypeOK
      <3> QED BY <3>1
    <2>2. CASE e # d
      <3>1. disp'[e] = disp[e]
        BY <2>2 DEF TypeInv, TypeOK
      <3>2. disp[e].token \in Nat
        BY DEF TypeInv, TypeOK, Run
      <3> QED BY <3>1, <3>2 DEF TypeInv, TypeOK, RunShape
    <2> QED BY <2>1, <2>2
  <1> QED BY <1>1, <1>2 DEF RunShape

\* A step that changes one row, into one with a proper lease, keeps the leases.
LEMMA RowStep ==
    ASSUME TypeInv, NEW n \in Ids, NEW r \in Row,
           rows' = [rows EXCEPT ![n] = r],
           issued' \in Nat, issued <= issued',
           r.lease <= issued', r.state # "delivering" => r.lease = 0,
           r.state = "delivering" => r.attempt \in 1..MaxAttempts
    PROVE  rows' \in [Ids -> Row] /\ LeaseShape'
  <1>1. rows' \in [Ids -> Row]
    BY DEF TypeInv, TypeOK
  <1>2. ASSUME NEW m \in Ids
        PROVE  /\ rows'[m].lease <= issued'
               /\ rows'[m].state # "delivering" => rows'[m].lease = 0
               /\ rows'[m].state = "delivering" => rows'[m].attempt \in 1..MaxAttempts
    <2>1. CASE m = n
      <3>1. rows'[m] = r
        BY <2>1 DEF TypeInv, TypeOK
      <3> QED BY <3>1
    <2>2. CASE m # n
      <3>1. rows'[m] = rows[m]
        BY <2>2 DEF TypeInv, TypeOK
      <3>2. rows[m].lease \in Nat
        BY DEF TypeInv, TypeOK, Row
      <3> QED BY <3>1, <3>2 DEF TypeInv, TypeOK, LeaseShape
    <2> QED BY <2>1, <2>2
  <1> QED BY <1>1, <1>2 DEF LeaseShape

\* A settling batch keeps the table, the leases and the audit counters.
LEMMA SettlingBatchType ==
    ASSUME TypeInv, NEW d \in Dispatchers, disp[d].pc = "settle", SettlingBatch(d)
    PROVE  /\ rows' \in [Ids -> Row] /\ LeaseShape'
           /\ audits' \in [Ids -> [Terminal -> Nat]]
  <1> DEFINE n == disp[d].cur
             to == SettledState(disp[d].outcome, disp[d].attempt)
             at == DueAgain(d, to)
             new == IF HoldsLease(d) THEN [rows EXCEPT ![n] = Released(n, to, at)]
                    ELSE rows
  <1>0. n \in Ids /\ disp[d].attempt \in 1..MaxAttempts /\ issued' = issued
    BY DEF TypeInv, RunShape, Busy, SettlingBatch
  <1>1. to \in RowStates /\ to # "delivering"
    BY DEF SettledState, RowStates, Stored, Terminal, InQueue
  <1>2. at \in Nat
    <2>1. RetryDelay(disp[d].attempt) \in Nat
      BY <1>0, RetryDelayIsNat
    <2> HIDE DEF to
    <2> QED BY <1>0, <2>1 DEF TypeInv, TypeOK, Run, Row, DueAgain
  <1>3. rows' = new /\ audits' = AuditIn(new, n, to)
    BY DEF SettlingBatch
  <1>4. rows' \in [Ids -> Row] /\ LeaseShape'
    <2>1. CASE HoldsLease(d)
      <3> DEFINE r == Released(n, to, at)
      <3>1. rows' = [rows EXCEPT ![n] = r]
        BY <1>3, <2>1
      <3>2. r \in Row /\ r.lease = 0 /\ r.state = to
        <4> HIDE DEF to, at, n
        <4> QED BY <1>0, <1>1, <1>2, ReleasedType, RowFields DEF TypeInv, TypeOK
      <3> HIDE DEF r, to, at, n
      <3>3. /\ issued' \in Nat /\ issued <= issued' /\ r.lease <= issued'
            /\ r.state # "delivering" /\ r.lease = 0
        BY <1>0, <1>1, <3>2 DEF TypeInv, TypeOK
      <3> QED BY <1>0, <3>1, <3>2, <3>3, RowStep
    <2>2. CASE ~HoldsLease(d)
      BY <1>0, <1>3, <2>2 DEF TypeInv, TypeOK, LeaseShape
    <2> QED BY <2>1, <2>2
  <1>5. audits' \in [Ids -> [Terminal -> Nat]]
    <2> HIDE DEF to, new, n
    <2> QED BY <1>0, <1>3, AuditType DEF TypeInv, TypeOK
  <1> QED BY <1>4, <1>5

-----------------------------------------------------------------------------
(* Type correctness *)

LEMMA TypeInvInit == Init => TypeInv
  <1> SUFFICES ASSUME Init PROVE TypeInv
    OBVIOUS
  <1>1. NoRow \in Row /\ NoRow.state = "unused" /\ NoRow.lease = 0
    <2>1. "learner" \in Kinds /\ {} \in SUBSET Accounts /\ 0 \in Nat /\ None \in Ids \cup {None}
      BY DEF Kinds
    <2> QED BY <2>1, NewRowType DEF NoRow
  <1>2. Idle \in Run /\ Idle.pc = "idle"
    <2>1. {} \in SUBSET Kinds /\ 0 \in Nat
      OBVIOUS
    <2> QED BY <2>1, IdleType DEF Idle
  <1>3. rows \in [Ids -> Row] /\ LeaseShape
    BY <1>1 DEF Init, LeaseShape
  <1>4. disp \in [Dispatchers -> Run] /\ RunShape
    BY <1>2 DEF Init, RunShape, Busy
  <1>5. replay \in [Replayers -> [pc : {"idle", "commit", "recheck", "answered", "refused"},
                                  now : Nat, asked : SUBSET Ids, sources : SUBSET Ids]]
    BY DEF Init, NoReplay
  <1>6. /\ clock \in Nat /\ issued \in Nat /\ crashes \in Nat
        /\ audits \in [Ids -> [Terminal -> Nat]]
        /\ accepted \in [Ids -> SUBSET (1..MaxAttempts)]
        /\ calls \in [Ids -> [1..MaxAttempts -> Nat]]
        /\ claimedAt \in [Ids -> Nat]
    BY DEF Init
  <1> QED BY <1>3, <1>4, <1>5, <1>6 DEF TypeInv, TypeOK

\* A step of one dispatcher that leaves the table alone.
LEMMA QuietRunStep ==
    ASSUME TypeInv, NEW d \in Dispatchers, NEW r \in Run,
           disp' = [disp EXCEPT ![d] = r],
           r.pc \in Busy => r.cur \in Ids /\ r.token \in 1..issued,
           r.pc \in {"deliver", "settle"} => r.attempt \in 1..MaxAttempts,
           UNCHANGED <<clock, rows, issued, replay, observed>>,
           crashes' \in Nat
    PROVE  TypeInv'
  <1>1. issued' \in Nat /\ issued <= issued' /\ issued' = issued
    BY DEF TypeInv, TypeOK
  <1>2. disp' \in [Dispatchers -> Run] /\ RunShape'
    <2>1. r.pc \in Busy => r.cur \in Ids /\ r.token \in 1..issued'
      BY <1>1
    <2> QED BY <1>1, <2>1, RunStep
  <1>3. LeaseShape'
    BY DEF TypeInv, LeaseShape
  <1> QED BY <1>2, <1>3 DEF TypeInv, TypeOK, observed

\* The steps of a dispatcher keep the types: reading a page,
LEMMA SelectType ==
    ASSUME TypeInv, NEW d \in Dispatchers, SelectExpired(d) \/ SelectCandidates(d)
    PROVE  TypeInv'
  <1> USE DEF TypeInv
  <1>0. disp[d] \in Run /\ rows \in [Ids -> Row] /\ crashes' \in Nat
    BY DEF TypeOK, SelectExpired, SelectCandidates
  <1>1. CASE SelectExpired(d)
    <2> DEFINE expiry == [n \in Ids |-> rows[n].leaseExpires]
    <2>1. PICK P \in Page(ExpiredLeases(d), expiry) :
             disp' = [disp EXCEPT ![d] = [disp[d] EXCEPT !.pc = "recover",
                        !.expired = {[id |-> n, attempt |-> rows[n].attempt] : n \in P}]]
      BY <1>1 DEF SelectExpired
    <2> DEFINE X == {[id |-> n, attempt |-> rows[n].attempt] : n \in P}
               r == [disp[d] EXCEPT !.pc = "recover", !.expired = X]
    <2>2. P \subseteq Ids
      BY PageIsSubset DEF ExpiredLeases
    <2>3. X \in SUBSET [id : Ids, attempt : 0..MaxAttempts]
      BY <1>0, <2>2 DEF Row
    <2>4. disp' = [disp EXCEPT ![d] = r]
      BY <2>1
    <2>5. r \in Run /\ r.pc = "recover"
      <3> HIDE DEF X
      <3>1. r \in Run
        BY <1>0, <2>3, ZenonT(30) DEF Run
      <3>2. r.pc = "recover"
        BY <1>0 DEF Run
      <3> QED BY <3>1, <3>2
    <2> HIDE DEF r
    <2> QED BY ZenonT(40), <1>0, <1>1, <2>4, <2>5, QuietRunStep DEF SelectExpired, Busy
  <1>2. CASE SelectCandidates(d)
    <2> DEFINE since == [n \in Ids |-> rows[n].available]
    <2>1. PICK P \in Page(DueRows(d), since) :
             disp' = [disp EXCEPT ![d] = [disp[d] EXCEPT !.pc = "claim", !.cands = P]]
      BY <1>2 DEF SelectCandidates
    <2> DEFINE r == [disp[d] EXCEPT !.pc = "claim", !.cands = P]
    <2>2. P \subseteq Ids
      BY PageIsSubset DEF DueRows
    <2>3. disp' = [disp EXCEPT ![d] = r]
      BY <2>1
    <2>4. r \in Run
      BY <1>0, <2>2 DEF Run
    <2>5. r.pc = "claim"
      BY <1>0 DEF Run
    <2> HIDE DEF r
    <2> QED BY <1>0, <1>2, <2>3, <2>4, <2>5, QuietRunStep DEF SelectCandidates, Busy
  <1> QED BY <1>1, <1>2

\* taking back an expired lease,
LEMMA RecoverType ==
    ASSUME TypeInv, NEW d \in Dispatchers, NEW e \in disp[d].expired, RecoverLease(d, e)
    PROVE  TypeInv'
  <1> DEFINE n   == e.id
             to  == IF e.attempt >= MaxAttempts THEN "dead-letter" ELSE "retryable"
             q   == Released(n, to, disp[d].now)
             new == IF LeaseExpired(n, disp[d].now) THEN [rows EXCEPT ![n] = q] ELSE rows
             r   == [disp[d] EXCEPT !.expired = @ \ {e}]
  <1>0. /\ disp[d] \in Run /\ disp \in [Dispatchers -> Run] /\ rows \in [Ids -> Row]
        /\ issued \in Nat /\ issued' = issued /\ disp[d].pc = "recover"
    BY DEF TypeInv, TypeOK, RecoverLease
  <1>1. n \in Ids /\ disp[d].now \in Nat
    BY <1>0 DEF Run
  <1>2. rows' = new /\ audits' = AuditIn(new, n, to)
    BY DEF RecoverLease
  <1>3. to \in RowStates /\ to # "delivering"
    BY DEF RowStates, Stored, Terminal, InQueue
  <1>4. rows' \in [Ids -> Row] /\ LeaseShape'
    <2>1. CASE LeaseExpired(n, disp[d].now)
      <3>1. rows' = [rows EXCEPT ![n] = q]
        BY <1>2, <2>1
      <3>2. q \in Row /\ q.lease = 0 /\ q.state = to
        <4> HIDE DEF to, n
        <4> QED BY <1>0, <1>1, <1>3, ReleasedType, RowFields DEF TypeInv
      <3> HIDE DEF q, to, n
      <3>3. /\ issued' \in Nat /\ issued <= issued' /\ q.lease <= issued'
            /\ q.state # "delivering" /\ q.lease = 0
        BY <1>0, <1>3, <3>2
      <3> QED BY <1>1, <3>1, <3>2, <3>3, RowStep
    <2>2. CASE ~LeaseExpired(n, disp[d].now)
      BY <1>0, <1>2, <2>2 DEF TypeInv, LeaseShape
    <2> QED BY <2>1, <2>2
  <1>5. audits' \in [Ids -> [Terminal -> Nat]]
    <2> HIDE DEF to, new, n
    <2> QED BY <1>1, <1>2, AuditType DEF TypeInv, TypeOK
  <1>6. disp' \in [Dispatchers -> Run] /\ RunShape'
    <2>1. r \in Run /\ r.pc = "recover"
      BY <1>0 DEF Run
    <2>2. disp' = [disp EXCEPT ![d] = r]
      BY <1>0 DEF RecoverLease
    <2>3. issued' \in Nat /\ issued <= issued'
      BY <1>0
    <2> HIDE DEF r
    <2> QED BY <2>1, <2>2, <2>3, RunStep DEF Busy
  <1> QED BY <1>4, <1>5, <1>6 DEF TypeInv, TypeOK, RecoverLease

\* claiming a candidate,
LEMMA ClaimType ==
    ASSUME TypeInv, NEW d \in Dispatchers, NEW n \in disp[d].cands, Claim(d, n)
    PROVE  TypeInv'
  <1>0. /\ disp[d] \in Run /\ disp \in [Dispatchers -> Run] /\ rows \in [Ids -> Row]
        /\ issued \in Nat /\ disp[d].pc = "claim" /\ crashes' \in Nat
    BY DEF TypeInv, TypeOK, Claim
  <1>1. n \in Ids /\ disp[d].now \in Nat
    BY <1>0 DEF Run
  <1>2. CASE Claimable(n, disp[d].now)
    <2> DEFINE q == Claimed(n, issued + 1, disp[d].now)
               r == [disp[d] EXCEPT !.pc = "read", !.cands = @ \ {n},
                                    !.cur = n, !.token = issued + 1]
    <2>1. /\ rows' = [rows EXCEPT ![n] = q] /\ issued' = issued + 1
          /\ disp' = [disp EXCEPT ![d] = r]
          /\ claimedAt' = [claimedAt EXCEPT ![n] = disp[d].now]
          /\ UNCHANGED <<clock, replay, audits, accepted, calls, crashes>>
      BY <1>2 DEF Claim
    <2>2. q \in Row
      BY <1>0, <1>1, <1>2, ClaimedType
    <2>3. /\ q.state = "delivering" /\ q.lease = issued + 1
          /\ q.attempt \in 1..MaxAttempts
      <3>1. q.state = "delivering" /\ q.lease = issued + 1 /\ q.attempt = rows[n].attempt + 1
        BY <1>1, RowFields DEF TypeInv
      <3>2. rows[n].attempt \in 0..MaxAttempts
        BY <1>0, <1>1 DEF Row
      <3> QED BY <1>2, <3>1, <3>2, OutboxConstants DEF Claimable
    <2>n. issued' \in Nat /\ issued <= issued' /\ issued' = issued + 1 /\ issued + 1 \in 1..issued'
      BY <1>0, <2>1
    <2>4. rows' \in [Ids -> Row] /\ LeaseShape'
      <3> HIDE DEF q
      <3>1. q.lease <= issued'
        BY <1>0, <2>3, <2>n
      <3> QED BY <1>1, <2>1, <2>2, <2>3, <2>n, <3>1, RowStep
    <2>5. r \in Run
      <3>1. disp[d].cands \ {n} \in SUBSET Ids /\ n \in Ids \cup {None} /\ issued + 1 \in Nat
        BY <1>0, <1>1 DEF Run
      <3> QED BY <1>0, <3>1, ZenonT(30) DEF Run
    <2>6. r.pc = "read" /\ r.cur = n /\ r.token = issued + 1
      BY <1>0 DEF Run
    <2>7. disp' \in [Dispatchers -> Run] /\ RunShape'
      <3> HIDE DEF r
      <3> QED BY <1>1, <2>1, <2>5, <2>6, <2>n, RunStep
    <2> QED BY <1>0, <1>1, <2>1, <2>4, <2>7 DEF TypeInv, TypeOK
  <1>3. CASE ~Claimable(n, disp[d].now)
    <2> DEFINE r == [disp[d] EXCEPT !.cands = @ \ {n}]
    <2>1. disp' = [disp EXCEPT ![d] = r]
      BY <1>0, <1>3 DEF Claim
    <2>2. r \in Run /\ r.pc = "claim"
      BY <1>0 DEF Run
    <2>3. UNCHANGED <<clock, rows, issued, replay, observed>>
      BY <1>3 DEF Claim, observed
    <2> HIDE DEF r
    <2> QED BY <1>0, <2>1, <2>2, <2>3, QuietRunStep DEF Busy
  <1> QED BY <1>2, <1>3

\* reading the claimed row,
LEMMA ReadType ==
    ASSUME TypeInv, NEW d \in Dispatchers, NEW recipient \in Recipients,
           ReadClaimed(d, recipient)
    PROVE  TypeInv'
  <1> DEFINE n == disp[d].cur
  <1>0. /\ disp[d] \in Run /\ disp \in [Dispatchers -> Run] /\ rows \in [Ids -> Row]
        /\ crashes' \in Nat /\ disp[d].pc = "read"
        /\ n \in Ids /\ disp[d].token \in 1..issued
    BY DEF TypeInv, TypeOK, ReadClaimed, RunShape, Busy
  <1>1. UNCHANGED <<clock, rows, issued, replay, observed>>
    BY DEF ReadClaimed
  <1>2. CASE rows[n].lease # disp[d].token
    <2>1. disp' = [disp EXCEPT ![d] = NextCandidate(d)]
      BY <1>2 DEF ReadClaimed
    <2> QED BY <1>0, <1>1, <2>1, NextCandidateType, QuietRunStep DEF Busy
  <1>3. CASE rows[n].lease = disp[d].token
    <2> DEFINE a == rows[n].attempt
               p == IF recipient = "fit" THEN "deliver" ELSE "settle"
               o == IF recipient = "fit" THEN "none" ELSE recipient
               r == [disp[d] EXCEPT !.attempt = a, !.pc = p, !.outcome = o]
    <2>1. disp' = [disp EXCEPT ![d] = r]
      BY <1>3 DEF ReadClaimed
    <2>2. a \in 1..MaxAttempts /\ a \in 0..MaxAttempts
      BY <1>0, <1>3 DEF TypeInv, LeaseShape, TypeOK, Row
    <2>3. /\ p \in {"deliver", "settle"} /\ o \in Outcomes \cup Recipients \cup {"none"}
          /\ p \in {"idle", "recover-select", "recover", "claim", "read", "deliver", "settle"}
      BY DEF Recipients
    <2>4. r \in Run
      <3> HIDE DEF a, p, o
      <3> QED BY <1>0, <2>2, <2>3, ZenonT(30) DEF Run
    <2>5. r.pc = p /\ r.cur = n /\ r.token = disp[d].token /\ r.attempt = a
      <3> HIDE DEF a, p, o
      <3> QED BY <1>0 DEF Run
    <2> HIDE DEF a, p, o, r
    <2> QED BY <1>0, <1>1, <2>1, <2>2, <2>3, <2>4, <2>5, QuietRunStep DEF Busy
  <1> QED BY <1>2, <1>3

\* calling the adapter,
LEMMA DeliverType ==
    ASSUME TypeInv, NEW d \in Dispatchers, NEW outcome \in Outcomes, NEW taken \in BOOLEAN,
           Deliver(d, outcome, taken)
    PROVE  TypeInv'
  <1> DEFINE n == disp[d].cur
             r == [disp[d] EXCEPT !.pc = "settle", !.outcome = outcome]
  <1>0. /\ disp[d] \in Run /\ disp \in [Dispatchers -> Run] /\ rows \in [Ids -> Row]
        /\ disp[d].pc = "deliver" /\ issued \in Nat
        /\ n \in Ids /\ disp[d].token \in 1..issued /\ disp[d].attempt \in 1..MaxAttempts
    BY DEF TypeInv, TypeOK, Deliver, RunShape, Busy
  <1>1. disp' = [disp EXCEPT ![d] = r]
    BY DEF Deliver
  <1>2. r \in Run
    BY <1>0, ZenonT(30) DEF Run
  <1>3. r.pc = "settle" /\ r.cur = n /\ r.token = disp[d].token /\ r.attempt = disp[d].attempt
    BY <1>0 DEF Run
  <1>4. UNCHANGED <<clock, rows, issued, replay, audits, claimedAt, crashes>>
    BY DEF Deliver
  <1>5. disp' \in [Dispatchers -> Run] /\ RunShape'
    <2> HIDE DEF r
    <2>1. issued' \in Nat /\ issued <= issued' /\ issued' = issued
      BY <1>0, <1>4
    <2> QED BY <1>0, <1>1, <1>2, <1>3, <2>1, RunStep
  <1>6. calls' \in [Ids -> [1..MaxAttempts -> Nat]]
    <2> DEFINE g == [calls[n] EXCEPT ![disp[d].attempt] = @ + 1]
    <2>1. calls' = [calls EXCEPT ![n] = g]
      BY DEF Deliver
    <2>2. g \in [1..MaxAttempts -> Nat]
      <3>1. calls[n] \in [1..MaxAttempts -> Nat]
        BY <1>0 DEF TypeInv, TypeOK
      <3> QED BY <1>0, <3>1, CountUp
    <2> HIDE DEF g
    <2> QED BY <1>0, <2>1, <2>2 DEF TypeInv, TypeOK
  <1>7. accepted' \in [Ids -> SUBSET (1..MaxAttempts)]
    <2>1. accepted' = IF taken THEN [accepted EXCEPT ![n] = @ \cup {disp[d].attempt}]
                      ELSE accepted
      BY DEF Deliver
    <2> QED BY <1>0, <2>1 DEF TypeInv, TypeOK
  <1>8. LeaseShape'
    BY <1>4 DEF TypeInv, LeaseShape
  <1> QED BY <1>4, <1>5, <1>6, <1>7, <1>8 DEF TypeInv, TypeOK

\* recording the outcome, with its failure, and leaving an outcome unknown,
LEMMA SettleType ==
    ASSUME TypeInv, NEW d \in Dispatchers,
           Settle(d) \/ RecordingFails(d) \/ LeaveUnknown(d)
    PROVE  TypeInv'
  <1>0. /\ disp[d] \in Run /\ disp \in [Dispatchers -> Run] /\ rows \in [Ids -> Row]
        /\ disp[d].pc = "settle" /\ issued \in Nat /\ crashes \in Nat
        /\ disp[d].cur \in Ids /\ disp[d].token \in 1..issued
        /\ disp[d].attempt \in 1..MaxAttempts
    BY DEF TypeInv, TypeOK, Settle, RecordingFails, LeaveUnknown, RunShape, Busy
  <1> DEFINE f == [disp[d] EXCEPT !.outcome = "temporary-failure"]
  <1>1. /\ f \in Run /\ f.pc = "settle" /\ f.cur = disp[d].cur /\ f.token = disp[d].token
        /\ f.attempt = disp[d].attempt
    <2>1. "temporary-failure" \in Outcomes \cup Recipients \cup {"none"}
      BY DEF Outcomes
    <2>2. f \in Run
      BY <1>0, <2>1, ZenonT(30) DEF Run
    <2> QED BY <1>0, <2>2 DEF Run
  <1>2. PICK r \in {NextCandidate(d), f} : disp' = [disp EXCEPT ![d] = r]
    BY <1>0 DEF Settle, RecordingFails, LeaveUnknown
  <1>3. /\ r \in Run
        /\ r.pc \in Busy => r.cur \in Ids /\ r.token \in 1..issued
        /\ r.pc \in {"deliver", "settle"} => r.attempt \in 1..MaxAttempts
    <2>1. CASE r = f
      BY <1>0, <1>1, <2>1
    <2>2. CASE r = NextCandidate(d)
      BY <1>0, <2>2, NextCandidateType DEF Busy
    <2> QED BY <2>1, <2>2
  <1>4. crashes' \in Nat
    BY <1>0 DEF Settle, RecordingFails, LeaveUnknown
  <1> HIDE DEF f
  <1>5. CASE SettlingBatch(d)
    <2>1. issued' \in Nat /\ issued <= issued' /\ issued' = issued
      BY <1>0, <1>5 DEF SettlingBatch
    <2>2. disp' \in [Dispatchers -> Run] /\ RunShape'
      BY <1>2, <1>3, <2>1, RunStep
    <2>3. /\ rows' \in [Ids -> Row] /\ LeaseShape'
          /\ audits' \in [Ids -> [Terminal -> Nat]]
      BY <1>0, <1>5, SettlingBatchType
    <2> QED BY <1>4, <1>5, <2>2, <2>3 DEF TypeInv, TypeOK, SettlingBatch
  <1>6. CASE UNCHANGED <<clock, rows, issued, replay, observed>>
    BY <1>2, <1>3, <1>4, <1>6, QuietRunStep
  <1> QED BY <1>5, <1>6 DEF Settle, RecordingFails, LeaveUnknown

\* beginning, ending and dying.
LEMMA EndsType ==
    ASSUME TypeInv, NEW d \in Dispatchers, NEW kinds \in {Kinds, OwnerKinds},
           BeginDispatch(d, kinds) \/ EndDispatch(d) \/ Crash(d)
    PROVE  TypeInv'
  <1> DEFINE b == [Idle EXCEPT !.pc = "recover-select", !.now = clock, !.kinds = kinds]
  <1>1. kinds \in SUBSET Kinds /\ clock \in Nat /\ crashes \in Nat
    BY DEF Kinds, OwnerKinds, TypeInv, TypeOK
  <1>2. b \in Run /\ b.pc = "recover-select" /\ Idle \in Run
    BY <1>1, IdleType
  <1>3. Idle.pc = "idle"
    BY DEF Idle
  <1>4. PICK r \in {Idle, b} : disp' = [disp EXCEPT ![d] = r]
    BY DEF BeginDispatch, EndDispatch, Crash
  <1>5. r \in Run /\ r.pc \notin Busy /\ r.pc \notin {"deliver", "settle"}
    <2> HIDE DEF b
    <2> QED BY <1>2, <1>3, <1>4 DEF Busy
  <1>6. UNCHANGED <<clock, rows, issued, replay, observed>> /\ crashes' \in Nat
    BY <1>1 DEF BeginDispatch, EndDispatch, Crash
  <1> QED BY <1>4, <1>5, <1>6, QuietRunStep

\* So do the steps of the environment: an insert, a deletion, the clock,
LEMMA EnvironmentType ==
    ASSUME TypeInv, Environment
    PROVE  TypeInv'
  <1>1. CASE Tick
    BY <1>1 DEF Tick, TypeInv, TypeOK, RunShape, LeaseShape, observed
  <1>2. ASSUME NEW n \in Ids, NEW recipient \in Accounts, NEW subject \in Accounts,
               Enqueue(n, KindOf(recipient, subject), {recipient, subject})
        PROVE  TypeInv'
    <2> DEFINE q == NewRow(KindOf(recipient, subject), {recipient, subject}, clock, None)
    <2>1. q \in Row
      <3>1. KindOf(recipient, subject) \in Kinds /\ clock \in Nat
        BY DEF KindOf, Kinds, TypeInv, TypeOK
      <3> QED BY <3>1, NewRowType
    <2>2. q.lease = 0 /\ q.state = "pending"
      BY RowFields DEF TypeInv
    <2>3. rows' = [rows EXCEPT ![n] = q] /\ UNCHANGED <<clock, issued, disp, replay, observed, crashes>>
      BY <1>2 DEF Enqueue
    <2>4. issued' \in Nat /\ issued <= issued' /\ q.lease <= issued' /\ q.state # "delivering"
      BY <2>2, <2>3 DEF TypeInv, TypeOK
    <2> HIDE DEF q
    <2>5. rows' \in [Ids -> Row] /\ LeaseShape'
      BY <2>1, <2>2, <2>3, <2>4, RowStep
    <2> QED BY <2>3, <2>5 DEF TypeInv, TypeOK, RunShape, observed
  <1>3. ASSUME NEW a \in Accounts, DeleteAccount(a)
        PROVE  TypeInv'
    <2> DEFINE t == [NoRow EXCEPT !.state = "deleted"]
    <2>1. t \in Row /\ t.lease = 0 /\ t.state = "deleted"
      <3>1. "learner" \in Kinds /\ {} \in SUBSET Accounts /\ 0 \in Nat /\ None \in Ids \cup {None}
        BY DEF Kinds
      <3> QED BY <3>1, NewRowType DEF NoRow
    <2> HIDE DEF t
    <2>2. /\ rows' = [n \in Ids |-> IF rows[n].state \in Stored /\ a \in rows[n].parties
                                    THEN t ELSE rows[n]]
          /\ UNCHANGED <<clock, issued, disp, replay, observed, crashes>>
      BY <1>3 DEF DeleteAccount, t
    <2>3. rows' \in [Ids -> Row]
      BY <2>1, <2>2 DEF TypeInv, TypeOK
    <2>4. LeaseShape'
      BY <2>1, <2>2 DEF TypeInv, TypeOK, LeaseShape
    <2> QED BY <2>2, <2>3, <2>4 DEF TypeInv, TypeOK, RunShape, observed
  <1> QED BY <1>1, <1>2, <1>3 DEF Environment

\* and the steps of a replay request.
LEMMA ReplayType ==
    ASSUME TypeInv, NEW r \in Replayers,
           (\E asked \in SUBSET Ids : ReplayRead(r, asked)) \/ ReplayStep(r)
    PROVE  TypeInv'
  <1> DEFINE Req == [pc : {"idle", "commit", "recheck", "answered", "refused"},
                     now : Nat, asked : SUBSET Ids, sources : SUBSET Ids]
  <1>0. replay \in [Replayers -> Req] /\ replay[r] \in Req
    BY DEF TypeInv, TypeOK
  <1>1. ASSUME NEW asked \in SUBSET Ids, ReplayRead(r, asked)
        PROVE  TypeInv'
    <2> DEFINE S == {n \in asked : ~HasReplay(n)}
               q == [pc |-> IF S = {} THEN "answered" ELSE "commit",
                     now |-> clock, asked |-> asked, sources |-> S]
    <2>1. replay' = [replay EXCEPT ![r] = q] /\ UNCHANGED <<clock, rows, issued, disp, observed, crashes>>
      BY <1>1 DEF ReplayRead
    <2>2. q \in Req
      BY DEF TypeInv, TypeOK
    <2> HIDE DEF q
    <2> QED BY <1>0, <2>1, <2>2 DEF TypeInv, TypeOK, RunShape, LeaseShape, observed
  <1>2. ASSUME NEW ids \in [replay[r].sources -> Ids], ReplayCommit(r, ids)
        PROVE  TypeInv'
    <2> DEFINE sources == replay[r].sources
               live == {n \in sources : rows[n].state = "dead-letter"}
               failed == AlreadyLinked(sources)
               kept == IF failed \/ (Transactional /\ live # sources) THEN {} ELSE live
               pick(m) == CHOOSE k \in kept : ids[k] = m
               fresh(m) == NewRow(rows[pick(m)].kind, rows[pick(m)].parties, replay[r].now, pick(m))
    <2>1. rows' = [m \in Ids |-> IF \E n \in kept : ids[n] = m THEN fresh(m) ELSE rows[m]]
      BY <1>2 DEF ReplayCommit
    <2>2. kept \subseteq Ids /\ replay[r].now \in Nat
      BY SMTT(30), <1>0
    <2>3. ASSUME NEW m \in Ids, \E n \in kept : ids[n] = m
          PROVE  fresh(m) \in Row /\ fresh(m).lease = 0 /\ fresh(m).state = "pending"
      <3>1. pick(m) \in Ids
        <4> HIDE DEF kept
        <4> QED BY <2>2, <2>3
      <3>2. rows[pick(m)].kind \in Kinds /\ rows[pick(m)].parties \in SUBSET Accounts
        <4> HIDE DEF pick
        <4> QED BY <3>1 DEF TypeInv, TypeOK, Row
      <3>3. fresh(m) \in Row
        <4> HIDE DEF pick
        <4> QED BY <2>2, <3>1, <3>2, NewRowType
      <3>4. fresh(m).lease = 0 /\ fresh(m).state = "pending"
        <4> HIDE DEF pick
        <4> QED BY <3>1, RowFields DEF TypeInv
      <3> QED BY <3>3, <3>4
    <2> HIDE DEF kept, fresh
    <2>4. UNCHANGED <<clock, issued, disp, observed, crashes>>
      BY <1>2 DEF ReplayCommit
    <2>5. rows' \in [Ids -> Row]
      BY <2>1, <2>3 DEF TypeInv, TypeOK
    <2>6. LeaseShape'
      <3> SUFFICES ASSUME NEW m \in Ids
                   PROVE  /\ rows'[m].lease <= issued
                          /\ rows'[m].state # "delivering" => rows'[m].lease = 0
                          /\ rows'[m].state = "delivering" => rows'[m].attempt \in 1..MaxAttempts
        BY <2>4 DEF LeaseShape
      <3>1. CASE \E n \in kept : ids[n] = m
        BY <2>1, <2>3, <3>1 DEF TypeInv, TypeOK
      <3>2. CASE ~ \E n \in kept : ids[n] = m
        BY <2>1, <3>2 DEF TypeInv, LeaseShape
      <3> QED BY <3>1, <3>2
    <2>7. replay' \in [Replayers -> Req]
      <3>1. replay' = [replay EXCEPT ![r].pc =
                         IF ~failed /\ live = sources THEN "answered" ELSE "recheck"]
        BY <1>2 DEF ReplayCommit
      <3> QED BY <1>0, <3>1
    <2> QED BY <2>4, <2>5, <2>6, <2>7 DEF TypeInv, TypeOK, RunShape, observed
  <1>3. CASE ReplayRecheck(r) \/ ReplayReturn(r)
    <2>1. UNCHANGED <<clock, rows, issued, disp, observed, crashes>>
      BY <1>3 DEF ReplayRecheck, ReplayReturn
    <2>2. NoReplay \in Req
      BY DEF NoReplay
    <2>3. replay' \in [Replayers -> Req]
      BY <1>0, <1>3, <2>2 DEF ReplayRecheck, ReplayReturn
    <2> QED BY <2>1, <2>3 DEF TypeInv, TypeOK, RunShape, LeaseShape, observed
  <1> QED BY <1>1, <1>2, <1>3 DEF ReplayStep

\* The inductive step of type correctness, one action after another.
LEMMA TypeInvNext == TypeInv /\ [Next]_vars => TypeInv'
  <1> SUFFICES ASSUME TypeInv, [Next]_vars PROVE TypeInv'
    OBVIOUS
  <1>1. CASE Environment
    BY <1>1, EnvironmentType
  <1>2. ASSUME NEW d \in Dispatchers, NEW kinds \in {Kinds, OwnerKinds},
               BeginDispatch(d, kinds)
        PROVE  TypeInv'
    BY <1>2, EndsType
  <1>3. ASSUME NEW d \in Dispatchers, DispatchStep(d)
        PROVE  TypeInv'
    <2>1. CASE SelectExpired(d) \/ SelectCandidates(d)
      BY <2>1, SelectType
    <2>2. CASE \E e \in disp[d].expired : RecoverLease(d, e)
      BY <2>2, RecoverType
    <2>3. CASE \E n \in disp[d].cands : Claim(d, n)
      BY <2>3, ClaimType
    <2>4. CASE \E recipient \in Recipients : ReadClaimed(d, recipient)
      BY <2>4, ReadType
    <2>5. CASE \E outcome \in Outcomes, taken \in BOOLEAN : Deliver(d, outcome, taken)
      BY <2>5, DeliverType
    <2>6. CASE Settle(d) \/ LeaveUnknown(d)
      BY <2>6, SettleType
    <2>7. CASE EndDispatch(d)
      BY <2>7, EndsType
    <2> QED BY <1>3, <2>1, <2>2, <2>3, <2>4, <2>5, <2>6, <2>7 DEF DispatchStep
  <1>4. ASSUME NEW d \in Dispatchers, RecordingFails(d)
        PROVE  TypeInv'
    BY <1>4, SettleType
  <1>5. ASSUME NEW d \in Dispatchers, Crash(d)
        PROVE  TypeInv'
    BY <1>5, EndsType
  <1>6. ASSUME NEW r \in Replayers,
               (\E asked \in SUBSET Ids : ReplayRead(r, asked)) \/ ReplayStep(r)
        PROVE  TypeInv'
    BY <1>6, ReplayType
  <1>7. CASE UNCHANGED vars
    BY <1>7 DEF vars, TypeInv, TypeOK, RunShape, LeaseShape
  <1> QED BY <1>1, <1>2, <1>3, <1>4, <1>5, <1>6, <1>7 DEF Next

\* The outbox keeps its types whatever runs, dies or is deleted, for any
\* number of notifications and runs: the attempt counter of a row stays within
\* max_attempts, so the table's attempt guard never fails a claiming batch.
THEOREM TypeCorrect == Spec => []TypeOK
  <1>1. TypeInv => TypeOK
    BY DEF TypeInv
  <1> QED BY <1>1, TypeInvInit, TypeInvNext, PTL DEF Spec

-----------------------------------------------------------------------------
(* What a step can do to a row *)

\* It is inserted,
Inserted(n) ==
    rows[n].state = "unused" /\ rows'[n].state = "pending"
    /\ rows'[n].lease = 0 /\ rows'[n].attempt = 0

\* it goes with its account,
Deleted(n) ==
    rows[n].state \in Stored /\ rows'[n].state = "deleted" /\ rows'[n].lease = 0

\* a run takes it under a fresh lease,
Taken(n) ==
    /\ rows[n].state \in InQueue /\ rows'[n].state = "delivering"
    /\ rows'[n].lease = issued + 1 /\ issued' = issued + 1
    /\ rows'[n].attempt = rows[n].attempt + 1

\* or its lease ends; as delivered only by the run that holds it.
GivenUp(n) ==
    /\ rows[n].state = "delivering"
    /\ rows'[n].state \in {"retryable"} \cup Terminal
    /\ rows'[n].lease = 0 /\ rows'[n].attempt = rows[n].attempt
    /\ rows'[n].state = "delivered" =>
         \E d \in Dispatchers : /\ disp[d].pc = "settle" /\ disp[d].outcome = "ok"
                                /\ disp[d].cur = n /\ HoldsLease(d)

RowMove(n) ==
    rows'[n] = rows[n] \/ Inserted(n) \/ Deleted(n) \/ Taken(n) \/ GivenUp(n)

\* A settling batch gives its row up or leaves the table alone.
LEMMA SettlingMove ==
    ASSUME TypeInv, NEW d \in Dispatchers, disp[d].pc = "settle", SettlingBatch(d),
           NEW n \in Ids
    PROVE  rows'[n] = rows[n] \/ GivenUp(n)
  <1> DEFINE m == disp[d].cur
             to == SettledState(disp[d].outcome, disp[d].attempt)
             at == DueAgain(d, to)
  <1>1. rows' = IF HoldsLease(d) THEN [rows EXCEPT ![m] = Released(m, to, at)] ELSE rows
    BY DEF SettlingBatch
  <1>2. /\ to \in {"retryable"} \cup Terminal
        /\ to = "delivered" => disp[d].outcome = "ok"
    BY DEF SettledState, Terminal
  <1>3. rows \in [Ids -> Row]
    BY DEF TypeInv, TypeOK
  <1> HIDE DEF to, at
  <1>4. CASE HoldsLease(d) /\ n = m
    <2>1. rows'[n] = Released(n, to, at)
      BY <1>1, <1>3, <1>4
    <2>2. rows[n].state = "delivering"
      BY <1>4 DEF HoldsLease
    <2> QED BY <1>2, <1>4, <2>1, <2>2, RowFields DEF GivenUp, TypeInv
  <1>5. CASE ~(HoldsLease(d) /\ n = m)
    BY <1>1, <1>3, <1>5
  <1> QED BY <1>4, <1>5

\* Every step moves each row in one of these ways.
LEMMA RowMoves ==
    ASSUME TypeInv, [Next]_vars, NEW n \in Ids
    PROVE  RowMove(n)
  <1>0. rows \in [Ids -> Row]
    BY DEF TypeInv, TypeOK
  <1>1. CASE Environment
    <2>1. CASE Tick
      BY <2>1 DEF Tick, RowMove
    <2>2. ASSUME NEW m \in Ids, NEW kind, NEW parties, Enqueue(m, kind, parties)
          PROVE  RowMove(n)
      <3>1. CASE m = n
        <4>1. rows[n].state = "unused" /\ rows'[n] = NewRow(kind, parties, clock, None)
          BY <1>0, <2>2, <3>1 DEF Enqueue
        <4> QED BY <4>1, RowFields DEF RowMove, Inserted, TypeInv
      <3>2. CASE m # n
        BY <1>0, <2>2, <3>2 DEF Enqueue, RowMove
      <3> QED BY <3>1, <3>2
    <2>3. ASSUME NEW a \in Accounts, DeleteAccount(a)
          PROVE  RowMove(n)
      BY <2>3, RowFields DEF DeleteAccount, RowMove, Deleted, TypeInv
    <2> QED BY <1>1, <2>1, <2>2, <2>3 DEF Environment
  <1>2. ASSUME NEW d \in Dispatchers, NEW e \in disp[d].expired, RecoverLease(d, e)
        PROVE  RowMove(n)
    <2> DEFINE to == IF e.attempt >= MaxAttempts THEN "dead-letter" ELSE "retryable"
    <2>1. rows' = IF LeaseExpired(e.id, disp[d].now)
                  THEN [rows EXCEPT ![e.id] = Released(e.id, to, disp[d].now)] ELSE rows
      BY <1>2 DEF RecoverLease
    <2>2. to \in {"retryable"} \cup Terminal /\ to # "delivered"
      BY DEF Terminal
    <2> HIDE DEF to
    <2>3. CASE LeaseExpired(e.id, disp[d].now) /\ n = e.id
      <3>1. rows'[n] = Released(n, to, disp[d].now) /\ rows[n].state = "delivering"
        BY <1>0, <2>1, <2>3 DEF LeaseExpired
      <3> QED BY <2>2, <3>1, RowFields DEF RowMove, GivenUp, TypeInv
    <2>4. CASE ~(LeaseExpired(e.id, disp[d].now) /\ n = e.id)
      BY <1>0, <2>1, <2>4 DEF RowMove
    <2> QED BY <2>3, <2>4
  <1>3. ASSUME NEW d \in Dispatchers, NEW m \in disp[d].cands, Claim(d, m)
        PROVE  RowMove(n)
    <2>1. CASE Claimable(m, disp[d].now) /\ n = m
      <3>1. /\ rows'[n] = Claimed(n, issued + 1, disp[d].now) /\ issued' = issued + 1
            /\ rows[n].state \in InQueue
        BY <1>0, <1>3, <2>1 DEF Claim, Claimable
      <3> QED BY <3>1, RowFields DEF RowMove, Taken, TypeInv
    <2>2. CASE ~(Claimable(m, disp[d].now) /\ n = m)
      BY <1>0, <1>3, <2>2 DEF Claim, RowMove
    <2> QED BY <2>1, <2>2
  <1>4. ASSUME NEW d \in Dispatchers, Settle(d) \/ RecordingFails(d)
        PROVE  RowMove(n)
    <2>1. disp[d].pc = "settle" /\ (SettlingBatch(d) \/ rows' = rows)
      BY <1>4 DEF Settle, RecordingFails
    <2> QED BY <2>1, SettlingMove DEF RowMove
  <1>5. ASSUME NEW d \in Dispatchers, DispatchStep(d)
        PROVE  RowMove(n)
    <2>1. CASE SelectExpired(d) \/ SelectCandidates(d) \/ LeaveUnknown(d) \/ EndDispatch(d)
      BY <2>1 DEF SelectExpired, SelectCandidates, LeaveUnknown, EndDispatch, RowMove
    <2>2. CASE \E recipient \in Recipients : ReadClaimed(d, recipient)
      BY <2>2 DEF ReadClaimed, RowMove
    <2>3. CASE \E outcome \in Outcomes, taken \in BOOLEAN : Deliver(d, outcome, taken)
      BY <2>3 DEF Deliver, RowMove
    <2> QED BY <1>2, <1>3, <1>4, <1>5, <2>1, <2>2, <2>3 DEF DispatchStep
  <1>6. ASSUME NEW d \in Dispatchers, NEW kinds, BeginDispatch(d, kinds) \/ Crash(d)
        PROVE  RowMove(n)
    BY <1>6 DEF BeginDispatch, Crash, RowMove
  <1>7. ASSUME NEW r \in Replayers, NEW ids \in [replay[r].sources -> Ids], ReplayCommit(r, ids)
        PROVE  RowMove(n)
    <2> DEFINE sources == replay[r].sources
               live == {k \in sources : rows[k].state = "dead-letter"}
               failed == AlreadyLinked(sources)
               kept == IF failed \/ (Transactional /\ live # sources) THEN {} ELSE live
               pick == CHOOSE k \in kept : ids[k] = n
               fresh == NewRow(rows[pick].kind, rows[pick].parties, replay[r].now, pick)
    <2>1. rows'[n] = IF \E k \in kept : ids[k] = n THEN fresh ELSE rows[n]
      BY <1>7 DEF ReplayCommit
    <2>2. kept \subseteq sources
      OBVIOUS
    <2>3. \A k \in sources : rows[ids[k]].state = "unused"
      BY <1>7 DEF ReplayCommit
    <2>4. fresh.state = "pending" /\ fresh.lease = 0 /\ fresh.attempt = 0
      <3> HIDE DEF pick
      <3> QED BY RowFields DEF TypeInv
    <2> HIDE DEF kept, fresh
    <2> QED BY <2>1, <2>2, <2>3, <2>4 DEF RowMove, Inserted
  <1>8. ASSUME NEW r \in Replayers,
               (\E asked \in SUBSET Ids : ReplayRead(r, asked))
                 \/ ReplayRecheck(r) \/ ReplayReturn(r)
        PROVE  RowMove(n)
    BY <1>8 DEF ReplayRead, ReplayRecheck, ReplayReturn, RowMove
  <1>9. CASE UNCHANGED vars
    BY <1>9 DEF vars, RowMove
  <1> QED BY <1>1, <1>4, <1>5, <1>6, <1>7, <1>8, <1>9 DEF Next, ReplayStep

\* Delivered and dead-letter rows are final for any number of concurrent runs
\* and replays: whatever a late, stale or repeated statement does, it leaves a
\* settled row as it is, and only the account's deletion removes it.
THEOREM SettledRowsAreFinal == Spec => TerminalIsFinal
  <1>1. ASSUME TypeInv, [Next]_vars
        PROVE  [\A n \in Ids : rows[n].state \in Terminal =>
                   rows'[n] = rows[n] \/ rows'[n].state = "deleted"]_rows
    <2>1. ASSUME NEW n \in Ids, rows[n].state \in Terminal
          PROVE  rows'[n] = rows[n] \/ rows'[n].state = "deleted"
      <3>1. RowMove(n)
        BY <1>1, RowMoves
      <3> QED BY <2>1, <3>1
            DEF RowMove, Inserted, Deleted, Taken, GivenUp, Terminal, InQueue
    <2> QED BY <2>1
  <1> QED BY <1>1, TypeInvInit, TypeInvNext, PTL DEF Spec, TerminalIsFinal

-----------------------------------------------------------------------------
(* What a step can do to a run *)

\* It stops working on a row, or goes on preparing to,
Retires(d) == disp'[d].pc \notin Busy /\ calls' = calls /\ accepted' = accepted

\* it takes a row under a fresh token,
Takes(d) ==
    /\ disp'[d].pc = "read" /\ disp'[d].token = issued + 1 /\ issued' = issued + 1
    /\ calls' = calls /\ accepted' = accepted

\* it reads the row that it holds,
Reads(d) ==
    /\ disp[d].pc = "read" /\ disp'[d].pc \in {"deliver", "settle"} /\ disp'[d].outcome # "ok"
    /\ disp'[d].cur = disp[d].cur /\ disp'[d].token = disp[d].token
    /\ rows[disp[d].cur].lease = disp[d].token
    /\ disp'[d].attempt = rows[disp[d].cur].attempt
    /\ rows' = rows /\ calls' = calls /\ accepted' = accepted

\* it calls the adapter,
Calls(d) ==
    /\ disp[d].pc = "deliver" /\ disp'[d].pc = "settle"
    /\ disp'[d].cur = disp[d].cur /\ disp'[d].token = disp[d].token
    /\ disp'[d].attempt = disp[d].attempt
    /\ calls' = [calls EXCEPT ![disp[d].cur] =
                   [calls[disp[d].cur] EXCEPT ![disp[d].attempt] = @ + 1]]
    /\ \A n \in Ids : accepted[n] \subseteq accepted'[n]
    /\ disp'[d].outcome = "ok" => disp[d].attempt \in accepted'[disp[d].cur]
    /\ rows' = rows

\* or fails to record a delivery.
Fails(d) ==
    /\ disp[d].pc = "settle" /\ disp'[d].pc = "settle" /\ disp'[d].outcome # "ok"
    /\ disp'[d].cur = disp[d].cur /\ disp'[d].token = disp[d].token
    /\ disp'[d].attempt = disp[d].attempt
    /\ calls' = calls /\ accepted' = accepted

RunMove(d) == Retires(d) \/ Takes(d) \/ Reads(d) \/ Calls(d) \/ Fails(d)

\* At most one run moves in a step.
RunsMove ==
    \/ disp' = disp /\ calls' = calls /\ accepted' = accepted
    \/ \E d \in Dispatchers : RunMove(d) /\ \A e \in Dispatchers \ {d} : disp'[e] = disp[e]

\* Every step moves the runs in one of these ways.
LEMMA RunMoves ==
    ASSUME TypeInv, [Next]_vars
    PROVE  RunsMove
  <1>0. disp \in [Dispatchers -> Run]
    BY DEF TypeInv, TypeOK
  <1>1. CASE Environment \/ UNCHANGED vars
           \/ \E r \in Replayers : (\E asked \in SUBSET Ids : ReplayRead(r, asked)) \/ ReplayStep(r)
    <2>1. disp' = disp /\ calls' = calls /\ accepted' = accepted
      BY <1>1 DEF Environment, Tick, Enqueue, DeleteAccount, vars, ReplayRead, ReplayStep,
                  ReplayCommit, ReplayRecheck, ReplayReturn, observed
    <2> QED BY <2>1 DEF RunsMove
  <1>2. ASSUME NEW d \in Dispatchers, NEW r, disp' = [disp EXCEPT ![d] = r],
               r.pc \notin Busy, calls' = calls, accepted' = accepted
        PROVE  RunsMove
    BY <1>0, <1>2 DEF RunsMove, RunMove, Retires
  <1>3. ASSUME NEW d \in Dispatchers, NEW kinds \in {Kinds, OwnerKinds},
               BeginDispatch(d, kinds) \/ EndDispatch(d) \/ Crash(d)
        PROVE  RunsMove
    <2> DEFINE b == [Idle EXCEPT !.pc = "recover-select", !.now = clock, !.kinds = kinds]
    <2>1. kinds \in SUBSET Kinds /\ clock \in Nat
      BY DEF Kinds, OwnerKinds, TypeInv, TypeOK
    <2>2. b.pc \notin Busy /\ Idle.pc \notin Busy
      <3>1. b.pc = "recover-select" /\ Idle.pc = "idle"
        BY <2>1, IdleType DEF Idle
      <3> HIDE DEF b
      <3> QED BY <3>1 DEF Busy
    <2>3. disp' = [disp EXCEPT ![d] = Idle] \/ disp' = [disp EXCEPT ![d] = b]
      BY <1>3 DEF BeginDispatch, EndDispatch, Crash
    <2>4. calls' = calls /\ accepted' = accepted
      BY <1>3 DEF BeginDispatch, EndDispatch, Crash, observed
    <2> HIDE DEF b
    <2> QED BY <1>2, <2>2, <2>3, <2>4
  <1>4. ASSUME NEW d \in Dispatchers, SelectExpired(d) \/ SelectCandidates(d)
        PROVE  RunsMove
    <2>1. disp[d] \in Run
      BY SMTT(30), <1>0
    <2>2. \E X : \/ disp' = [disp EXCEPT ![d] = [disp[d] EXCEPT !.pc = "recover", !.expired = X]]
                 \/ disp' = [disp EXCEPT ![d] = [disp[d] EXCEPT !.pc = "claim", !.cands = X]]
      BY <1>4 DEF SelectExpired, SelectCandidates
    <2>3. \A X : /\ [disp[d] EXCEPT !.pc = "recover", !.expired = X].pc = "recover"
                 /\ [disp[d] EXCEPT !.pc = "claim", !.cands = X].pc = "claim"
      BY <2>1 DEF Run
    <2>4. calls' = calls /\ accepted' = accepted
      BY <1>4 DEF SelectExpired, SelectCandidates, observed
    <2>5. \E r : disp' = [disp EXCEPT ![d] = r] /\ r.pc \in {"recover", "claim"}
      BY <2>2, <2>3
    <2>6. PICK r : disp' = [disp EXCEPT ![d] = r] /\ r.pc \in {"recover", "claim"}
      BY <2>5
    <2>7. disp'[d] = r /\ \A e \in Dispatchers \ {d} : disp'[e] = disp[e]
      BY <1>0, <2>6
    <2>8. disp'[d].pc \notin Busy
      BY <2>6, <2>7 DEF Busy
    <2> QED BY <2>4, <2>7, <2>8 DEF RunsMove, RunMove, Retires
  <1>5. ASSUME NEW d \in Dispatchers, NEW x \in disp[d].expired, RecoverLease(d, x)
        PROVE  RunsMove
    <2>1. /\ disp' = [disp EXCEPT ![d].expired = @ \ {x}] /\ disp[d].pc = "recover"
          /\ calls' = calls /\ accepted' = accepted
      BY <1>5 DEF RecoverLease
    <2>2. disp'[d].pc = "recover" /\ \A e \in Dispatchers \ {d} : disp'[e] = disp[e]
      BY <1>0, <2>1 DEF Run
    <2> QED BY <2>1, <2>2 DEF RunsMove, RunMove, Retires, Busy
  <1>6. ASSUME NEW d \in Dispatchers, NEW n \in disp[d].cands, Claim(d, n)
        PROVE  RunsMove
    <2>0. disp[d] \in Run /\ disp[d].pc = "claim"
      BY <1>0, <1>6 DEF Claim
    <2>1. CASE Claimable(n, disp[d].now)
      <3> DEFINE r == [disp[d] EXCEPT !.pc = "read", !.cands = @ \ {n},
                                      !.cur = n, !.token = issued + 1]
      <3>1. /\ disp' = [disp EXCEPT ![d] = r] /\ issued' = issued + 1
            /\ calls' = calls /\ accepted' = accepted
        BY <1>6, <2>1 DEF Claim
      <3>2. r.pc = "read" /\ r.token = issued + 1
        BY <2>0 DEF Run
      <3> HIDE DEF r
      <3> QED BY <1>0, <3>1, <3>2 DEF RunsMove, RunMove, Takes
    <2>2. CASE ~Claimable(n, disp[d].now)
      <3>1. /\ disp' = [disp EXCEPT ![d].cands = @ \ {n}]
            /\ calls' = calls /\ accepted' = accepted
        BY <1>6, <2>2 DEF Claim
      <3>2. disp'[d].pc = "claim" /\ \A e \in Dispatchers \ {d} : disp'[e] = disp[e]
        BY <1>0, <2>0, <3>1 DEF Run
      <3> QED BY <3>1, <3>2 DEF RunsMove, RunMove, Retires, Busy
    <2> QED BY <2>1, <2>2
  <1>7. ASSUME NEW d \in Dispatchers, NEW recipient \in Recipients, ReadClaimed(d, recipient)
        PROVE  RunsMove
    <2>0. /\ disp[d] \in Run /\ disp[d].pc = "read"
          /\ rows' = rows /\ calls' = calls /\ accepted' = accepted
      BY <1>0, <1>7 DEF ReadClaimed, observed
    <2>1. CASE rows[disp[d].cur].lease # disp[d].token
      <3>1. disp' = [disp EXCEPT ![d] = NextCandidate(d)]
        BY <1>7, <2>1 DEF ReadClaimed
      <3>2. NextCandidate(d).pc \notin Busy
        BY <1>0, NextCandidateType DEF Busy
      <3> QED BY <1>2, <2>0, <3>1, <3>2
    <2>2. CASE rows[disp[d].cur].lease = disp[d].token
      <3> DEFINE p == IF recipient = "fit" THEN "deliver" ELSE "settle"
                 o == IF recipient = "fit" THEN "none" ELSE recipient
                 r == [disp[d] EXCEPT !.attempt = rows[disp[d].cur].attempt,
                                      !.pc = p, !.outcome = o]
      <3>1. disp' = [disp EXCEPT ![d] = r]
        BY <1>7, <2>2 DEF ReadClaimed
      <3>2. p \in {"deliver", "settle"} /\ o # "ok"
        BY DEF Recipients
      <3>3. /\ r.pc = p /\ r.outcome = o /\ r.cur = disp[d].cur /\ r.token = disp[d].token
            /\ r.attempt = rows[disp[d].cur].attempt
        <4> HIDE DEF p, o
        <4> QED BY <2>0 DEF Run
      <3> HIDE DEF p, o, r
      <3>4. disp'[d] = r /\ \A e \in Dispatchers \ {d} : disp'[e] = disp[e]
        BY <1>0, <3>1
      <3> QED BY <2>0, <2>2, <3>2, <3>3, <3>4 DEF RunsMove, RunMove, Reads
    <2> QED BY <2>1, <2>2
  <1>8. ASSUME NEW d \in Dispatchers, NEW outcome \in Outcomes, NEW taken \in BOOLEAN,
               Deliver(d, outcome, taken)
        PROVE  RunsMove
    <2> DEFINE n == disp[d].cur
               r == [disp[d] EXCEPT !.pc = "settle", !.outcome = outcome]
    <2>0. disp[d] \in Run /\ disp[d].pc = "deliver" /\ n \in Ids /\ disp[d].attempt \in 1..MaxAttempts
      BY <1>0, <1>8 DEF Deliver, TypeInv, RunShape, Busy
    <2>1. /\ disp' = [disp EXCEPT ![d] = r] /\ rows' = rows
          /\ calls' = [calls EXCEPT ![n] = [calls[n] EXCEPT ![disp[d].attempt] = @ + 1]]
      BY <1>8 DEF Deliver
    <2>2. /\ r.pc = "settle" /\ r.outcome = outcome /\ r.cur = n
          /\ r.token = disp[d].token /\ r.attempt = disp[d].attempt
      BY <2>0 DEF Run
    <2>3. /\ \A m \in Ids : accepted[m] \subseteq accepted'[m]
          /\ outcome = "ok" => disp[d].attempt \in accepted'[n]
      <3>1. /\ accepted' = IF taken THEN [accepted EXCEPT ![n] = @ \cup {disp[d].attempt}]
                           ELSE accepted
            /\ outcome = "ok" => taken
        BY <1>8 DEF Deliver
      <3>2. accepted \in [Ids -> SUBSET (1..MaxAttempts)]
        BY DEF TypeInv, TypeOK
      <3> HIDE DEF r
      <3>3. \A m \in Ids : accepted[m] \subseteq accepted'[m]
        BY <2>0, <3>1, <3>2
      <3>4. taken => disp[d].attempt \in accepted'[n]
        BY <2>0, <3>1, <3>2
      <3> QED BY <3>1, <3>3, <3>4
    <2> HIDE DEF r
    <2>4. disp'[d] = r /\ \A e \in Dispatchers \ {d} : disp'[e] = disp[e]
      BY <1>0, <2>1
    <2> QED BY <2>0, <2>1, <2>2, <2>3, <2>4 DEF RunsMove, RunMove, Calls
  <1>9. ASSUME NEW d \in Dispatchers, Settle(d) \/ RecordingFails(d) \/ LeaveUnknown(d)
        PROVE  RunsMove
    <2> DEFINE f == [disp[d] EXCEPT !.outcome = "temporary-failure"]
    <2>0. disp[d] \in Run /\ disp[d].pc = "settle" /\ calls' = calls /\ accepted' = accepted
      BY <1>0, <1>9 DEF Settle, RecordingFails, LeaveUnknown, SettlingBatch, observed
    <2>1. CASE disp' = [disp EXCEPT ![d] = NextCandidate(d)]
      <3>1. NextCandidate(d).pc \notin Busy
        BY <1>0, NextCandidateType DEF Busy
      <3> QED BY <1>2, <2>0, <2>1, <3>1
    <2>2. CASE disp' = [disp EXCEPT ![d] = f]
      <3>1. /\ f.pc = "settle" /\ f.outcome = "temporary-failure" /\ f.cur = disp[d].cur
            /\ f.token = disp[d].token /\ f.attempt = disp[d].attempt
        BY <2>0 DEF Run
      <3> HIDE DEF f
      <3>2. disp'[d] = f /\ \A e \in Dispatchers \ {d} : disp'[e] = disp[e]
        BY <1>0, <2>2
      <3> QED BY <2>0, <3>1, <3>2 DEF RunsMove, RunMove, Fails
    <2> QED BY <1>0, <1>9, <2>1, <2>2 DEF Settle, RecordingFails, LeaveUnknown
  <1> QED BY <1>1, <1>3, <1>4, <1>5, <1>6, <1>7, <1>8, <1>9 DEF Next, DispatchStep

-----------------------------------------------------------------------------
(* A recorded delivery was accepted *)

LEMMA DeliveryInvInit == Init => DeliveryInv
  <1>1. Init => /\ \A d \in Dispatchers : disp[d].pc = "idle"
                /\ \A n \in Ids : rows[n].state = "unused"
    BY DEF Init, Idle, NoRow
  <1> QED BY <1>1, TypeInvInit
        DEF DeliveryInv, HolderIsCurrent, OkWasAccepted, DeliveredWasAccepted

\* A run that keeps its row through a step works under a lease that, if the
\* row still carries it, was there before the step and for the same attempt.
LEMMA LeaseIsOld ==
    ASSUME TypeInv, [Next]_vars, NEW n \in Ids, NEW t \in 1..issued, rows'[n].lease = t
    PROVE  rows[n].lease = t /\ rows'[n].attempt = rows[n].attempt /\ rows'[n] = rows[n]
  <1>1. RowMove(n)
    BY RowMoves
  <1>2. issued \in Nat /\ t > 0 /\ t # issued + 1
    BY DEF TypeInv, TypeOK
  <1> QED BY <1>1, <1>2 DEF RowMove, Inserted, Deleted, Taken, GivenUp

LEMMA DeliveryInvNext == DeliveryInv /\ [Next]_vars => DeliveryInv'
  <1> SUFFICES ASSUME DeliveryInv, [Next]_vars PROVE DeliveryInv'
    OBVIOUS
  <1> USE DEF DeliveryInv
  <1>1. TypeInv'
    BY TypeInvNext
  <1>2. RunsMove
    BY RunMoves
  <1>3. \A n \in Ids : accepted[n] \subseteq accepted'[n]
    BY <1>2 DEF RunsMove, RunMove, Retires, Takes, Reads, Calls, Fails
  <1>4. HolderIsCurrent'
    <2> SUFFICES ASSUME NEW d \in Dispatchers, disp'[d].pc \in {"deliver", "settle"},
                        rows'[disp'[d].cur].lease = disp'[d].token
                 PROVE  disp'[d].attempt = rows'[disp'[d].cur].attempt
      BY DEF HolderIsCurrent
    <2>1. CASE disp'[d] = disp[d] \/ Calls(d) \/ Fails(d)
      <3>1. /\ disp[d].pc \in {"deliver", "settle"} /\ disp'[d].cur = disp[d].cur
            /\ disp'[d].token = disp[d].token /\ disp'[d].attempt = disp[d].attempt
        BY <2>1 DEF Calls, Fails
      <3>2. disp[d].cur \in Ids /\ disp[d].token \in 1..issued
        BY <3>1 DEF TypeInv, RunShape, Busy
      <3>3. rows[disp[d].cur].lease = disp[d].token
            /\ rows'[disp[d].cur].attempt = rows[disp[d].cur].attempt
        BY <3>1, <3>2, LeaseIsOld
      <3> QED BY <3>1, <3>3 DEF HolderIsCurrent
    <2>2. CASE Reads(d)
      BY <2>2 DEF Reads
    <2>3. CASE Retires(d) \/ Takes(d)
      BY <2>3 DEF Retires, Takes, Busy
    <2> QED BY <1>2, <2>1, <2>2, <2>3 DEF RunsMove, RunMove
  <1>5. OkWasAccepted'
    <2> SUFFICES ASSUME NEW d \in Dispatchers, disp'[d].pc = "settle", disp'[d].outcome = "ok"
                 PROVE  disp'[d].attempt \in accepted'[disp'[d].cur]
      BY DEF OkWasAccepted
    <2>1. CASE disp'[d] = disp[d]
      <3>1. disp[d].cur \in Ids
        BY <2>1 DEF TypeInv, RunShape, Busy
      <3> QED BY <1>3, <2>1, <3>1 DEF OkWasAccepted
    <2>2. CASE Calls(d)
      BY <2>2 DEF Calls
    <2>3. CASE Retires(d) \/ Takes(d) \/ Reads(d) \/ Fails(d)
      BY <2>3 DEF Retires, Takes, Reads, Fails, Busy
    <2> QED BY <1>2, <2>1, <2>2, <2>3 DEF RunsMove, RunMove
  <1>6. DeliveredWasAccepted'
    <2> SUFFICES ASSUME NEW n \in Ids, rows'[n].state = "delivered"
                 PROVE  rows'[n].attempt \in accepted'[n]
      BY DEF DeliveredWasAccepted
    <2>1. RowMove(n)
      BY RowMoves
    <2>2. CASE rows'[n] = rows[n]
      BY <1>3, <2>2 DEF DeliveredWasAccepted
    <2>3. CASE GivenUp(n)
      <3>1. PICK d \in Dispatchers : /\ disp[d].pc = "settle" /\ disp[d].outcome = "ok"
                                     /\ disp[d].cur = n /\ HoldsLease(d)
        BY <2>3 DEF GivenUp
      <3>2. disp[d].attempt = rows[n].attempt
        BY <3>1 DEF HolderIsCurrent, HoldsLease
      <3>3. disp[d].attempt \in accepted[n]
        BY <3>1 DEF OkWasAccepted
      <3> QED BY <1>3, <2>3, <3>2, <3>3 DEF GivenUp
    <2>4. CASE Inserted(n) \/ Deleted(n) \/ Taken(n)
      BY <2>4 DEF Inserted, Deleted, Taken
    <2> QED BY <2>1, <2>2, <2>3, <2>4 DEF RowMove
  <1> QED BY <1>1, <1>4, <1>5, <1>6

\* For any number of runs, replays and deletions: a row is only ever recorded
\* as delivered for an attempt that the provider accepted.  A run whose lease
\* was taken over cannot record its late answer on the newer attempt.
THEOREM RecordedDeliveryWasAccepted == Spec => []DeliveredWasAccepted
  <1>1. DeliveryInv => DeliveredWasAccepted
    BY DEF DeliveryInv
  <1> QED BY <1>1, DeliveryInvInit, DeliveryInvNext, PTL DEF Spec

-----------------------------------------------------------------------------
(* One call for each attempt *)

LEMMA CallInvInit == Init => CallInv
  <1>1. Init => /\ \A d \in Dispatchers : disp[d].pc = "idle"
                /\ \A n \in Ids : rows[n].state = "unused" /\ rows[n].attempt = 0
                /\ \A n \in Ids, a \in 1..MaxAttempts : calls[n][a] = 0
    BY DEF Init, Idle, NoRow
  <1> QED BY <1>1, TypeInvInit
        DEF CallInv, TokensDiffer, PendingCallIsFirst, ClaimedIsUntried, FutureIsUntried,
            OneCallPerAttempt, Untried, InCall, Busy

\* What a step does to the number of calls.
LEMMA CallsStep ==
    ASSUME TypeInv, RunsMove, NEW n \in Ids, NEW a \in 1..MaxAttempts
    PROVE  \/ calls'[n][a] = calls[n][a]
           \/ /\ calls'[n][a] = calls[n][a] + 1
              /\ \E x \in Dispatchers : Calls(x) /\ InCall(x, n, a)
  <1>1. calls \in [Ids -> [1..MaxAttempts -> Nat]]
    BY DEF TypeInv, TypeOK
  <1>2. CASE calls' = calls
    BY <1>2
  <1>3. ASSUME NEW x \in Dispatchers, Calls(x)
        PROVE  \/ calls'[n][a] = calls[n][a]
               \/ calls'[n][a] = calls[n][a] + 1 /\ InCall(x, n, a)
    <2> DEFINE c == disp[x].cur
               b == disp[x].attempt
               g == [calls[c] EXCEPT ![b] = @ + 1]
    <2>1. calls' = [calls EXCEPT ![c] = g] /\ disp[x].pc = "deliver"
      BY <1>3 DEF Calls
    <2>2. c \in Ids /\ b \in 1..MaxAttempts
      BY <2>1 DEF TypeInv, RunShape, Busy
    <2>3. calls'[n] = IF n = c THEN g ELSE calls[n]
      BY <1>1, <2>1, <2>2
    <2>4. g[a] = IF a = b THEN calls[c][a] + 1 ELSE calls[c][a]
      BY <1>1, <2>2
    <2> QED BY <2>1, <2>3, <2>4 DEF InCall
  <1> QED BY <1>2, <1>3 DEF RunsMove, RunMove, Retires, Takes, Reads, Fails

\* A step that lets a run prepare a call has read the row of that attempt.
LEMMA InCallStep ==
    ASSUME RunsMove, NEW x \in Dispatchers, NEW n \in Ids, NEW a, InCall(x, n, a)'
    PROVE  \/ InCall(x, n, a) /\ disp'[x] = disp[x]
           \/ Reads(x) /\ disp[x].cur = n /\ rows[n].attempt = a
  BY ZenonT(40) DEF RunsMove, RunMove, Retires, Takes, Reads, Calls, Fails, InCall, Busy

\* An untried attempt stays untried unless its row is read under its lease.
LEMMA UntriedStep ==
    ASSUME TypeInv, RunsMove, NEW n \in Ids, NEW a \in 1..MaxAttempts, Untried(n, a),
           \A x \in Dispatchers : ~(Reads(x) /\ disp[x].cur = n /\ rows[n].attempt = a)
    PROVE  Untried(n, a)'
  <1>1. calls'[n][a] = 0
    BY CallsStep DEF Untried
  <1>2. \A x \in Dispatchers : ~InCall(x, n, a)'
    BY InCallStep DEF Untried
  <1> QED BY <1>1, <1>2 DEF Untried

LEMMA CallInvNext == CallInv /\ [Next]_vars => CallInv'
  <1> SUFFICES ASSUME CallInv, [Next]_vars PROVE CallInv'
    OBVIOUS
  <1> USE DEF CallInv
  <1>1. TypeInv'
    BY TypeInvNext
  <1>2. RunsMove
    BY RunMoves
  <1>3. \A d \in Dispatchers : disp[d].pc \in Busy => disp[d].cur \in Ids /\ disp[d].token \in 1..issued
    BY DEF TypeInv, RunShape
  <1>4. issued \in Nat
    BY DEF TypeInv, TypeOK
  <1>5. TokensDiffer'
    <2> SUFFICES ASSUME NEW d \in Dispatchers, NEW e \in Dispatchers, d # e,
                        disp'[d].pc \in Busy, disp'[e].pc \in Busy
                 PROVE  disp'[d].token # disp'[e].token
      BY DEF TokensDiffer
    <2>1. \A x \in Dispatchers : disp'[x].pc \in Busy =>
             \/ disp[x].pc \in Busy /\ disp'[x].token = disp[x].token
             \/ Takes(x)
      BY <1>2 DEF RunsMove, RunMove, Retires, Takes, Reads, Calls, Fails, Busy
    <2>2. \A x \in Dispatchers : disp'[x] = disp[x] => ~Takes(x) \/ disp[x].token = issued + 1
      BY DEF Takes
    <2>3. disp'[d] = disp[d] \/ disp'[e] = disp[e]
      BY <1>2 DEF RunsMove
    <2>4. \A x \in Dispatchers : disp'[x] = disp[x] /\ disp'[x].pc \in Busy
             => disp[x].pc \in Busy /\ disp'[x].token = disp[x].token /\ disp[x].token # issued + 1
      BY <1>3, <1>4
    <2>5. \A x \in Dispatchers : Takes(x) => disp'[x].token = issued + 1
      BY DEF Takes
    <2> QED BY <2>1, <2>3, <2>4, <2>5 DEF TokensDiffer
  <1>6. PendingCallIsFirst'
    <2> SUFFICES ASSUME NEW d \in Dispatchers, NEW n \in Ids, NEW a \in 1..MaxAttempts,
                        InCall(d, n, a)'
                 PROVE  /\ calls'[n][a] = 0
                        /\ \A e \in Dispatchers \ {d} : ~InCall(e, n, a)'
      BY <1>1 DEF PendingCallIsFirst, InCall, TypeInv, RunShape, Busy
    <2>3. CASE InCall(d, n, a) /\ disp'[d] = disp[d]
      <3>1. calls[n][a] = 0 /\ \A e \in Dispatchers \ {d} : ~InCall(e, n, a)
        BY <2>3 DEF PendingCallIsFirst, InCall
      <3>2. ~Calls(d)
        BY <2>3 DEF Calls, InCall
      <3>3. calls'[n][a] = 0
        BY <1>2, <3>1, <3>2, CallsStep
      <3>4. \A e \in Dispatchers : ~(Reads(e) /\ disp[e].cur = n /\ rows[n].attempt = a)
        BY <2>3 DEF ClaimedIsUntried, Untried, Reads
      <3>5. \A e \in Dispatchers \ {d} : ~InCall(e, n, a)'
        BY <1>2, <3>1, <3>4, InCallStep
      <3> QED BY <3>3, <3>5
    <2>4. CASE Reads(d) /\ disp[d].cur = n /\ rows[n].attempt = a
      <3>1. Untried(n, a)
        BY <2>4 DEF ClaimedIsUntried, Reads
      <3>2. \A e \in Dispatchers \ {d} : disp'[e] = disp[e]
        <4>1. disp'[d] # disp[d]
          BY <2>4 DEF Reads
        <4> QED BY <1>2, <4>1 DEF RunsMove
      <3>3. calls'[n][a] = 0
        BY <2>4, <3>1 DEF Reads, Untried
      <3>4. \A e \in Dispatchers \ {d} : ~InCall(e, n, a)'
        BY <3>1, <3>2 DEF Untried, InCall
      <3> QED BY <3>3, <3>4
    <2> QED BY <1>2, <2>3, <2>4, InCallStep
  <1>7. ClaimedIsUntried'
    <2> SUFFICES ASSUME NEW d \in Dispatchers, NEW n \in Ids, NEW a \in Nat,
                        disp'[d].pc = "read", disp'[d].cur = n,
                        rows'[n].lease = disp'[d].token, rows'[n].attempt = a
                 PROVE  Untried(n, a)'
      <3>1. ASSUME NEW d \in Dispatchers, disp'[d].pc = "read",
                   rows'[disp'[d].cur].lease = disp'[d].token
            PROVE  \E n \in Ids, a \in Nat : /\ disp'[d].cur = n /\ rows'[n].attempt = a
                                            /\ calls'[n][a] = 0
                                            /\ \A e \in Dispatchers : ~InCall(e, n, a)'
        <4>1. disp'[d].cur \in Ids
          BY <1>1, <3>1 DEF TypeInv, RunShape, Busy
        <4>2. rows'[disp'[d].cur].attempt \in Nat
          BY <1>1, <4>1 DEF TypeInv, TypeOK, Row
        <4> QED BY <3>1, <4>1, <4>2 DEF Untried
      <3> QED BY <3>1 DEF ClaimedIsUntried, Untried, InCall
    <2>1. disp'[d].token # 0
      BY <1>1 DEF TypeInv, RunShape, Busy
    <2>2. a \in 1..MaxAttempts
      BY <1>1, <2>1 DEF TypeInv, LeaseShape
    <2>3. disp'[d] = disp[d] \/ Takes(d)
      BY <1>2 DEF RunsMove, RunMove, Retires, Takes, Reads, Calls, Fails, Busy
    <2>4. CASE disp'[d] = disp[d]
      <3>1. disp[d].pc = "read" /\ disp[d].cur = n /\ disp[d].token \in 1..issued
        BY <1>3, <2>4 DEF Busy
      <3>2. rows[n].lease = disp[d].token /\ rows[n].attempt = a
        BY <2>1, <2>4, <3>1, LeaseIsOld
      <3>3. Untried(n, a)
        BY <3>1, <3>2 DEF ClaimedIsUntried
      <3>4. \A x \in Dispatchers : ~(Reads(x) /\ disp[x].cur = n)
        <4> SUFFICES ASSUME NEW x \in Dispatchers, Reads(x), disp[x].cur = n PROVE FALSE
          OBVIOUS
        <4>1. x # d
          BY <2>4, <3>1 DEF Reads
        <4>2. disp[x].token = disp[d].token /\ disp[x].pc \in Busy /\ disp[d].pc \in Busy
          BY <3>1, <3>2 DEF Reads, Busy
        <4> QED BY <4>1, <4>2 DEF TokensDiffer
      <3>5. Untried(n, a)'
        BY <1>2, <2>2, <3>3, <3>4, UntriedStep
      <3> QED BY <3>5
    <2>5. CASE Takes(d)
      <3>1. rows'[n].lease = issued + 1
        BY <2>5 DEF Takes
      <3>2. Taken(n)
        <4>1. RowMove(n)
          BY <2>1, RowMoves
        <4>2. rows[n].lease \in Nat /\ rows[n].lease <= issued
          BY <2>1 DEF TypeInv, TypeOK, LeaseShape, Row
        <4> QED BY <1>4, <3>1, <4>1, <4>2 DEF RowMove, Inserted, Deleted, GivenUp
      <3>3. a = rows[n].attempt + 1 /\ rows[n].state # "deleted" /\ rows[n].attempt \in Nat
        BY <2>1, <3>2 DEF Taken, InQueue, TypeInv, TypeOK, Row
      <3>4. Untried(n, a) /\ rows[n].attempt # a
        <4> QED BY <2>1, <2>2, <3>3 DEF FutureIsUntried
      <3>5. Untried(n, a)'
        BY <1>2, <2>2, <3>4, UntriedStep
      <3> QED BY <3>5
    <2> QED BY <2>3, <2>4, <2>5
  <1>8. FutureIsUntried'
    <2> SUFFICES ASSUME NEW n \in Ids, rows'[n].state # "deleted"
                 PROVE  /\ \A a \in 1..MaxAttempts : a > rows'[n].attempt => Untried(n, a)'
                        /\ rows'[n].state = "unused" => rows'[n].attempt = 0
      BY DEF FutureIsUntried
    <2>1. RowMove(n)
      BY RowMoves
    <2>2. rows[n].attempt \in Nat
      BY DEF TypeInv, TypeOK, Row
    <2>3. rows[n].state # "deleted"
      BY <2>1 DEF RowMove, Inserted, Deleted, Taken, GivenUp, InQueue
    <2>4. rows'[n].attempt >= rows[n].attempt
      <3>1. CASE Inserted(n)
        BY <2>3, <3>1 DEF Inserted, FutureIsUntried
      <3> QED BY <2>1, <2>2, <3>1 DEF RowMove, Deleted, Taken, GivenUp
    <2>5. ASSUME NEW a \in 1..MaxAttempts, a > rows'[n].attempt
          PROVE  Untried(n, a)'
      <3>0. rows'[n].attempt \in Nat
        BY <1>1 DEF TypeInv, TypeOK, Row
      <3>1. a > rows[n].attempt /\ a # rows[n].attempt
        BY <2>2, <2>4, <2>5, <3>0
      <3>2. Untried(n, a)
        BY <2>3, <3>1 DEF FutureIsUntried
      <3> QED BY <1>2, <3>1, <3>2, UntriedStep
    <2>6. rows'[n].state = "unused" => rows'[n].attempt = 0
      BY <2>1, <2>3 DEF RowMove, Inserted, Deleted, Taken, GivenUp, Terminal, FutureIsUntried
    <2> QED BY <2>5, <2>6
  <1>9. OneCallPerAttempt'
    <2> SUFFICES ASSUME NEW n \in Ids, NEW a \in 1..MaxAttempts PROVE calls'[n][a] <= 1
      BY DEF OneCallPerAttempt
    <2>1. CASE calls'[n][a] = calls[n][a]
      BY <2>1 DEF OneCallPerAttempt
    <2>2. ASSUME NEW x \in Dispatchers, InCall(x, n, a), calls'[n][a] = calls[n][a] + 1
          PROVE  calls'[n][a] <= 1
      BY <2>2 DEF PendingCallIsFirst, InCall
    <2> QED BY <1>2, <2>1, <2>2, CallsStep
  <1> QED BY <1>1, <1>5, <1>6, <1>7, <1>8, <1>9

\* For any number of runs that overlap, die, time out or lose their lease, the
\* provider is called at most once for each attempt of a notification, hence
\* at most max_attempts times for one notification.
THEOREM OneAdapterCallPerAttempt == Spec => []OneCallPerAttempt
  <1>1. CallInv => OneCallPerAttempt
    BY DEF CallInv
  <1> QED BY <1>1, CallInvInit, CallInvNext, PTL DEF Spec

-----------------------------------------------------------------------------
(***************************************************************************)
(* What the outbox keeps of the past: the audit trail, the spacing of the  *)
(* attempts, and the replacements of dead letters, on a database that      *)
(* rolls back and on one that does not.                                    *)
(***************************************************************************)
(* The audit trail *)

AuditInv == TypeInv /\ SettledIsAudited

\* A step settles no row, or it settles the one whose event its batch counts.
AuditMove ==
    \/ /\ audits' = audits
       /\ \A n \in Ids : rows'[n].state \in Terminal => rows'[n] = rows[n]
    \/ \E m \in Ids, to \in RowStates :
          /\ audits' = AuditIn(rows', m, to)
          /\ \A n \in Ids \ {m} : rows'[n] = rows[n]
          /\ rows'[m] = rows[m] \/ rows'[m].state = to

\* The settling batch counts the event of the row it settles.
LEMMA SettlingAudit ==
    ASSUME TypeInv, NEW d \in Dispatchers, disp[d].pc = "settle", SettlingBatch(d)
    PROVE  AuditMove
  <1> DEFINE m == disp[d].cur
             to == SettledState(disp[d].outcome, disp[d].attempt)
             at == DueAgain(d, to)
  <1>1. /\ rows' = IF HoldsLease(d) THEN [rows EXCEPT ![m] = Released(m, to, at)] ELSE rows
        /\ audits' = AuditIn(rows', m, to)
    BY DEF SettlingBatch
  <1>2. to \in RowStates /\ m \in Ids /\ rows \in [Ids -> Row]
    BY DEF SettledState, RowStates, Stored, Terminal, InQueue, TypeInv, TypeOK, RunShape, Busy
  <1> HIDE DEF to, at, m
  <1>3. Released(m, to, at).state = to
    BY <1>2, RowFields DEF TypeInv
  <1>4. /\ \A n \in Ids \ {m} : rows'[n] = rows[n]
        /\ rows'[m] = rows[m] \/ rows'[m].state = to
    BY <1>1, <1>2, <1>3
  <1> QED BY <1>1, <1>2, <1>4 DEF AuditMove

LEMMA RecoveryAudit ==
    ASSUME TypeInv, NEW d \in Dispatchers, NEW e \in disp[d].expired, RecoverLease(d, e)
    PROVE  AuditMove
  <1> DEFINE m == e.id
             to == IF e.attempt >= MaxAttempts THEN "dead-letter" ELSE "retryable"
  <1>1. /\ rows' = IF LeaseExpired(m, disp[d].now)
                   THEN [rows EXCEPT ![m] = Released(m, to, disp[d].now)] ELSE rows
        /\ audits' = AuditIn(rows', m, to)
    BY DEF RecoverLease
  <1>2. to \in RowStates /\ m \in Ids /\ rows \in [Ids -> Row]
    BY DEF RowStates, Stored, Terminal, InQueue, TypeInv, TypeOK, Run
  <1> HIDE DEF to, m
  <1>3. Released(m, to, disp[d].now).state = to
    BY <1>2, RowFields DEF TypeInv
  <1>4. /\ \A n \in Ids \ {m} : rows'[n] = rows[n]
        /\ rows'[m] = rows[m] \/ rows'[m].state = to
    BY <1>1, <1>2, <1>3
  <1> QED BY <1>1, <1>2, <1>4 DEF AuditMove

LEMMA AuditMoves == ASSUME TypeInv, [Next]_vars PROVE AuditMove
  <1>0. rows \in [Ids -> Row]
    BY DEF TypeInv, TypeOK
  <1>1. CASE rows' = rows /\ audits' = audits
    BY <1>1 DEF AuditMove
  <1>2. ASSUME NEW n \in Ids, NEW kind, NEW parties, Enqueue(n, kind, parties)
        PROVE  AuditMove
    <2>1. rows' = [rows EXCEPT ![n] = NewRow(kind, parties, clock, None)] /\ audits' = audits
      BY <1>2 DEF Enqueue, observed
    <2>2. NewRow(kind, parties, clock, None).state \notin Terminal
      BY RowFields DEF TypeInv, Terminal
    <2> QED BY <1>0, <2>1, <2>2 DEF AuditMove
  <1>3. ASSUME NEW a \in Accounts, DeleteAccount(a) PROVE AuditMove
    <2>1. /\ rows' = [n \in Ids |-> IF rows[n].state \in Stored /\ a \in rows[n].parties
                                    THEN [NoRow EXCEPT !.state = "deleted"] ELSE rows[n]]
          /\ audits' = audits
      BY <1>3 DEF DeleteAccount, observed
    <2>2. [NoRow EXCEPT !.state = "deleted"].state \notin Terminal
      BY DEF Terminal, NoRow
    <2> QED BY <1>0, <2>1, <2>2 DEF AuditMove
  <1>4. ASSUME NEW d \in Dispatchers, NEW n \in disp[d].cands, Claim(d, n) PROVE AuditMove
    <2>1. audits' = audits /\ n \in Ids
      BY <1>4 DEF Claim, TypeInv, TypeOK, Run
    <2>2. \/ rows' = rows
          \/ rows' = [rows EXCEPT ![n] = Claimed(n, issued + 1, disp[d].now)]
      BY <1>4 DEF Claim
    <2>3. Claimed(n, issued + 1, disp[d].now).state \notin Terminal
      BY <2>1, RowFields DEF TypeInv, Terminal
    <2> QED BY <1>0, <2>1, <2>2, <2>3 DEF AuditMove
  <1>5. ASSUME NEW r \in Replayers, NEW ids \in [replay[r].sources -> Ids], ReplayCommit(r, ids)
        PROVE  AuditMove
    <2>1. audits' = audits
      BY <1>5 DEF ReplayCommit, observed
    <2>2. ASSUME NEW m \in Ids PROVE rows'[m] = rows[m] \/ rows'[m].state = "pending"
      <3> DEFINE sources == replay[r].sources
                 live == {k \in sources : rows[k].state = "dead-letter"}
                 kept == IF AlreadyLinked(sources) \/ (Transactional /\ live # sources)
                         THEN {} ELSE live
                 pick == CHOOSE k \in kept : ids[k] = m
                 fresh == NewRow(rows[pick].kind, rows[pick].parties, replay[r].now, pick)
      <3>1. rows'[m] = IF \E k \in kept : ids[k] = m THEN fresh ELSE rows[m]
        BY <1>5 DEF ReplayCommit
      <3>2. fresh.state = "pending"
        <4> HIDE DEF pick
        <4> QED BY <2>2, RowFields DEF TypeInv
      <3> HIDE DEF kept, fresh
      <3> QED BY <3>1, <3>2
    <2> QED BY <2>1, <2>2 DEF AuditMove, Terminal
  <1>6. ASSUME NEW d \in Dispatchers, Settle(d) \/ RecordingFails(d) PROVE AuditMove
    <2>1. disp[d].pc = "settle" /\ (SettlingBatch(d) \/ (rows' = rows /\ audits' = audits))
      BY SMTT(30), <1>6 DEF Settle, RecordingFails, observed
    <2> QED BY <1>1, <2>1, SettlingAudit
  <1>7. CASE \/ Tick \/ UNCHANGED vars
             \/ \E d \in Dispatchers :
                   \/ \E kinds \in {Kinds, OwnerKinds} : BeginDispatch(d, kinds)
                   \/ SelectExpired(d) \/ SelectCandidates(d)
                   \/ \E recipient \in Recipients : ReadClaimed(d, recipient)
                   \/ \E outcome \in Outcomes, taken \in BOOLEAN : Deliver(d, outcome, taken)
                   \/ LeaveUnknown(d) \/ EndDispatch(d) \/ Crash(d)
             \/ \E r \in Replayers :
                   \/ \E asked \in SUBSET Ids : ReplayRead(r, asked)
                   \/ ReplayRecheck(r) \/ ReplayReturn(r)
    BY <1>1, <1>7 DEF Tick, vars, BeginDispatch, SelectExpired, SelectCandidates, ReadClaimed,
       Deliver, LeaveUnknown, EndDispatch, Crash, ReplayRead, ReplayRecheck, ReplayReturn, observed
  <1> QED BY <1>2, <1>3, <1>4, <1>5, <1>6, <1>7, RecoveryAudit
          DEF Next, Environment, DispatchStep, ReplayStep

\* The audit trail of any number of concurrent runs misses no settled notification: a batch
\* that settles a row counts its event, also if the batch takes effect and then fails.
THEOREM SettledRowsAreAudited == Spec => []SettledIsAudited
  <1>1. Init => SettledIsAudited
    BY DEF Init, SettledIsAudited, NoRow, Terminal
  <1>2. ASSUME AuditInv, [Next]_vars PROVE SettledIsAudited'
    <2>1. AuditMove /\ rows \in [Ids -> Row] /\ audits \in [Ids -> [Terminal -> Nat]]
      BY <1>2, AuditMoves DEF AuditInv, TypeInv, TypeOK
    <2>2. SUFFICES ASSUME NEW n \in Ids, rows'[n].state \in Terminal
                   PROVE  audits'[n][rows'[n].state] >= 1
      BY DEF SettledIsAudited
    <2>3. rows[n].state \in Terminal => audits[n][rows[n].state] >= 1
      BY <1>2 DEF AuditInv, SettledIsAudited
    <2>4. CASE audits' = audits /\ rows'[n] = rows[n]
      BY <2>2, <2>3, <2>4
    <2>5. ASSUME NEW m \in Ids, NEW to \in RowStates,
                 audits' = AuditIn(rows', m, to),
                 \A k \in Ids \ {m} : rows'[k] = rows[k],
                 rows'[m] = rows[m] \/ rows'[m].state = to
          PROVE  audits'[n][rows'[n].state] >= 1
      <3>1. /\ \A k \in Ids, s \in Terminal : audits'[k][s] >= audits[k][s]
            /\ to \in Terminal /\ rows'[m].state = to => audits'[m][to] >= 1
        <4>1. CASE to \in Terminal /\ rows'[m].state = to
          <5>1. audits' = [audits EXCEPT ![m] = [audits[m] EXCEPT ![to] = audits[m][to] + 1]]
            BY <2>5, <4>1 DEF AuditIn
          <5>2. audits[m] \in [Terminal -> Nat]
            BY <2>1
          <5>3. /\ audits'[m] = [audits[m] EXCEPT ![to] = audits[m][to] + 1]
                /\ \A k \in Ids \ {m} : audits'[k] = audits[k]
            BY <2>1, <5>1
          <5>4. audits'[m][to] = audits[m][to] + 1 /\ audits[m][to] \in Nat
            BY <4>1, <5>2, <5>3
          <5>5. \A s \in Terminal : audits'[m][s] >= audits[m][s]
            BY <5>2, <5>3, <5>4
          <5>6. \A k \in Ids \ {m}, s \in Terminal : audits'[k][s] >= audits[k][s]
            BY <2>1, <5>3
          <5> QED BY <5>4, <5>5, <5>6
        <4>2. CASE ~ (to \in Terminal /\ rows'[m].state = to)
          <5>1. audits' = audits
            BY <2>5, <4>2 DEF AuditIn
          <5> QED BY <2>1, <4>2, <5>1
        <4> QED BY <4>1, <4>2
      <3>2. CASE n = m /\ rows'[m].state = to
        BY <2>2, <3>1, <3>2
      <3>3. CASE rows'[n] = rows[n]
        <4>1. audits[n][rows'[n].state] \in Nat /\ audits'[n][rows'[n].state] >= audits[n][rows'[n].state]
          BY <2>1, <2>2, <3>1
        <4>2. audits[n][rows'[n].state] >= 1
          BY <2>2, <2>3, <3>3
        <4>3. audits'[n][rows'[n].state] \in Nat
          BY <1>2, <2>2, TypeInvNext DEF AuditInv, TypeInv, TypeOK
        <4> QED BY <4>1, <4>2, <4>3
      <3> QED BY <2>5, <3>2, <3>3
    <2> QED BY <2>1, <2>2, <2>4, <2>5 DEF AuditMove
  <1>3. Init => AuditInv
    BY <1>1, TypeInvInit DEF AuditInv
  <1>4. AuditInv /\ [Next]_vars => AuditInv'
    BY <1>2, TypeInvNext DEF AuditInv
  <1>5. AuditInv => SettledIsAudited
    BY DEF AuditInv
  <1> QED BY <1>3, <1>4, <1>5, PTL DEF Spec

-----------------------------------------------------------------------------
(* The spacing of the attempts *)

\* A run that holds its lease made the last claim of its row, at its own time.
HolderClaimed ==
    \A d \in Dispatchers :
        disp[d].pc \in Busy /\ rows[disp[d].cur].lease = disp[d].token
            => claimedAt[disp[d].cur] = disp[d].now

\* A lease counts from the claim.
LeaseSpan ==
    \A n \in Ids : rows[n].state = "delivering" =>
        rows[n].leaseExpires = claimedAt[n] + LeaseSeconds

\* A row that waits for another attempt is not due before the gap is over.
QueueSpaced ==
    \A n \in Ids : rows[n].state \in InQueue /\ rows[n].attempt > 0 =>
        rows[n].available >= claimedAt[n] + ClaimGap(rows[n].attempt)

SpacingInv == DeliveryInv /\ HolderClaimed /\ LeaseSpan /\ QueueSpaced

LEMMA MinOfTwo ==
    ASSUME NEW x \in Nat, NEW y \in Nat
    PROVE  Min({x, y}) \in Nat /\ Min({x, y}) <= x /\ Min({x, y}) <= y
  <1>1. \E m \in {x, y} : \A k \in {x, y} : m <= k
    <2>1. CASE x <= y
      BY <2>1
    <2>2. CASE y <= x
      BY <2>2
    <2> QED BY <2>1, <2>2
  <1> QED BY <1>1 DEF Min

LEMMA GapFits ==
    ASSUME NEW a \in 1..MaxAttempts
    PROVE  /\ ClaimGap(a) \in Nat /\ RetryDelay(a) \in Nat
           /\ ClaimGap(a) <= RetryDelay(a) /\ ClaimGap(a) <= LeaseSeconds
  <1>1. RetryDelay(a) \in Nat /\ LeaseSeconds \in Nat
    BY RetryDelayIsNat, OutboxConstants
  <1> QED BY <1>1, MinOfTwo DEF ClaimGap

\* What the updates of a row leave in the columns that hold a time.
LEMMA RowTimes ==
    ASSUME TypeOK, NEW n \in Ids
    PROVE  /\ \A to, at : Released(n, to, at).available = at
           /\ \A t, now : Claimed(n, t, now).leaseExpires = now + LeaseSeconds
  <1>1. rows[n] \in Row
    BY DEF TypeOK
  <1> QED BY <1>1 DEF Released, Claimed, Row

\* How a step moves row n, and at what time: not at all, into or out of the table,
Rests(n) == rows'[n] = rows[n] /\ claimedAt'[n] = claimedAt[n]

ComesOrGoes(n) ==
    rows'[n].attempt = 0 /\ rows'[n].state \in {"pending", "deleted"} /\ claimedAt'[n] = claimedAt[n]

\* to a run that finds it due,
IsClaimed(n) ==
    \E d \in Dispatchers : /\ Claimable(n, disp[d].now)
                           /\ rows'[n] = Claimed(n, issued + 1, disp[d].now)
                           /\ claimedAt'[n] = disp[d].now

\* or away from a run, by one that finds the lease expired or by its holder.
IsRecovered(n) ==
    /\ claimedAt'[n] = claimedAt[n]
    /\ \E d \in Dispatchers, to \in {"retryable", "dead-letter"} :
          LeaseExpired(n, disp[d].now) /\ rows'[n] = Released(n, to, disp[d].now)

IsSettled(n) ==
    /\ claimedAt'[n] = claimedAt[n]
    /\ \E d \in Dispatchers, to \in {"retryable"} \cup Terminal :
          /\ disp[d].pc = "settle" /\ disp[d].cur = n /\ HoldsLease(d)
          /\ rows'[n] = Released(n, to, DueAgain(d, to))

TimedMove(n) == Rests(n) \/ ComesOrGoes(n) \/ IsClaimed(n) \/ IsRecovered(n) \/ IsSettled(n)

LEMMA TimedMoves == ASSUME TypeInv, [Next]_vars, NEW n \in Ids PROVE TimedMove(n)
  <1>0. rows \in [Ids -> Row] /\ claimedAt \in [Ids -> Nat]
    BY DEF TypeInv, TypeOK
  <1>1. CASE rows' = rows /\ claimedAt' = claimedAt
    BY <1>1 DEF TimedMove, Rests
  <1>2. ASSUME NEW m \in Ids, NEW kind, NEW parties, Enqueue(m, kind, parties)
        PROVE  TimedMove(n)
    <2>1. rows' = [rows EXCEPT ![m] = NewRow(kind, parties, clock, None)] /\ claimedAt' = claimedAt
      BY <1>2 DEF Enqueue, observed
    <2>2. /\ NewRow(kind, parties, clock, None).state = "pending"
          /\ NewRow(kind, parties, clock, None).attempt = 0
      BY RowFields DEF TypeInv
    <2>3. rows'[n] = rows[n] \/ rows'[n] = NewRow(kind, parties, clock, None)
      BY <1>0, <2>1
    <2> QED BY <2>1, <2>2, <2>3 DEF TimedMove, Rests, ComesOrGoes
  <1>3. ASSUME NEW a \in Accounts, DeleteAccount(a) PROVE TimedMove(n)
    <2>1. /\ rows' = [m \in Ids |-> IF rows[m].state \in Stored /\ a \in rows[m].parties
                                    THEN [NoRow EXCEPT !.state = "deleted"] ELSE rows[m]]
          /\ claimedAt' = claimedAt
      BY <1>3 DEF DeleteAccount, observed
    <2>2. /\ [NoRow EXCEPT !.state = "deleted"].state = "deleted"
          /\ [NoRow EXCEPT !.state = "deleted"].attempt = 0
      BY DEF NoRow
    <2> QED BY <2>1, <2>2 DEF TimedMove, Rests, ComesOrGoes
  <1>4. ASSUME NEW d \in Dispatchers, NEW m \in disp[d].cands, Claim(d, m) PROVE TimedMove(n)
    <2>1. CASE Claimable(m, disp[d].now) /\ n = m
      <3>1. /\ rows'[n] = Claimed(n, issued + 1, disp[d].now)
            /\ claimedAt'[n] = disp[d].now
        BY <1>0, <1>4, <2>1 DEF Claim
      <3> QED BY <2>1, <3>1 DEF TimedMove, IsClaimed
    <2>2. CASE ~ (Claimable(m, disp[d].now) /\ n = m)
      <3>1. rows'[n] = rows[n] /\ claimedAt'[n] = claimedAt[n]
        BY <1>0, <1>4, <2>2 DEF Claim
      <3> QED BY <3>1 DEF TimedMove, Rests
    <2> QED BY <2>1, <2>2
  <1>5. ASSUME NEW d \in Dispatchers, NEW e \in disp[d].expired, RecoverLease(d, e)
        PROVE  TimedMove(n)
    <2> DEFINE to == IF e.attempt >= MaxAttempts THEN "dead-letter" ELSE "retryable"
    <2>1. /\ rows' = IF LeaseExpired(e.id, disp[d].now)
                     THEN [rows EXCEPT ![e.id] = Released(e.id, to, disp[d].now)] ELSE rows
          /\ claimedAt' = claimedAt
      BY <1>5 DEF RecoverLease
    <2>2. to \in {"retryable", "dead-letter"}
      OBVIOUS
    <2> HIDE DEF to
    <2>3. CASE LeaseExpired(e.id, disp[d].now) /\ n = e.id
      <3>1. rows'[n] = Released(n, to, disp[d].now)
        BY <1>0, <2>1, <2>3
      <3> QED BY <2>1, <2>2, <2>3, <3>1 DEF TimedMove, IsRecovered
    <2>4. CASE ~ (LeaseExpired(e.id, disp[d].now) /\ n = e.id)
      BY <1>0, <2>1, <2>4 DEF TimedMove, Rests
    <2> QED BY <2>3, <2>4
  <1>6. ASSUME NEW d \in Dispatchers, Settle(d) \/ RecordingFails(d) PROVE TimedMove(n)
    <2> DEFINE to == SettledState(disp[d].outcome, disp[d].attempt)
               m == disp[d].cur
    <2>1. /\ disp[d].pc = "settle"
          /\ SettlingBatch(d) \/ (rows' = rows /\ claimedAt' = claimedAt)
      BY <1>6 DEF Settle, RecordingFails, observed
    <2>2. CASE SettlingBatch(d)
      <3>1. /\ rows' = IF HoldsLease(d) THEN [rows EXCEPT ![m] = Released(m, to, DueAgain(d, to))]
                       ELSE rows
            /\ claimedAt' = claimedAt
        BY <2>2 DEF SettlingBatch
      <3>2. to \in {"retryable"} \cup Terminal
        BY DEF SettledState, Terminal
      <3> HIDE DEF to
      <3>3. CASE HoldsLease(d) /\ n = m
        <4>1. rows'[n] = Released(n, to, DueAgain(d, to))
          BY <1>0, <3>1, <3>3
        <4> QED BY <2>1, <3>1, <3>2, <3>3, <4>1 DEF TimedMove, IsSettled
      <3>4. CASE ~ (HoldsLease(d) /\ n = m)
        BY <1>0, <3>1, <3>4 DEF TimedMove, Rests
      <3> QED BY <3>3, <3>4
    <2> QED BY <1>1, <2>1, <2>2
  <1>7. ASSUME NEW r \in Replayers, NEW ids \in [replay[r].sources -> Ids], ReplayCommit(r, ids)
        PROVE  TimedMove(n)
    <2> DEFINE sources == replay[r].sources
               live == {k \in sources : rows[k].state = "dead-letter"}
               kept == IF AlreadyLinked(sources) \/ (Transactional /\ live # sources)
                       THEN {} ELSE live
               pick == CHOOSE k \in kept : ids[k] = n
               fresh == NewRow(rows[pick].kind, rows[pick].parties, replay[r].now, pick)
    <2>1. /\ rows'[n] = IF \E k \in kept : ids[k] = n THEN fresh ELSE rows[n]
          /\ claimedAt' = claimedAt
      BY <1>7 DEF ReplayCommit, observed
    <2>2. fresh.state = "pending" /\ fresh.attempt = 0
      <3> HIDE DEF pick
      <3> QED BY SMTT(30), RowFields DEF TypeInv
    <2> HIDE DEF kept, fresh
    <2> QED BY <2>1, <2>2 DEF TimedMove, Rests, ComesOrGoes
  <1>8. CASE \/ Tick \/ UNCHANGED vars
             \/ \E d \in Dispatchers :
                   \/ \E kinds \in {Kinds, OwnerKinds} : BeginDispatch(d, kinds)
                   \/ SelectExpired(d) \/ SelectCandidates(d)
                   \/ \E recipient \in Recipients : ReadClaimed(d, recipient)
                   \/ \E outcome \in Outcomes, taken \in BOOLEAN : Deliver(d, outcome, taken)
                   \/ LeaveUnknown(d) \/ EndDispatch(d) \/ Crash(d)
             \/ \E r \in Replayers :
                   \/ \E asked \in SUBSET Ids : ReplayRead(r, asked)
                   \/ ReplayRecheck(r) \/ ReplayReturn(r)
    BY ZenonT(40), <1>1, <1>8 DEF Tick, vars, BeginDispatch, SelectExpired, SelectCandidates, ReadClaimed,
       Deliver, LeaveUnknown, EndDispatch, Crash, ReplayRead, ReplayRecheck, ReplayReturn, observed
  <1> QED BY <1>2, <1>3, <1>4, <1>5, <1>6, <1>7, <1>8
          DEF Next, Environment, DispatchStep, ReplayStep

\* A run at work on a row keeps the row, its token and its time, or it has just
\* claimed the row.
Keeps(d) ==
    /\ disp[d].pc \in Busy /\ disp'[d].cur = disp[d].cur
    /\ disp'[d].token = disp[d].token /\ disp'[d].now = disp[d].now

Begins(d) == disp'[d].token = issued + 1 /\ claimedAt'[disp'[d].cur] = disp'[d].now

LEMMA RunsKeepTime ==
    ASSUME TypeInv, [Next]_vars, NEW d \in Dispatchers, disp'[d].pc \in Busy
    PROVE  Keeps(d) \/ Begins(d)
  <1>0. /\ disp \in [Dispatchers -> Run] /\ disp[d] \in Run
        /\ claimedAt \in [Ids -> Nat]
    BY DEF TypeInv, TypeOK
  <1>1. CASE disp'[d] = disp[d]
    BY <1>1 DEF Keeps
  <1>2. ASSUME NEW e \in Dispatchers, NEW n \in disp[e].cands, Claim(e, n)
        PROVE  Keeps(d) \/ Begins(d)
    <2>0. n \in Ids /\ disp[e] \in Run /\ disp[e].pc = "claim"
      BY <1>0, <1>2 DEF Run, Claim
    <2>1. CASE Claimable(n, disp[e].now) /\ d = e
      <3> DEFINE r == [disp[d] EXCEPT !.pc = "read", !.cands = @ \ {n},
                                      !.cur = n, !.token = issued + 1]
      <3>1. disp' = [disp EXCEPT ![d] = r] /\ claimedAt' = [claimedAt EXCEPT ![n] = disp[d].now]
        BY <1>2, <2>1 DEF Claim
      <3>2. r.token = issued + 1 /\ r.cur = n /\ r.now = disp[d].now
        BY <1>0 DEF Run
      <3> HIDE DEF r
      <3> QED BY <1>0, <2>0, <3>1, <3>2 DEF Begins
    <2>2. CASE ~ Claimable(n, disp[e].now) /\ d = e
      <3>1. disp' = [disp EXCEPT ![d].cands = @ \ {n}]
        BY <1>2, <2>2 DEF Claim
      <3>2. disp'[d].pc = "claim"
        BY <1>0, <2>0, <2>2, <3>1 DEF Run
      <3> QED BY <3>2 DEF Busy
    <2>3. CASE d # e
      BY <1>0, <1>1, <1>2, <2>3 DEF Claim
    <2> QED BY <2>1, <2>2, <2>3
  <1>3. ASSUME NEW e \in Dispatchers, NEW r \in Run, disp' = [disp EXCEPT ![e] = r],
               r.pc \in Busy => /\ disp[e].pc \in Busy /\ r.cur = disp[e].cur
                               /\ r.token = disp[e].token /\ r.now = disp[e].now
        PROVE  Keeps(d) \/ Begins(d)
    BY <1>0, <1>1, <1>3 DEF Keeps
  <1>4. ASSUME NEW e \in Dispatchers, NEW kinds \in {Kinds, OwnerKinds},
               BeginDispatch(e, kinds) \/ EndDispatch(e) \/ Crash(e)
        PROVE  Keeps(d) \/ Begins(d)
    <2> DEFINE b == [Idle EXCEPT !.pc = "recover-select", !.now = clock, !.kinds = kinds]
    <2>1. kinds \in SUBSET Kinds /\ clock \in Nat
      BY DEF Kinds, OwnerKinds, TypeInv, TypeOK
    <2>2. /\ b \in Run /\ b.pc = "recover-select" /\ Idle \in Run /\ Idle.pc = "idle"
      BY <2>1, IdleType DEF Idle
    <2>3. disp' = [disp EXCEPT ![e] = Idle] \/ disp' = [disp EXCEPT ![e] = b]
      BY <1>4 DEF BeginDispatch, EndDispatch, Crash
    <2> HIDE DEF b
    <2> QED BY <1>3, <2>2, <2>3 DEF Busy
  <1>5. ASSUME NEW e \in Dispatchers, SelectExpired(e) \/ SelectCandidates(e)
        PROVE  Keeps(d) \/ Begins(d)
    <2>1. \E X : \/ disp' = [disp EXCEPT ![e] = [disp[e] EXCEPT !.pc = "recover", !.expired = X]]
                 \/ disp' = [disp EXCEPT ![e] = [disp[e] EXCEPT !.pc = "claim", !.cands = X]]
      BY <1>5 DEF SelectExpired, SelectCandidates
    <2>2. \A X : /\ [disp[e] EXCEPT !.pc = "recover", !.expired = X].pc = "recover"
                 /\ [disp[e] EXCEPT !.pc = "claim", !.cands = X].pc = "claim"
      BY <1>0 DEF Run
    <2>3. PICK r : disp' = [disp EXCEPT ![e] = r] /\ r.pc \in {"recover", "claim"}
      BY <2>1, <2>2
    <2>4. CASE d = e
      BY <1>0, <2>3, <2>4 DEF Busy
    <2>5. CASE d # e
      BY <1>0, <1>1, <2>3, <2>5
    <2> QED BY <2>4, <2>5
  <1>6. ASSUME NEW e \in Dispatchers, NEW x \in disp[e].expired, RecoverLease(e, x)
        PROVE  Keeps(d) \/ Begins(d)
    <2>1. disp' = [disp EXCEPT ![e].expired = @ \ {x}] /\ disp[e].pc = "recover"
      BY <1>6 DEF RecoverLease
    <2>2. CASE d = e
      <3>1. disp'[d].pc = "recover"
        BY <1>0, <2>1, <2>2 DEF Run
      <3> QED BY <3>1 DEF Busy
    <2>3. CASE d # e
      BY <1>0, <1>1, <2>1, <2>3
    <2> QED BY <2>2, <2>3
  <1>7. ASSUME NEW e \in Dispatchers, NEW recipient \in Recipients, ReadClaimed(e, recipient)
        PROVE  Keeps(d) \/ Begins(d)
    <2> DEFINE p == IF recipient = "fit" THEN "deliver" ELSE "settle"
               o == IF recipient = "fit" THEN "none" ELSE recipient
               r == [disp[e] EXCEPT !.attempt = rows[disp[e].cur].attempt, !.pc = p, !.outcome = o]
    <2>1. disp' = [disp EXCEPT ![e] = NextCandidate(e)] \/ disp' = [disp EXCEPT ![e] = r]
      BY <1>7 DEF ReadClaimed
    <2>2. disp[e] \in Run /\ disp[e].pc = "read"
      BY <1>0, <1>7 DEF ReadClaimed
    <2>3. r.cur = disp[e].cur /\ r.token = disp[e].token /\ r.now = disp[e].now
      <3> HIDE DEF p, o
      <3> QED BY <2>2 DEF Run
    <2>4. NextCandidate(e).pc = "claim"
      BY <1>0, NextCandidateType
    <2> HIDE DEF r
    <2>5. CASE d = e
      BY <1>0, <2>1, <2>2, <2>3, <2>4, <2>5 DEF Keeps, Busy
    <2>6. CASE d # e
      BY <1>0, <1>1, <2>1, <2>6
    <2> QED BY <2>5, <2>6
  <1>8. ASSUME NEW e \in Dispatchers, NEW outcome \in Outcomes, NEW taken \in BOOLEAN,
               Deliver(e, outcome, taken)
        PROVE  Keeps(d) \/ Begins(d)
    <2> DEFINE r == [disp[e] EXCEPT !.pc = "settle", !.outcome = outcome]
    <2>1. disp' = [disp EXCEPT ![e] = r] /\ disp[e].pc = "deliver"
      BY <1>8 DEF Deliver
    <2>2. r.cur = disp[e].cur /\ r.token = disp[e].token /\ r.now = disp[e].now
      BY <1>0 DEF Run
    <2> HIDE DEF r
    <2> QED BY <1>0, <1>1, <2>1, <2>2 DEF Keeps, Busy
  <1>9. ASSUME NEW e \in Dispatchers, Settle(e) \/ RecordingFails(e) \/ LeaveUnknown(e)
        PROVE  Keeps(d) \/ Begins(d)
    <2> DEFINE f == [disp[e] EXCEPT !.outcome = "temporary-failure"]
    <2>1. /\ disp[e].pc = "settle"
          /\ disp' = [disp EXCEPT ![e] = NextCandidate(e)] \/ disp' = [disp EXCEPT ![e] = f]
      BY <1>9 DEF Settle, RecordingFails, LeaveUnknown
    <2>2. f.cur = disp[e].cur /\ f.token = disp[e].token /\ f.now = disp[e].now
      BY <1>0 DEF Run
    <2>3. NextCandidate(e).pc = "claim"
      BY <1>0, NextCandidateType
    <2> HIDE DEF f
    <2> QED BY <1>0, <1>1, <2>1, <2>2, <2>3 DEF Keeps, Busy
  <1>10. CASE Environment \/ UNCHANGED vars
            \/ \E r \in Replayers : (\E asked \in SUBSET Ids : ReplayRead(r, asked)) \/ ReplayStep(r)
    <2>1. disp' = disp
      BY <1>10 DEF Environment, Tick, Enqueue, DeleteAccount, vars, ReplayRead, ReplayStep,
                  ReplayCommit, ReplayRecheck, ReplayReturn
    <2> QED BY <1>1, <2>1
  <1> QED BY <1>2, <1>4, <1>5, <1>6, <1>7, <1>8, <1>9, <1>10 DEF Next, DispatchStep

LEMMA SpacingInvInit == Init => SpacingInv
  <1>1. Init => /\ \A d \in Dispatchers : disp[d].pc = "idle"
                /\ \A n \in Ids : rows[n].state = "unused"
    BY DEF Init, Idle, NoRow
  <1> QED BY <1>1, DeliveryInvInit
          DEF SpacingInv, HolderClaimed, LeaseSpan, QueueSpaced, Busy, InQueue

LEMMA SpacingInvNext == SpacingInv /\ [Next]_vars => SpacingInv'
  <1> SUFFICES ASSUME SpacingInv, [Next]_vars PROVE SpacingInv'
    OBVIOUS
  <1>0. /\ TypeInv /\ TypeInv' /\ HolderIsCurrent
        /\ rows \in [Ids -> Row] /\ claimedAt \in [Ids -> Nat] /\ disp \in [Dispatchers -> Run]
    BY TypeInvNext DEF SpacingInv, DeliveryInv, TypeInv, TypeOK
  <1>1. HolderClaimed'
    <2> SUFFICES ASSUME NEW d \in Dispatchers, disp'[d].pc \in Busy,
                        rows'[disp'[d].cur].lease = disp'[d].token
                 PROVE  claimedAt'[disp'[d].cur] = disp'[d].now
      BY DEF HolderClaimed
    <2>1. CASE Begins(d)
      BY <2>1 DEF Begins
    <2>2. CASE Keeps(d)
      <3> DEFINE n == disp[d].cur
                 t == disp[d].token
      <3>1. /\ n \in Ids /\ t \in 1..issued /\ rows'[n].lease = t
            /\ disp'[d].cur = n /\ disp'[d].now = disp[d].now
        BY <1>0, <2>2 DEF Keeps, TypeInv, RunShape
      <3>2. rows[n].lease = t /\ rows'[n] = rows[n]
        BY <1>0, <3>1, LeaseIsOld
      <3>3. claimedAt[n] = disp[d].now
        BY <2>2, <3>2 DEF SpacingInv, HolderClaimed, Keeps
      <3>4. claimedAt'[n] = claimedAt[n]
        <4>1. ~ IsClaimed(n)
          <5>1. \A now : Claimed(n, issued + 1, now).lease = issued + 1
            BY <1>0, <3>1, RowFields DEF TypeInv
          <5>2. issued + 1 # t
            BY <1>0, <3>1 DEF TypeInv, TypeOK
          <5> QED BY <3>1, <5>1, <5>2 DEF IsClaimed
        <4> QED BY <1>0, <3>1, <4>1, TimedMoves
                DEF TimedMove, Rests, ComesOrGoes, IsRecovered, IsSettled
      <3> QED BY <3>1, <3>3, <3>4
    <2> QED BY <1>0, <2>1, <2>2, RunsKeepTime
  <1>2. ASSUME NEW n \in Ids
        PROVE  /\ rows'[n].state = "delivering" =>
                     rows'[n].leaseExpires = claimedAt'[n] + LeaseSeconds
               /\ rows'[n].state \in InQueue /\ rows'[n].attempt > 0 =>
                     rows'[n].available >= claimedAt'[n] + ClaimGap(rows'[n].attempt)
    <2>0. /\ rows[n] \in Row /\ claimedAt[n] \in Nat
          /\ rows[n].state = "delivering" => rows[n].attempt \in 1..MaxAttempts
      BY <1>0 DEF TypeInv, LeaseShape
    <2>1. CASE Rests(n)
      BY <2>1 DEF Rests, SpacingInv, LeaseSpan, QueueSpaced
    <2>2. CASE ComesOrGoes(n)
      BY <2>2 DEF ComesOrGoes
    <2>3. CASE IsClaimed(n)
      <3>1. PICK d \in Dispatchers : /\ rows'[n] = Claimed(n, issued + 1, disp[d].now)
                                     /\ claimedAt'[n] = disp[d].now
        BY <2>3 DEF IsClaimed
      <3>2. /\ rows'[n].state = "delivering"
            /\ rows'[n].leaseExpires = disp[d].now + LeaseSeconds
        BY <1>0, <3>1, RowFields, RowTimes DEF TypeInv
      <3> QED BY <3>1, <3>2 DEF InQueue
    <2>4. CASE IsRecovered(n)
      <3>1. PICK d \in Dispatchers, to \in {"retryable", "dead-letter"} :
               LeaseExpired(n, disp[d].now) /\ rows'[n] = Released(n, to, disp[d].now)
        BY <2>4 DEF IsRecovered
      <3>2. /\ rows'[n].state = to /\ rows'[n].available = disp[d].now
            /\ rows'[n].attempt = rows[n].attempt /\ claimedAt'[n] = claimedAt[n]
        BY <1>0, <2>4, <3>1, RowFields, RowTimes DEF TypeInv, IsRecovered
      <3>3. claimedAt[n] + LeaseSeconds <= disp[d].now /\ rows[n].attempt \in 1..MaxAttempts
        BY <2>0, <3>1 DEF LeaseExpired, SpacingInv, LeaseSpan
      <3>4. disp[d].now \in Nat /\ LeaseSeconds \in Nat
        BY <1>0, OutboxConstants DEF Run
      <3>5. claimedAt[n] + ClaimGap(rows[n].attempt) <= disp[d].now
        BY <2>0, <3>3, <3>4, GapFits
      <3> QED BY <3>1, <3>2, <3>5, <2>0, <3>4, <3>3, GapFits
    <2>5. CASE IsSettled(n)
      <3>1. PICK d \in Dispatchers, to \in {"retryable"} \cup Terminal :
               /\ disp[d].pc = "settle" /\ disp[d].cur = n /\ HoldsLease(d)
               /\ rows'[n] = Released(n, to, DueAgain(d, to))
        BY <2>5 DEF IsSettled
      <3>2. /\ rows'[n].state = to /\ rows'[n].available = DueAgain(d, to)
            /\ rows'[n].attempt = rows[n].attempt /\ claimedAt'[n] = claimedAt[n]
        BY <1>0, <2>5, <3>1, RowFields, RowTimes DEF TypeInv, IsSettled
      <3>3. /\ claimedAt[n] = disp[d].now /\ disp[d].attempt = rows[n].attempt
            /\ rows[n].attempt \in 1..MaxAttempts
        BY <1>0, <2>0, <3>1 DEF HoldsLease, SpacingInv, HolderClaimed, HolderIsCurrent, Busy
      <3>4. to \in InQueue => DueAgain(d, to) = disp[d].now + RetryDelay(disp[d].attempt)
        BY <3>1 DEF DueAgain, InQueue, Terminal
      <3>5. to # "delivering"
        BY <3>1 DEF Terminal
      <3> QED BY <2>0, <3>2, <3>3, <3>4, <3>5, GapFits
    <2> QED BY <1>0, <2>1, <2>2, <2>3, <2>4, <2>5, TimedMoves DEF TimedMove
  <1>3. LeaseSpan' /\ QueueSpaced'
    BY <1>2 DEF LeaseSpan, QueueSpaced
  <1> QED BY <1>1, <1>3, DeliveryInvNext DEF SpacingInv

\* Two claims of one notification are at least the gap apart on the clocks of the claiming
\* runs, however stale these are: the retry delay after a reported failure, the whole lease
\* after an outcome that nobody saw.
THEOREM ClaimsAreSpaced == Spec => RetriesAreSpaced
  <1>1. ASSUME SpacingInv, [Next]_vars
        PROVE  [\A n \in Ids : rows[n].attempt > 0 /\ rows'[n].attempt > rows[n].attempt =>
                   claimedAt'[n] >= claimedAt[n] + ClaimGap(rows[n].attempt)]_vars
    <2> SUFFICES ASSUME NEW n \in Ids, rows[n].attempt > 0, rows'[n].attempt > rows[n].attempt
                 PROVE  claimedAt'[n] >= claimedAt[n] + ClaimGap(rows[n].attempt)
      OBVIOUS
    <2>0. /\ TypeInv /\ rows[n] \in Row /\ rows[n].attempt \in Nat /\ rows[n].available \in Nat
          /\ claimedAt[n] \in Nat
      BY SMTT(30), <1>1, OutboxConstants DEF SpacingInv, DeliveryInv, TypeInv, TypeOK, Row
    <2>1. IsClaimed(n)
      <3>1. \A to, at : Released(n, to, at).attempt = rows[n].attempt
        BY <2>0, RowFields DEF TypeInv
      <3>2. ~ Rests(n) /\ ~ ComesOrGoes(n)
        BY <2>0 DEF Rests, ComesOrGoes
      <3>3. ~ IsRecovered(n) /\ ~ IsSettled(n)
        BY <2>0, <3>1 DEF IsRecovered, IsSettled
      <3> QED BY <1>1, <2>0, <3>2, <3>3, TimedMoves DEF TimedMove
    <2>2. PICK d \in Dispatchers : Claimable(n, disp[d].now) /\ claimedAt'[n] = disp[d].now
      BY <2>1 DEF IsClaimed
    <2>3. /\ rows[n].state \in InQueue /\ rows[n].available <= disp[d].now
          /\ rows[n].attempt \in 1..MaxAttempts
      BY <2>0, <2>2, OutboxConstants DEF Claimable
    <2>4. rows[n].available >= claimedAt[n] + ClaimGap(rows[n].attempt)
      BY <1>1, <2>3 DEF SpacingInv, QueueSpaced
    <2>5. disp[d].now \in Nat /\ ClaimGap(rows[n].attempt) \in Nat
      BY <2>0, <2>3, GapFits DEF TypeInv, TypeOK, Run
    <2> QED BY <2>0, <2>2, <2>3, <2>4, <2>5
  <1> QED BY <1>1, SpacingInvInit, SpacingInvNext, PTL DEF Spec, RetriesAreSpaced

-----------------------------------------------------------------------------
(* Replays *)

\* A replacement belongs to a dead letter of the same parties.
LinksFit ==
    \A m \in Ids : rows[m].state \in Stored /\ rows[m].replayOf # None =>
        /\ rows[rows[m].replayOf].state = "dead-letter"
        /\ rows[rows[m].replayOf].parties = rows[m].parties

Done(n) == HasReplay(n) \/ rows[n].state = "deleted"

\* A request asks for dead letters and has to replace those without a replacement.
RequestsFit ==
    \A r \in Replayers : replay[r].pc # "idle" =>
        /\ replay[r].sources \subseteq replay[r].asked
        /\ \A n \in replay[r].asked : rows[n].state \in {"dead-letter", "deleted"}
        /\ \A n \in replay[r].asked : n \notin replay[r].sources \/ replay[r].pc = "answered" => Done(n)

ReplayInv == TypeInv /\ LinksFit /\ RequestsFit /\ ReplayIsExactlyOnce

\* How a step moves the links: what is stored keeps its link and parties, and
LinkIsKept(m) ==
    rows[m].state \in Stored /\ rows'[m].state \in Stored =>
        rows'[m].replayOf = rows[m].replayOf /\ rows'[m].parties = rows[m].parties

\* no replacement comes or goes,
NoLinkMoves ==
    \A m \in Ids : /\ rows[m].state \in Stored => rows'[m].state \in Stored
                   /\ rows[m].state \notin Stored /\ rows'[m].state \in Stored
                         => rows'[m].replayOf = None

\* the rows of an account go together,
AccountGoes ==
    \E a \in Accounts : \A m \in Ids :
        rows'[m].state \in Stored <=> rows[m].state \in Stored /\ a \notin rows[m].parties

\* or a request replaces dead letters that had no replacement.
Replaces(r, ids, kept) ==
    /\ replay[r].pc = "commit" /\ kept \subseteq replay[r].sources
    /\ \A n \in kept : rows[n].state = "dead-letter" /\ ~ HasReplay(n) /\ ids[n] \in Ids
    /\ \A n, k \in kept : ids[n] = ids[k] => n = k
    /\ \A n \in kept : /\ rows[ids[n]].state = "unused" /\ rows'[ids[n]].state \in Stored
                        /\ rows'[ids[n]].replayOf = n /\ rows'[ids[n]].parties = rows[n].parties
    /\ \A m \in Ids : rows'[m] = rows[m] \/ \E n \in kept : ids[n] = m

LEMMA CommitReplaces ==
    ASSUME TypeInv, NEW r \in Replayers, NEW ids \in [replay[r].sources -> Ids],
           ReplayCommit(r, ids)
    PROVE  \E kept : /\ Replaces(r, ids, kept)
                     /\ replay'[r].pc = "answered" => kept = replay[r].sources
                     /\ replay'[r].pc \in {"answered", "recheck"}
                     /\ replay'[r].asked = replay[r].asked
                     /\ replay'[r].sources = replay[r].sources
                     /\ \A q \in Replayers \ {r} : replay'[q] = replay[q]
  <1> DEFINE sources == replay[r].sources
             live == {n \in sources : rows[n].state = "dead-letter"}
             failed == AlreadyLinked(sources)
             kept == IF failed \/ (Transactional /\ live # sources) THEN {} ELSE live
             pick(m) == CHOOSE k \in kept : ids[k] = m
             fresh(m) == NewRow(rows[pick(m)].kind, rows[pick(m)].parties, replay[r].now, pick(m))
  <1>0. /\ rows \in [Ids -> Row] /\ sources \subseteq Ids
        /\ replay \in [Replayers -> [pc : {"idle", "commit", "recheck", "answered", "refused"},
                                     now : Nat, asked : SUBSET Ids, sources : SUBSET Ids]]
    BY DEF TypeInv, TypeOK
  <1>1. /\ replay[r].pc = "commit"
        /\ \A n \in sources : rows[ids[n]].state = "unused"
        /\ \A n, k \in sources : ids[n] = ids[k] => n = k
    BY DEF ReplayCommit, IsInjective
  <1>2. rows' = [m \in Ids |-> IF \E n \in kept : ids[n] = m THEN fresh(m) ELSE rows[m]]
    BY DEF ReplayCommit
  <1>3. replay' = [replay EXCEPT ![r].pc = IF ~ failed /\ live = sources THEN "answered"
                                           ELSE "recheck"]
    BY DEF ReplayCommit
  <1>4. /\ kept \subseteq sources
        /\ \A n \in kept : rows[n].state = "dead-letter" /\ ~ HasReplay(n)
        /\ ~ failed /\ live = sources => kept = sources
    BY DEF AlreadyLinked
  <1>5. \A m : /\ fresh(m).state = "pending" /\ fresh(m).replayOf = pick(m)
               /\ fresh(m).parties = rows[pick(m)].parties
    <2> HIDE DEF pick
    <2> QED BY DEF NewRow, NoRow
  <1> HIDE DEF kept, fresh
  <1>6. ASSUME NEW n \in kept PROVE pick(ids[n]) = n
    BY <1>1, <1>4
  <1> HIDE DEF pick, sources, live, failed
  <1>7. ASSUME NEW n \in kept
        PROVE  /\ ids[n] \in Ids /\ rows[ids[n]].state = "unused" /\ rows'[ids[n]].state = "pending"
               /\ rows'[ids[n]].replayOf = n /\ rows'[ids[n]].parties = rows[n].parties
    <2>1. ids[n] \in Ids /\ rows[ids[n]].state = "unused"
      BY <1>1, <1>4 DEF sources
    <2>2. rows'[ids[n]] = fresh(ids[n])
      BY <1>2, <2>1
    <2> QED BY <1>5, <1>6, <2>1, <2>2
  <1>8. \A m \in Ids : rows'[m] = rows[m] \/ \E n \in kept : ids[n] = m
    BY <1>2
  <1>9. \A n, k \in kept : ids[n] = ids[k] => n = k
    BY <1>1, <1>4
  <1>10. Replaces(r, ids, kept)
    BY <1>1, <1>4, <1>7, <1>8, <1>9 DEF Replaces, Stored, InQueue, sources
  <1>11. /\ replay'[r].pc = IF ~ failed /\ live = sources THEN "answered" ELSE "recheck"
         /\ replay'[r].asked = replay[r].asked /\ replay'[r].sources = replay[r].sources
         /\ \A q \in Replayers \ {r} : replay'[q] = replay[q]
    BY <1>0, <1>3
  <1> QED BY <1>4, <1>10, <1>11 DEF sources

\* A step that leaves the requests alone.
Quiet == replay' = replay /\ (NoLinkMoves \/ AccountGoes)

\* A step of one request that leaves the table alone.
Asks(r) ==
    /\ rows' = rows /\ \A q \in Replayers \ {r} : replay'[q] = replay[q]
    /\ \/ replay'[r].pc = "idle"
       \/ /\ replay'[r].asked \subseteq Ids /\ replay'[r].sources \subseteq replay'[r].asked
          /\ \A n \in replay'[r].asked : rows[n].state = "dead-letter"
          /\ \A n \in replay'[r].asked : n \notin replay'[r].sources => HasReplay(n)
          /\ replay'[r].pc = "answered" => replay'[r].sources = {}
       \/ /\ replay[r].pc = "recheck" /\ replay'[r].asked = replay[r].asked
          /\ replay'[r].sources = replay[r].sources
          /\ replay'[r].pc = "answered" => \A n \in replay[r].sources : HasReplay(n)

Commits(r) ==
    \E ids, kept : /\ Replaces(r, ids, kept)
                   /\ replay'[r].pc = "answered" => kept = replay[r].sources
                   /\ replay'[r].asked = replay[r].asked
                   /\ replay'[r].sources = replay[r].sources
                   /\ \A q \in Replayers \ {r} : replay'[q] = replay[q]

LinkMove ==
    /\ \A m \in Ids : LinkIsKept(m)
    /\ Quiet \/ \E r \in Replayers : Asks(r) \/ Commits(r)

\* Giving up a lease and taking one change neither link nor parties.
LEMMA RowLinks ==
    ASSUME TypeOK, NEW n \in Ids
    PROVE  /\ \A to, at : /\ Released(n, to, at).replayOf = rows[n].replayOf
                          /\ Released(n, to, at).parties = rows[n].parties
           /\ \A t, now : /\ Claimed(n, t, now).replayOf = rows[n].replayOf
                          /\ Claimed(n, t, now).parties = rows[n].parties
  <1>1. rows[n] \in Row
    BY DEF TypeOK
  <1> QED BY <1>1 DEF Released, Claimed, Row

LEMMA LinkMoves == ASSUME TypeInv, [Next]_vars PROVE LinkMove
  <1>0. /\ rows \in [Ids -> Row]
        /\ replay \in [Replayers -> [pc : {"idle", "commit", "recheck", "answered", "refused"},
                                     now : Nat, asked : SUBSET Ids, sources : SUBSET Ids]]
    BY DEF TypeInv, TypeOK
  <1>1. CASE rows' = rows /\ replay' = replay
    BY <1>1 DEF LinkMove, LinkIsKept, Quiet, NoLinkMoves
  <1>2. ASSUME NEW n \in Ids, NEW kind, NEW parties, Enqueue(n, kind, parties) PROVE LinkMove
    <2> DEFINE x == NewRow(kind, parties, clock, None)
    <2>1. rows[n].state = "unused" /\ rows' = [rows EXCEPT ![n] = x] /\ replay' = replay
      BY <1>2 DEF Enqueue
    <2>2. x.replayOf = None
      BY DEF NewRow, NoRow
    <2> HIDE DEF x
    <2>3. rows'[n] = x /\ \A m \in Ids \ {n} : rows'[m] = rows[m]
      BY <1>0, <2>1
    <2>4. "unused" \notin Stored
      BY DEF Stored, InQueue, Terminal
    <2> QED BY <2>1, <2>2, <2>3, <2>4 DEF LinkMove, LinkIsKept, Quiet, NoLinkMoves
  <1>3. ASSUME NEW a \in Accounts, DeleteAccount(a) PROVE LinkMove
    <2>1. /\ \A m \in Ids : rows'[m] = IF rows[m].state \in Stored /\ a \in rows[m].parties
                                        THEN [NoRow EXCEPT !.state = "deleted"] ELSE rows[m]
          /\ replay' = replay
      BY <1>3 DEF DeleteAccount
    <2>2. [NoRow EXCEPT !.state = "deleted"].state \notin Stored
      BY DEF NoRow, Stored, InQueue, Terminal
    <2>3. AccountGoes
      BY <2>1, <2>2 DEF AccountGoes
    <2> QED BY <2>1, <2>2, <2>3 DEF LinkMove, LinkIsKept, Quiet
  <1>4. ASSUME NEW n \in Ids, NEW x, rows' = [rows EXCEPT ![n] = x], replay' = replay,
               rows[n].state \in Stored, x.state \in Stored,
               x.replayOf = rows[n].replayOf, x.parties = rows[n].parties
        PROVE  LinkMove
    BY <1>0, <1>4 DEF LinkMove, LinkIsKept, Quiet, NoLinkMoves
  <1>5. ASSUME NEW d \in Dispatchers, NEW n \in disp[d].cands, Claim(d, n) PROVE LinkMove
    <2>1. n \in Ids /\ replay' = replay
      BY <1>5 DEF Claim, TypeInv, TypeOK, Run
    <2>2. CASE Claimable(n, disp[d].now)
      <3>1. rows' = [rows EXCEPT ![n] = Claimed(n, issued + 1, disp[d].now)]
            /\ rows[n].state \in Stored
        BY <1>5, <2>2 DEF Claim, Claimable, Stored
      <3>2. /\ Claimed(n, issued + 1, disp[d].now).state \in Stored
            /\ Claimed(n, issued + 1, disp[d].now).replayOf = rows[n].replayOf
            /\ Claimed(n, issued + 1, disp[d].now).parties = rows[n].parties
        BY <2>1, RowFields, RowLinks DEF TypeInv, Stored
      <3> QED BY <1>4, <2>1, <3>1, <3>2
    <2>3. CASE ~ Claimable(n, disp[d].now)
      BY <1>1, <1>5, <2>1, <2>3 DEF Claim
    <2> QED BY <2>2, <2>3
  <1>6. ASSUME NEW n \in Ids, NEW to \in {"retryable"} \cup Terminal, NEW at,
               rows[n].state = "delivering", rows' = [rows EXCEPT ![n] = Released(n, to, at)],
               replay' = replay
        PROVE  LinkMove
    <2>1. /\ rows[n].state \in Stored /\ Released(n, to, at).state \in Stored
          /\ Released(n, to, at).replayOf = rows[n].replayOf
          /\ Released(n, to, at).parties = rows[n].parties
      BY <1>6, RowFields, RowLinks DEF TypeInv, Stored, InQueue, Terminal
    <2> QED BY <1>4, <1>6, <2>1
  <1>7. ASSUME NEW d \in Dispatchers, NEW e \in disp[d].expired, RecoverLease(d, e)
        PROVE  LinkMove
    <2> DEFINE to == IF e.attempt >= MaxAttempts THEN "dead-letter" ELSE "retryable"
    <2>1. /\ rows' = IF LeaseExpired(e.id, disp[d].now)
                     THEN [rows EXCEPT ![e.id] = Released(e.id, to, disp[d].now)] ELSE rows
          /\ replay' = replay /\ e.id \in Ids
      BY <1>7 DEF RecoverLease, TypeInv, TypeOK, Run
    <2>2. to \in {"retryable"} \cup Terminal
      BY DEF Terminal
    <2> HIDE DEF to
    <2> QED BY <1>1, <1>6, <2>1, <2>2 DEF LeaseExpired
  <1>8. ASSUME NEW d \in Dispatchers, Settle(d) \/ RecordingFails(d) PROVE LinkMove
    <2> DEFINE to == SettledState(disp[d].outcome, disp[d].attempt)
               m == disp[d].cur
               at == DueAgain(d, to)
    <2>1. /\ disp[d].pc = "settle"
          /\ SettlingBatch(d) \/ (rows' = rows /\ replay' = replay)
      BY <1>8 DEF Settle, RecordingFails
    <2>2. CASE SettlingBatch(d)
      <3>1. /\ rows' = IF HoldsLease(d) THEN [rows EXCEPT ![m] = Released(m, to, at)] ELSE rows
            /\ replay' = replay
        BY <2>2 DEF SettlingBatch
      <3>2. to \in {"retryable"} \cup Terminal /\ m \in Ids
        BY <2>1 DEF SettledState, Terminal, TypeInv, RunShape, Busy
      <3>3. HoldsLease(d) => rows[m].state = "delivering"
        BY DEF HoldsLease
      <3> HIDE DEF to, m, at
      <3> QED BY <1>1, <1>6, <3>1, <3>2, <3>3
    <2> QED BY <1>1, <2>1, <2>2
  <1>9. ASSUME NEW r \in Replayers, NEW ids \in [replay[r].sources -> Ids], ReplayCommit(r, ids)
        PROVE  LinkMove
    <2>1. PICK kept : /\ Replaces(r, ids, kept)
                      /\ replay'[r].pc = "answered" => kept = replay[r].sources
                      /\ replay'[r].asked = replay[r].asked
                      /\ replay'[r].sources = replay[r].sources
                      /\ \A q \in Replayers \ {r} : replay'[q] = replay[q]
      BY <1>9, CommitReplaces
    <2>2. Commits(r)
      BY <2>1 DEF Commits
    <2>3. ASSUME NEW m \in Ids PROVE LinkIsKept(m)
      BY <2>1 DEF Replaces, LinkIsKept, Stored, InQueue, Terminal
    <2> QED BY <2>2, <2>3 DEF LinkMove
  <1>10. ASSUME NEW r \in Replayers, NEW asked \in SUBSET Ids, ReplayRead(r, asked) PROVE LinkMove
    <2> DEFINE sources == {n \in asked : ~ HasReplay(n)}
               x == [pc |-> IF sources = {} THEN "answered" ELSE "commit",
                     now |-> clock, asked |-> asked, sources |-> sources]
    <2>1. /\ rows' = rows /\ replay' = [replay EXCEPT ![r] = x]
          /\ \A n \in asked : rows[n].state = "dead-letter"
      BY <1>10 DEF ReplayRead
    <2>2. /\ x.asked = asked /\ x.sources = sources
          /\ x.pc = "answered" => sources = {}
      OBVIOUS
    <2>3. /\ sources \subseteq asked
          /\ \A n \in asked : n \notin sources => HasReplay(n)
      OBVIOUS
    <2> HIDE DEF x, sources
    <2>4. replay'[r] = x /\ \A q \in Replayers \ {r} : replay'[q] = replay[q]
      BY <1>0, <2>1
    <2>5. Asks(r)
      BY <2>1, <2>2, <2>3, <2>4 DEF Asks
    <2> QED BY <2>1, <2>5 DEF LinkMove, LinkIsKept
  <1>11. ASSUME NEW r \in Replayers, ReplayRecheck(r) PROVE LinkMove
    <2>1. /\ rows' = rows /\ replay[r].pc = "recheck"
          /\ replay' = [replay EXCEPT ![r].pc =
                IF \A n \in replay[r].sources : HasReplay(n) THEN "answered" ELSE "refused"]
      BY <1>11 DEF ReplayRecheck
    <2>2. /\ replay'[r].asked = replay[r].asked /\ replay'[r].sources = replay[r].sources
          /\ replay'[r].pc = IF \A n \in replay[r].sources : HasReplay(n) THEN "answered"
                             ELSE "refused"
          /\ \A q \in Replayers \ {r} : replay'[q] = replay[q]
      BY <1>0, <2>1
    <2>3. Asks(r)
      BY <2>1, <2>2 DEF Asks
    <2> QED BY <2>1, <2>3 DEF LinkMove, LinkIsKept
  <1>12. ASSUME NEW r \in Replayers, ReplayReturn(r) PROVE LinkMove
    <2>1. rows' = rows /\ replay' = [replay EXCEPT ![r] = NoReplay]
      BY <1>12 DEF ReplayReturn
    <2>2. replay'[r].pc = "idle" /\ \A q \in Replayers \ {r} : replay'[q] = replay[q]
      BY <1>0, <2>1 DEF NoReplay
    <2>3. Asks(r)
      BY SMTT(30), <2>1, <2>2 DEF Asks
    <2> QED BY <2>1, <2>3 DEF LinkMove, LinkIsKept
  <1>13. CASE \/ Tick \/ UNCHANGED vars
              \/ \E d \in Dispatchers :
                    \/ \E kinds \in {Kinds, OwnerKinds} : BeginDispatch(d, kinds)
                    \/ SelectExpired(d) \/ SelectCandidates(d)
                    \/ \E recipient \in Recipients : ReadClaimed(d, recipient)
                    \/ \E outcome \in Outcomes, taken \in BOOLEAN : Deliver(d, outcome, taken)
                    \/ LeaveUnknown(d) \/ EndDispatch(d) \/ Crash(d)
    BY <1>1, <1>13 DEF Tick, vars, BeginDispatch, SelectExpired, SelectCandidates, ReadClaimed,
       Deliver, LeaveUnknown, EndDispatch, Crash
  <1> QED BY <1>2, <1>3, <1>5, <1>7, <1>8, <1>9, <1>10, <1>11, <1>12, <1>13
          DEF Next, Environment, DispatchStep, ReplayStep

\* A dead letter stays one until its account goes.
LEMMA DeadStaysDead ==
    ASSUME TypeInv, [Next]_vars, NEW n \in Ids
    PROVE  /\ rows[n].state = "dead-letter" => rows'[n] = rows[n] \/ rows'[n].state = "deleted"
           /\ rows[n].state = "deleted" => rows'[n] = rows[n]
  BY RowMoves DEF RowMove, Inserted, Deleted, Taken, GivenUp, Terminal, InQueue, Stored

\* What is replaced stays so, also when its account goes.
LEMMA DoneStays ==
    ASSUME ReplayInv, [Next]_vars, NEW n \in Ids, rows[n].state \in {"dead-letter", "deleted"},
           Done(n)
    PROVE  Done(n)'
  <1>0. TypeInv /\ LinksFit /\ LinkMove /\ None \notin Ids
    BY LinkMoves, OutboxConstants DEF ReplayInv
  <1>1. CASE rows[n].state = "deleted"
    BY <1>0, <1>1, DeadStaysDead DEF Done
  <1>2. CASE rows[n].state = "dead-letter" /\ HasReplay(n)
    <2>1. PICK m \in Ids : rows[m].state \in Stored /\ rows[m].replayOf = n
      BY <1>2 DEF HasReplay
    <2>2. rows[n].parties = rows[m].parties
      BY <1>0, <2>1 DEF LinksFit
    <2>3. CASE rows'[m].state \in Stored
      BY <1>0, <2>1, <2>3 DEF LinkMove, LinkIsKept, Done, HasReplay
    <2>4. CASE rows'[m].state \notin Stored
      <3>1. rows'[m] # rows[m]
        BY <2>1, <2>4
      <3>2. ~ NoLinkMoves
        BY <2>1, <2>4 DEF NoLinkMoves
      <3>3. \A r \in Replayers : ~ Commits(r) /\ ~ Asks(r)
        BY <2>1, <2>4, <3>1 DEF Commits, Asks, Replaces
      <3>4. PICK a \in Accounts : \A k \in Ids :
              rows'[k].state \in Stored <=> rows[k].state \in Stored /\ a \notin rows[k].parties
        BY <1>0, <3>2, <3>3 DEF LinkMove, Quiet, AccountGoes
      <3>5. rows'[n].state \notin Stored
        BY <2>1, <2>2, <2>4, <3>4
      <3>6. rows'[n] # rows[n]
        BY <1>2, <3>5 DEF Stored, Terminal
      <3> QED BY <1>0, <1>2, <3>6, DeadStaysDead DEF Done
    <2> QED BY <2>3, <2>4
  <1> QED BY <1>1, <1>2 DEF Done

LEMMA ReplayInvInit == Init => ReplayInv
  <1>1. Init => /\ \A n \in Ids : rows[n].state = "unused"
                /\ \A r \in Replayers : replay[r].pc = "idle"
    BY DEF Init, NoRow, NoReplay
  <1> QED BY <1>1, TypeInvInit DEF ReplayInv, LinksFit, RequestsFit, ReplayIsExactlyOnce, Stored,
          InQueue, Terminal

\* A row with a link is new in the step, or it had the link before.
LEMMA LinksAreOldOrNew ==
    ASSUME ReplayInv, [Next]_vars, NEW m \in Ids,
           rows'[m].state \in Stored, rows'[m].replayOf # None
    PROVE  \/ /\ rows[m].state \in Stored /\ rows[m].replayOf = rows'[m].replayOf
              /\ rows[m].parties = rows'[m].parties
           \/ \E r \in Replayers : \E ids, kept :
                 /\ Replaces(r, ids, kept)
                 /\ \E n \in kept : ids[n] = m /\ rows'[m].replayOf = n
                                    /\ rows'[m].parties = rows[n].parties
  <1>0. LinkMove
    BY LinkMoves DEF ReplayInv
  <1>1. CASE rows[m].state \in Stored
    BY <1>0, <1>1 DEF LinkMove, LinkIsKept
  <1>2. CASE rows[m].state \notin Stored
    <2>1. ~ NoLinkMoves /\ ~ AccountGoes /\ rows' # rows
      BY <1>2 DEF NoLinkMoves, AccountGoes
    <2>2. PICK r \in Replayers : Commits(r)
      BY <1>0, <2>1 DEF LinkMove, Quiet, Asks
    <2>3. PICK ids, kept : Replaces(r, ids, kept)
      BY <2>2 DEF Commits
    <2>4. PICK n \in kept : ids[n] = m
      BY <1>2, <2>3 DEF Replaces
    <2>5. rows'[m].replayOf = n /\ rows'[m].parties = rows[n].parties
      BY <2>3, <2>4 DEF Replaces
    <2> QED BY <2>3, <2>4, <2>5
  <1> QED BY <1>1, <1>2

LEMMA ReplayInvNext == ReplayInv /\ [Next]_vars => ReplayInv'
  <1> SUFFICES ASSUME ReplayInv, [Next]_vars PROVE ReplayInv'
    OBVIOUS
  <1>0. /\ TypeInv /\ TypeInv' /\ LinksFit /\ RequestsFit /\ LinkMove
        /\ rows \in [Ids -> Row] /\ None \notin Ids
        /\ \A m, k \in Ids : /\ rows[m].state \in Stored /\ rows[k].state \in Stored
                             /\ rows[m].replayOf = rows[k].replayOf /\ rows[m].replayOf # None
                             => m = k
    BY TypeInvNext, LinkMoves, OutboxConstants DEF ReplayInv, ReplayIsExactlyOnce, TypeInv, TypeOK
  <1>1. LinksFit'
    <2> SUFFICES ASSUME NEW m \in Ids, rows'[m].state \in Stored, rows'[m].replayOf # None
                 PROVE  /\ rows'[rows'[m].replayOf].state = "dead-letter"
                        /\ rows'[rows'[m].replayOf].parties = rows'[m].parties
      BY DEF LinksFit
    <2> DEFINE n == rows'[m].replayOf
    <2>1. n \in Ids
      BY <1>0 DEF TypeInv, TypeOK, Row
    <2>2. CASE /\ rows[m].state \in Stored /\ rows[m].replayOf = n
               /\ rows[m].parties = rows'[m].parties
      <3>1. rows[n].state = "dead-letter" /\ rows[n].parties = rows[m].parties
        BY <1>0, <2>2 DEF LinksFit
      <3>2. rows'[n].state \in Stored
        <4>1. CASE NoLinkMoves
          BY <2>1, <3>1, <4>1 DEF NoLinkMoves, Stored, Terminal
        <4>2. CASE AccountGoes
          BY <2>1, <2>2, <3>1, <4>2 DEF AccountGoes, Stored, Terminal
        <4>3. ASSUME NEW r \in Replayers, Asks(r) \/ Commits(r) PROVE rows'[n].state \in Stored
          BY <2>1, <3>1, <4>3 DEF Asks, Commits, Replaces, Stored, Terminal
        <4> QED BY <1>0, <4>1, <4>2, <4>3 DEF LinkMove, Quiet
      <3>3. rows'[n] = rows[n]
        BY <1>0, <2>1, <3>1, <3>2, DeadStaysDead DEF Stored, InQueue, Terminal
      <3> QED BY <2>2, <3>1, <3>3
    <2>3. ASSUME NEW r \in Replayers, NEW ids, NEW kept, Replaces(r, ids, kept), n \in kept,
                 rows'[m].parties = rows[n].parties
          PROVE  rows'[n].state = "dead-letter" /\ rows'[n].parties = rows'[m].parties
      <3>1. rows[n].state = "dead-letter"
        BY <2>3 DEF Replaces
      <3>2. rows'[n] = rows[n]
        BY <2>1, <2>3, <3>1 DEF Replaces
      <3> QED BY <2>3, <3>1, <3>2
    <2> QED BY <2>2, <2>3, LinksAreOldOrNew
  <1>2. \A m, k \in Ids : /\ rows'[m].state \in Stored /\ rows'[k].state \in Stored
                           /\ rows'[m].replayOf = rows'[k].replayOf /\ rows'[m].replayOf # None
                           => m = k
    <2> SUFFICES ASSUME NEW m \in Ids, NEW k \in Ids, rows'[m].state \in Stored,
                        rows'[k].state \in Stored, rows'[m].replayOf = rows'[k].replayOf,
                        rows'[m].replayOf # None
                 PROVE  m = k
      OBVIOUS
    <2> DEFINE n == rows'[m].replayOf
               Old(j) == rows[j].state \in Stored /\ rows[j].replayOf = n
    <2>1. CASE Old(m) /\ Old(k)
      BY <1>0, <2>1
    <2>2. ASSUME ~ (Old(m) /\ Old(k)) PROVE m = k
      <3>1. PICK r \in Replayers : \E ids, kept : Replaces(r, ids, kept) /\ n \in kept
        BY <2>2, LinksAreOldOrNew
      <3>1a. PICK ids, kept : Replaces(r, ids, kept) /\ n \in kept
        BY <3>1
      <3>2. ~ HasReplay(n)
        BY <3>1a DEF Replaces
      <3>3. ~ Old(m) /\ ~ Old(k)
        BY <3>2 DEF HasReplay
      <3>4. ASSUME NEW j \in {m, k} PROVE ids[n] = j
        <4>1. rows'[j].state \in Stored /\ rows'[j].replayOf = n /\ j \in Ids /\ ~ Old(j)
          BY <3>3
        <4>2. rows'[j] # rows[j]
          BY <4>1
        <4>3. PICK i \in kept : ids[i] = j
          BY <3>1a, <4>1, <4>2 DEF Replaces
        <4>4. rows'[j].replayOf = i
          BY <3>1a, <4>3 DEF Replaces
        <4> QED BY <4>1, <4>3, <4>4
      <3> QED BY <3>4
    <2> QED BY <2>1, <2>2
  <1>3. ASSUME NEW r \in Replayers, replay'[r].pc # "idle"
        PROVE  /\ replay'[r].sources \subseteq replay'[r].asked
               /\ \A n \in replay'[r].asked : rows'[n].state \in {"dead-letter", "deleted"}
               /\ \A n \in replay'[r].asked :
                     n \notin replay'[r].sources \/ replay'[r].pc = "answered" => Done(n)'
    <2>0. replay[r].asked \subseteq Ids
      BY DEF ReplayInv, TypeInv, TypeOK
    <2>1. \A n \in Ids : rows[n].state \in {"dead-letter", "deleted"}
                            => rows'[n].state \in {"dead-letter", "deleted"}
      BY <1>0, DeadStaysDead
    <2>2. CASE replay'[r] = replay[r]
      BY <1>0, <1>3, <2>0, <2>1, <2>2, DoneStays DEF RequestsFit
    <2>3. CASE Asks(r)
      <3>1. rows' = rows
        BY <2>3 DEF Asks
      <3>2. \A n \in Ids : HasReplay(n) => Done(n)'
        BY <3>1 DEF HasReplay, Done
      <3>3. CASE /\ replay'[r].asked \subseteq Ids /\ replay'[r].sources \subseteq replay'[r].asked
                 /\ \A n \in replay'[r].asked : rows[n].state = "dead-letter"
                 /\ \A n \in replay'[r].asked : n \notin replay'[r].sources => HasReplay(n)
                 /\ replay'[r].pc = "answered" => replay'[r].sources = {}
        BY <3>1, <3>2, <3>3
      <3>4. CASE /\ replay[r].pc = "recheck" /\ replay'[r].asked = replay[r].asked
                 /\ replay'[r].sources = replay[r].sources
                 /\ replay'[r].pc = "answered" => \A n \in replay[r].sources : HasReplay(n)
        <4>1. /\ replay[r].sources \subseteq replay[r].asked
              /\ \A n \in replay[r].asked : rows[n].state \in {"dead-letter", "deleted"}
              /\ \A n \in replay[r].asked : n \notin replay[r].sources => Done(n)
          BY <1>0, <3>4 DEF RequestsFit
        <4>2. \A n \in replay[r].asked : n \notin replay[r].sources => Done(n)'
          BY <2>0, <4>1, DoneStays
        <4>3. replay'[r].pc = "answered" => \A n \in replay[r].sources : Done(n)'
          BY <2>0, <3>2, <3>4, <4>1
        <4> QED BY <3>1, <3>4, <4>1, <4>2, <4>3
      <3> QED BY <1>3, <2>3, <3>3, <3>4 DEF Asks
    <2>4. CASE Commits(r)
      <3>1. PICK ids, kept : /\ Replaces(r, ids, kept)
                             /\ replay'[r].pc = "answered" => kept = replay[r].sources
                             /\ replay'[r].asked = replay[r].asked
                             /\ replay'[r].sources = replay[r].sources
        BY <2>4 DEF Commits
      <3>2. /\ replay[r].sources \subseteq replay[r].asked
            /\ \A n \in replay[r].asked : rows[n].state \in {"dead-letter", "deleted"}
            /\ \A n \in replay[r].asked : n \notin replay[r].sources => Done(n)
        BY <1>0, <3>1 DEF RequestsFit, Replaces
      <3>3. \A n \in replay[r].asked : n \notin replay[r].sources => Done(n)'
        BY <2>0, <3>2, DoneStays
      <3>4. \A n \in kept : Done(n)'
        BY <3>1 DEF Replaces, Done, HasReplay
      <3> QED BY <2>0, <2>1, <3>1, <3>2, <3>3, <3>4
    <2>5. ASSUME NEW q \in Replayers, q # r, Asks(q) \/ Commits(q) PROVE replay'[r] = replay[r]
      BY <2>5 DEF Asks, Commits
    <2> QED BY <1>0, <2>2, <2>3, <2>4, <2>5 DEF LinkMove, Quiet
  <1>4. RequestsFit'
    <2>1. RequestsFit' = \A r \in Replayers : replay'[r].pc # "idle" =>
               /\ replay'[r].sources \subseteq replay'[r].asked
               /\ \A n \in replay'[r].asked : rows'[n].state \in {"dead-letter", "deleted"}
               /\ \A n \in replay'[r].asked :
                     n \notin replay'[r].sources \/ replay'[r].pc = "answered" => Done(n)'
      BY DEF RequestsFit, Done, HasReplay
    <2> QED BY <1>3, <2>1
  <1>5. ReplayIsExactlyOnce'
    <2>1. ASSUME NEW r \in Replayers, replay'[r].pc = "answered", NEW n \in replay'[r].asked
          PROVE  HasReplay(n)' \/ rows'[n].state = "deleted"
      BY <1>3, <2>1 DEF Done
    <2> QED BY <1>2, <2>1 DEF ReplayIsExactlyOnce
  <1> QED BY <1>0, <1>1, <1>4, <1>5 DEF ReplayInv

\* However many operators replay overlapping sets of dead letters at once, and whether or not
\* the database takes a failed batch back: no dead letter gets a second replacement, and a
\* request that answers with success has left a replacement for each of its sources, unless
\* the account is gone.
THEOREM DeadLettersAreReplayedOnce == Spec => []ReplayIsExactlyOnce
  <1>1. ReplayInv => ReplayIsExactlyOnce
    BY DEF ReplayInv
  <1> QED BY <1>1, ReplayInvInit, ReplayInvNext, PTL DEF Spec

-----------------------------------------------------------------------------
(***************************************************************************)
(* The other half of a dispatch, the fan-out of owner alerts, for any      *)
(* number of owners and of overlapping dispatches and every page size, on  *)
(* a database that rolls a lost page back and on one that does not: the    *)
(* inductive invariant.                                                    *)
(***************************************************************************)

\* Nothing is owed before the cutoff is fixed; who is owed is approved since before it, and
\* has an alert once the cursor has passed.
FanFits ==
    /\ fan.state = "none" => fan = Fanout!NoFan
    /\ fan.cutoff = None => owed = {}
    /\ \A o \in owed :
          /\ owners[o].state = "approved" /\ owners[o].since <= fan.cutoff
          /\ o <= fan.cursor \/ fan.state = "complete" => alerts[o] >= 1

\* Who has an alert is an owner; where lost pages are rolled back, one from before the cutoff.
AlertsFit ==
    /\ Fanout!NobodyIsAlertedTwice
    /\ \A o \in Fanout!Owners : alerts[o] >= 1 =>
          /\ owners[o].state # "absent"
          /\ rollback => fan.cutoff # None /\ owners[o].since <= fan.cutoff

\* A run that has read the fan-out knows it as it is, or its revision has grown since.
ReadFits(run) ==
    run.pc \in {"owners", "commit"} =>
        /\ run.read.state = "pending" /\ fan.state # "none"
        /\ run.read.revision <= fan.revision
        /\ run.read.revision = fan.revision => run.read = fan

\* The cutoff that a run works with.
CutoffOf(run) == IF run.read.cutoff = None THEN run.now ELSE run.read.cutoff

\* The page is what comes first beyond the cursor of those whom the run saw; a run that is
\* up to date saw everybody who is still owed.
PageFits(run) ==
    run.pc = "commit" =>
        /\ \A o \in run.page : /\ o > run.read.cursor
                               /\ owners[o].state # "absent" /\ owners[o].since <= CutoffOf(run)
        /\ \A o \in run.visible :
              /\ owners[o].state = "approved" /\ owners[o].since <= CutoffOf(run)
              /\ o \in run.page \/ \A p \in run.page : p < o
        /\ run.complete => run.visible \subseteq run.page
        /\ run.complete \/ run.page # {}
        /\ run.read = fan /\ fan.cutoff # None =>
              \A o \in owed : o > fan.cursor => o \in run.visible

RunFits(run) == ReadFits(run) /\ PageFits(run)

FanoutInv ==
    Fanout!TypeOK /\ FanFits /\ AlertsFit /\ \A d \in Dispatchers : RunFits(runs[d])

-----------------------------------------------------------------------------
(* Finite sets of owners *)

\* The instance counts as its module does.
LEMMA SameCardinality == \A S : Fanout!Cardinality(S) = Cardinality(S)
  BY DEF Fanout!Cardinality, Cardinality

LEMMA OwnersAreFinite ==
    ASSUME Fanout!FanoutConstants, NEW S \in SUBSET Fanout!Owners
    PROVE  IsFiniteSet(S) /\ IsFiniteSet(SUBSET S) /\ S \subseteq Nat
  <1>1. IsFiniteSet(Fanout!Owners) /\ Fanout!Owners \subseteq Nat
    BY FS_Interval DEF Fanout!FanoutConstants, Fanout!Owners
  <1>2. IsFiniteSet(S)
    BY <1>1, FS_Subset
  <1>3. IsFiniteSet(SUBSET S)
    BY <1>2, FS_SUBSET
  <1> QED BY <1>1, <1>2, <1>3

\* A set of sets of owners has a member that contains no other member.
LEMMA SmallestSet ==
    ASSUME Fanout!FanoutConstants, NEW T \in SUBSET (SUBSET Fanout!Owners), T # {}
    PROVE  \E x \in T : \A y \in T : y \subseteq x => y = x
  <1>1. FiniteSubsetsOf(Fanout!Owners) = SUBSET Fanout!Owners
    BY OwnersAreFinite, FS_FiniteSubsetsOfFinite
  <1>2. IsWellFoundedOn(StrictSubsetOrdering(Fanout!Owners), SUBSET Fanout!Owners)
    BY <1>1, FS_StrictSubsetOrderingWellFounded
  <1>3. PICK x \in T : \A y \in T : ~ (<<y, x>> \in StrictSubsetOrdering(Fanout!Owners))
    BY <1>2, WFMin
  <1> QED BY <1>3 DEF StrictSubsetOrdering

LEMMA LeastOwner ==
    ASSUME Fanout!FanoutConstants, NEW S \in SUBSET Fanout!Owners, S # {}
    PROVE  \E o \in S : \A p \in S : o <= p
  <1> DEFINE below(o) == {p \in S : p < o}
             T == {below(o) : o \in S}
  <1>0. S \subseteq Nat
    BY OwnersAreFinite
  <1>1. T \in SUBSET (SUBSET Fanout!Owners) /\ T # {}
    OBVIOUS
  <1>a. PICK x \in T : \A y \in T : y \subseteq x => y = x
    <2> HIDE DEF T
    <2> QED BY <1>1, SmallestSet
  <1>2. PICK o \in S : x = below(o)
    BY <1>a
  <1>3. ASSUME NEW p \in S, p < o PROVE FALSE
    <2>1. o \in Nat /\ p \in Nat
      BY <1>0
    <2>2. ASSUME NEW q \in S, q < p PROVE q < o
      <3>1. q \in Nat
        BY <1>0
      <3> QED BY <1>3, <2>1, <2>2, <3>1
    <2>4. below(p) \subseteq below(o)
      BY <2>2
    <2>3. p \in below(o) /\ p \notin below(p)
      BY <1>3, <2>1
    <2> QED BY <1>a, <1>2, <2>3, <2>4
  <1> QED BY <1>0, <1>3

LEMMA GreatestOwner ==
    ASSUME Fanout!FanoutConstants, NEW S \in SUBSET Fanout!Owners, S # {}
    PROVE  \E o \in S : \A p \in S : p <= o
  <1> DEFINE above(o) == {p \in S : p > o}
             T == {above(o) : o \in S}
  <1>0. S \subseteq Nat
    BY OwnersAreFinite
  <1>1. T \in SUBSET (SUBSET Fanout!Owners) /\ T # {}
    OBVIOUS
  <1>a. PICK x \in T : \A y \in T : y \subseteq x => y = x
    <2> HIDE DEF T
    <2> QED BY <1>1, SmallestSet
  <1>2. PICK o \in S : x = above(o)
    BY <1>a
  <1>3. ASSUME NEW p \in S, p > o PROVE FALSE
    <2>1. o \in Nat /\ p \in Nat
      BY <1>0
    <2>2. ASSUME NEW q \in S, q > p PROVE q > o
      <3>1. q \in Nat
        BY <1>0
      <3> QED BY <1>3, <2>1, <2>2, <3>1
    <2>4. above(p) \subseteq above(o)
      BY <2>2
    <2>3. p \in above(o) /\ p \notin above(p)
      BY <1>3, <2>1
    <2> QED BY <1>a, <1>2, <2>3, <2>4
  <1> QED BY <1>0, <1>3

\* The cursor is set on the last owner of a page.
LEMMA CursorIsLast ==
    ASSUME Fanout!FanoutConstants, NEW page \in SUBSET Fanout!Owners, page # {}, NEW cursor
    PROVE  /\ Fanout!CursorAfter(page, cursor) \in page
           /\ \A p \in page : p <= Fanout!CursorAfter(page, cursor)
  BY GreatestOwner DEF Fanout!CursorAfter

\* A page is the beginning of what was selected: not empty unless that is, everybody beyond
\* it is behind its last owner, and everybody is on it if it is the last.
LEMMA PageComesFirst ==
    ASSUME Fanout!FanoutConstants, NEW S \in SUBSET Fanout!Owners
    PROVE  LET page == Fanout!First(PageSize, S)
           IN  /\ page \subseteq S
               /\ S # {} => page # {}
               /\ \A o \in S \ page : \A p \in page : p < o
               /\ Fanout!LastPage(S) => S \subseteq page
  <1> DEFINE page == Fanout!First(PageSize, S)
             below(o) == {p \in S : p < o}
  <1>1. PageSize \in Nat /\ PageSize > 0 /\ S \subseteq Nat /\ IsFiniteSet(S)
    <2>1. PageSize \in Nat /\ PageSize > 0
      BY DEF Fanout!FanoutConstants
    <2> QED BY <2>1, OwnersAreFinite
  <1>2. \A o \in S : IsFiniteSet(below(o)) /\ Cardinality(below(o)) \in Nat
    BY <1>1, FS_Subset, FS_CardinalityType
  <1>3. \A o \in S : o \in page <=> Cardinality(below(o)) < PageSize
    BY SameCardinality DEF Fanout!First
  <1>4. page \subseteq S
    BY DEF Fanout!First
  <1> HIDE DEF page
  <1>5. S # {} => page # {}
    <2> SUFFICES ASSUME S # {} PROVE page # {}
      OBVIOUS
    <2>1. PICK o \in S : \A p \in S : o <= p
      BY LeastOwner
    <2>2. ASSUME NEW p \in S PROVE ~ (p < o)
      BY <2>1, <1>1
    <2>3. Cardinality(below(o)) = 0
      <3>1. below(o) = {}
        BY <2>2
      <3> QED BY <3>1, FS_EmptySet
    <2> QED BY <2>3, <1>1, <1>3
  <1>6. ASSUME NEW o \in S \ page, NEW p \in page PROVE p < o
    <2>1. SUFFICES ASSUME ~ (p < o) PROVE FALSE
      OBVIOUS
    <2>2. o <= p
      BY <2>1, <1>1, <1>4
    <2>3. ASSUME NEW q \in S, q < o PROVE q < p
      <3>1. o \in Nat /\ p \in Nat /\ q \in Nat
        BY <1>1, <1>4
      <3> QED BY <2>2, <2>3, <3>1
    <2>5. below(o) \subseteq below(p)
      BY <2>3
    <2>4. Cardinality(below(o)) <= Cardinality(below(p))
      BY <2>5, <1>2, <1>4, FS_Subset
    <2> QED BY <2>4, <1>1, <1>2, <1>3, <1>4
  <1>7. ASSUME Fanout!LastPage(S), NEW o \in S PROVE o \in page
    <2>1. Cardinality(S) \in Nat /\ Cardinality(S) <= PageSize
      BY <1>1, <1>7, SameCardinality, FS_CardinalityType DEF Fanout!LastPage
    <2>2. below(o) \subseteq S /\ below(o) # S
      BY <1>1
    <2>3. Cardinality(below(o)) < Cardinality(S)
      BY <2>2, <1>1, <1>2, <2>1, FS_Subset
    <2> QED BY <2>1, <2>3, <1>1, <1>2, <1>3
  <1> QED BY <1>4, <1>5, <1>6, <1>7 DEF page

-----------------------------------------------------------------------------
(* The runs *)

FanoutRun == [pc : {"idle", "fanouts", "owners", "commit"}, now : Nat, read : Fanout!Fan,
        page : SUBSET Fanout!Owners, complete : BOOLEAN, visible : SUBSET Fanout!Owners]

LEMMA FanoutParts ==
    ASSUME FanoutInv
    PROVE  /\ rollback \in BOOLEAN /\ time \in Nat /\ churn \in Nat
           /\ owners \in
                 [Fanout!Owners -> [state : {"absent", "approved", "suspended"}, since : Nat]]
           /\ fan \in Fanout!Fan /\ alerts \in [Fanout!Owners -> Nat]
           /\ owed \subseteq Fanout!Owners
           /\ runs \in [Dispatchers -> FanoutRun]
           /\ FanFits /\ AlertsFit /\ \A d \in Dispatchers : RunFits(runs[d])
  BY DEF FanoutInv, Fanout!TypeOK, FanoutRun

LEMMA AllFanoutParts ==
    ASSUME rollback \in BOOLEAN, time \in Nat, churn \in Nat,
           owners \in [Fanout!Owners -> [state : {"absent", "approved", "suspended"}, since : Nat]],
           fan \in Fanout!Fan, alerts \in [Fanout!Owners -> Nat], owed \subseteq Fanout!Owners,
           runs \in [Dispatchers -> FanoutRun],
           FanFits, AlertsFit, \A d \in Dispatchers : RunFits(runs[d])
    PROVE  FanoutInv
  BY DEF FanoutInv, Fanout!TypeOK, FanoutRun

LEMMA FirstValues ==
    ASSUME Fanout!FanoutConstants
    PROVE  Fanout!NoFan \in Fanout!Fan /\ Fanout!Idle \in FanoutRun /\ RunFits(Fanout!Idle)
  <1>1. Fanout!NoFan \in Fanout!Fan
    BY DEF Fanout!FanoutConstants, Fanout!NoFan, Fanout!Fan
  <1>2. Fanout!Idle \in FanoutRun
    BY <1>1 DEF Fanout!Idle, FanoutRun
  <1>3. RunFits(Fanout!Idle)
    BY DEF Fanout!Idle, RunFits, ReadFits, PageFits
  <1> QED BY <1>1, <1>2, <1>3

LEMMA FanoutInvInit == Fanout!FanoutConstants /\ Fanout!Init => FanoutInv
  <1> SUFFICES ASSUME Fanout!FanoutConstants, Fanout!Init PROVE FanoutInv
    OBVIOUS
  <1>1. fan \in Fanout!Fan /\ runs \in [Dispatchers -> FanoutRun]
    BY FirstValues DEF Fanout!Init
  <1>2. FanFits
    BY DEF FanFits, Fanout!Init
  <1>3. AlertsFit
    BY DEF AlertsFit, Fanout!NobodyIsAlertedTwice, Fanout!Init
  <1>4. \A d \in Dispatchers : RunFits(runs[d])
    BY FirstValues DEF Fanout!Init
  <1>5. owners \in [Fanout!Owners -> [state : {"absent", "approved", "suspended"}, since : Nat]]
    BY DEF Fanout!Init, Fanout!NoOwner
  <1> QED BY <1>1, <1>2, <1>3, <1>4, <1>5, AllFanoutParts DEF Fanout!Init

\* A step that changes one run alone, to one that fits.
LEMMA RunKeeps ==
    ASSUME FanoutInv, NEW d \in Dispatchers, NEW run \in FanoutRun, RunFits(run),
           runs' = [runs EXCEPT ![d] = run],
           UNCHANGED <<rollback, time, owners, fan, alerts, churn, owed>>
    PROVE  FanoutInv'
  <1>1. runs' \in [Dispatchers -> FanoutRun]
    BY FanoutParts
  <1>2. \A e \in Dispatchers : RunFits(runs'[e])
    BY FanoutParts
  <1>3. \A e \in Dispatchers : RunFits(runs[e])'
    BY <1>2 DEF RunFits, ReadFits, PageFits, CutoffOf
  <1>4. FanFits' /\ AlertsFit'
    BY FanoutParts DEF FanFits, AlertsFit, Fanout!NobodyIsAlertedTwice
  <1>5. fan' \in Fanout!Fan'
    BY FanoutParts DEF Fanout!Fan
  <1> QED BY <1>1, <1>3, <1>4, <1>5, FanoutParts
             DEF FanoutInv, Fanout!TypeOK, FanoutRun, Fanout!Fan, Fanout!Owners

LEMMA BeginKeeps ==
    ASSUME Fanout!FanoutConstants, FanoutInv, NEW d \in Dispatchers, Fanout!BeginDispatch(d)
    PROVE  FanoutInv'
  <1> DEFINE run == [Fanout!Idle EXCEPT !.pc = "fanouts", !.now = time]
  <1>1. run \in FanoutRun /\ run.pc = "fanouts"
    BY FirstValues, FanoutParts DEF FanoutRun
  <1>2. RunFits(run)
    BY <1>1 DEF RunFits, ReadFits, PageFits
  <1>3. runs' = [runs EXCEPT ![d] = run]
    BY DEF Fanout!BeginDispatch
  <1> HIDE DEF run
  <1> QED BY <1>1, <1>2, <1>3, RunKeeps DEF Fanout!BeginDispatch

LEMMA SelectFanoutKeeps ==
    ASSUME Fanout!FanoutConstants, FanoutInv, NEW d \in Dispatchers, Fanout!SelectFanout(d)
    PROVE  FanoutInv'
  <1>1. CASE fan.state = "pending"
    <2> DEFINE run == [runs[d] EXCEPT !.pc = "owners", !.read = fan]
    <2>1. run \in FanoutRun /\ run.pc = "owners" /\ run.read = fan
      BY FanoutParts DEF FanoutRun
    <2>2. fan.revision \in Nat
      BY FanoutParts DEF Fanout!Fan
    <2>3. RunFits(run)
      BY <1>1, <2>1, <2>2 DEF RunFits, ReadFits, PageFits
    <2>4. runs' = [runs EXCEPT ![d] = run]
      BY <1>1 DEF Fanout!SelectFanout
    <2> HIDE DEF run
    <2> QED BY <2>1, <2>3, <2>4, RunKeeps DEF Fanout!SelectFanout
  <1>2. CASE fan.state # "pending"
    BY <1>2, FirstValues, RunKeeps DEF Fanout!SelectFanout
  <1> QED BY <1>1, <1>2

LEMMA SelectOwnersKeeps ==
    ASSUME Fanout!FanoutConstants, FanoutInv, NEW d \in Dispatchers, Fanout!SelectOwners(d)
    PROVE  FanoutInv'
  <1> DEFINE S == Fanout!Selectable(d)
             page == Fanout!First(PageSize, S)
             run == [runs[d] EXCEPT !.pc = "commit", !.page = page, !.complete = Fanout!LastPage(S),
                                    !.visible = S]
  <1>1. CASE S = {} /\ runs[d].read.cutoff = None
    BY <1>1, FirstValues, RunKeeps DEF Fanout!SelectOwners
  <1>2. CASE ~ (S = {} /\ runs[d].read.cutoff = None)
    <2>1. runs[d] \in FanoutRun /\ runs[d].pc = "owners"
      BY FanoutParts DEF Fanout!SelectOwners
    <2>2. S \in SUBSET Fanout!Owners
      BY DEF Fanout!Selectable, Fanout!Approved
    <2>3. /\ page \in SUBSET Fanout!Owners /\ page \subseteq S
          /\ S # {} => page # {}
          /\ \A o \in S \ page : \A p \in page : p < o
          /\ Fanout!LastPage(S) => S \subseteq page
      BY <2>2, PageComesFirst
    <2>4. Fanout!LastPage(S) \in BOOLEAN
      <3>1. Cardinality(S) \in Nat /\ PageSize \in Nat
        BY <2>2, OwnersAreFinite, FS_CardinalityType DEF Fanout!FanoutConstants
      <3> HIDE DEF S
      <3> QED BY <3>1, SameCardinality DEF Fanout!LastPage
    <2>5. \A o \in S : /\ owners[o].state = "approved" /\ o > runs[d].read.cursor
                       /\ owners[o].since <= Fanout!Cutoff(d)
      BY DEF Fanout!Selectable, Fanout!Approved
    <2>6. S = {} => Fanout!LastPage(S)
      BY FS_EmptySet, SameCardinality DEF Fanout!LastPage, Fanout!FanoutConstants
    <2>7. runs[d].read = fan /\ fan.cutoff # None => \A o \in owed : o > fan.cursor => o \in S
      BY FanoutParts DEF FanFits, Fanout!Selectable, Fanout!Approved, Fanout!Cutoff
    <2> HIDE DEF S, page
    <2>8. run \in FanoutRun
      BY <2>1, <2>2, <2>3, <2>4 DEF FanoutRun
    <2>9. /\ run.pc = "commit" /\ run.read = runs[d].read /\ run.now = runs[d].now
          /\ run.page = page /\ (run.complete <=> Fanout!LastPage(S)) /\ run.visible = S
      BY <2>1, <2>4 DEF FanoutRun
    <2>10. runs' = [runs EXCEPT ![d] = run]
      BY <1>2 DEF Fanout!SelectOwners, S, page
    <2> HIDE DEF run
    <2>11. CutoffOf(run) = Fanout!Cutoff(d)
      BY <2>9 DEF CutoffOf, Fanout!Cutoff
    <2>12. ReadFits(run)
      BY <2>1, <2>9, FanoutParts DEF RunFits, ReadFits
    <2>13. PageFits(run)
      BY <2>3, <2>5, <2>6, <2>7, <2>9, <2>11 DEF PageFits
    <2> QED BY <2>8, <2>10, <2>12, <2>13, RunKeeps DEF Fanout!SelectOwners, RunFits
  <1> QED BY <1>1, <1>2

-----------------------------------------------------------------------------
(* The owners and the registration *)

LEMMA TickKeeps == ASSUME FanoutInv, Fanout!Tick PROVE FanoutInv'
  <1>1. time' \in Nat
    BY FanoutParts DEF Fanout!Tick
  <1>2. \A d \in Dispatchers : RunFits(runs[d])'
    BY FanoutParts DEF RunFits, ReadFits, PageFits, CutoffOf, Fanout!Tick
  <1>3. FanFits' /\ AlertsFit'
    BY FanoutParts DEF FanFits, AlertsFit, Fanout!NobodyIsAlertedTwice, Fanout!Tick
  <1> QED BY <1>1, <1>2, <1>3, FanoutParts
             DEF FanoutInv, Fanout!TypeOK, FanoutRun, Fanout!Fan, Fanout!Owners, Fanout!Tick

\* Who is owed, alerted, seen or on a page is an owner already.
LEMMA BootstrapKeeps ==
    ASSUME FanoutInv, NEW o \in Fanout!Owners, NEW t \in 0..time, Fanout!BootstrapOwner(o, t)
    PROVE  FanoutInv'
  <1>1. /\ owners' \in [Fanout!Owners -> [state : {"absent", "approved", "suspended"}, since : Nat]]
        /\ \A p \in Fanout!Owners : owners[p].state # "absent" => owners'[p] = owners[p]
    BY FanoutParts DEF Fanout!BootstrapOwner
  <1>2. FanFits'
    BY <1>1, FanoutParts DEF FanFits, Fanout!BootstrapOwner
  <1>3. AlertsFit'
    BY <1>1, FanoutParts
       DEF AlertsFit, Fanout!NobodyIsAlertedTwice, Fanout!BootstrapOwner, Fanout!Owners
  <1>4. ASSUME NEW d \in Dispatchers PROVE RunFits(runs[d])'
    <2>1. runs[d] \in FanoutRun /\ ReadFits(runs[d]) /\ PageFits(runs[d])
      BY FanoutParts DEF RunFits
    <2>2. runs[d].page \subseteq Fanout!Owners /\ runs[d].visible \subseteq Fanout!Owners
      BY <2>1 DEF FanoutRun
    <2>3. ReadFits(runs[d])'
      BY <2>1 DEF ReadFits, Fanout!BootstrapOwner
    <2>4. PageFits(runs[d])'
      BY <1>1, <2>1, <2>2 DEF PageFits, CutoffOf, Fanout!BootstrapOwner
    <2> QED BY <2>3, <2>4 DEF RunFits
  <1> QED BY <1>1, <1>2, <1>3, <1>4, FanoutParts
             DEF FanoutInv, Fanout!TypeOK, FanoutRun, Fanout!Fan, Fanout!Owners,
                 Fanout!BootstrapOwner

\* Who is suspended is owed nothing any more.
LEMMA SuspendKeeps ==
    ASSUME FanoutInv, NEW o \in Fanout!Owners, Fanout!SuspendOwner(o) PROVE FanoutInv'
  <1>1. /\ owners' \in [Fanout!Owners -> [state : {"absent", "approved", "suspended"}, since : Nat]]
        /\ \A p \in Fanout!Owners : owners'[p].since = owners[p].since
        /\ \A p \in Fanout!Owners \ {o} : owners'[p] = owners[p]
        /\ owners'[o].state = "suspended" /\ owners[o].state = "approved"
    BY FanoutParts DEF Fanout!SuspendOwner
  <1>2. FanFits'
    BY <1>1, FanoutParts DEF FanFits, Fanout!SuspendOwner
  <1>3. AlertsFit'
    BY <1>1, FanoutParts
       DEF AlertsFit, Fanout!NobodyIsAlertedTwice, Fanout!SuspendOwner, Fanout!Owners
  <1>4. ASSUME NEW d \in Dispatchers
        PROVE  /\ runs'[d] \in FanoutRun
               /\ runs'[d] = [runs[d] EXCEPT !.visible = @ \ {o}]
               /\ RunFits(runs[d])'
    <2>1. runs[d] \in FanoutRun /\ ReadFits(runs[d]) /\ PageFits(runs[d])
      BY FanoutParts DEF RunFits
    <2>2. runs'[d] = [runs[d] EXCEPT !.visible = @ \ {o}]
      BY DEF Fanout!SuspendOwner
    <2>3. /\ runs'[d] \in FanoutRun
          /\ runs'[d].visible = runs[d].visible \ {o} /\ runs'[d].page = runs[d].page
          /\ runs'[d].pc = runs[d].pc /\ runs'[d].read = runs[d].read
          /\ runs'[d].now = runs[d].now /\ runs'[d].complete = runs[d].complete
      BY <2>1, <2>2 DEF FanoutRun
    <2>4. runs[d].page \subseteq Fanout!Owners /\ runs[d].visible \subseteq Fanout!Owners
      BY <2>1 DEF FanoutRun
    <2>5. ReadFits(runs[d])'
      BY <2>1, <2>3 DEF ReadFits, Fanout!SuspendOwner
    <2>6. PageFits(runs[d])'
      <3> SUFFICES ASSUME runs'[d].pc = "commit" PROVE PageFits(runs[d])'
        BY DEF PageFits
      <3>1. CutoffOf(runs[d])' = CutoffOf(runs[d])
        BY <2>3 DEF CutoffOf
      <3>2. \A p \in runs'[d].page : /\ p > runs'[d].read.cursor
               /\ owners'[p].state # "absent" /\ owners'[p].since <= CutoffOf(runs[d])
        BY <1>1, <2>1, <2>3, <2>4 DEF PageFits
      <3>3. \A p \in runs'[d].visible :
               /\ owners'[p].state = "approved" /\ owners'[p].since <= CutoffOf(runs[d])
               /\ p \in runs'[d].page \/ \A q \in runs'[d].page : q < p
        BY <1>1, <2>1, <2>3, <2>4 DEF PageFits
      <3>4. /\ runs'[d].complete => runs'[d].visible \subseteq runs'[d].page
            /\ runs'[d].complete \/ runs'[d].page # {}
        BY <2>1, <2>3 DEF PageFits
      <3>5. runs'[d].read = fan /\ fan.cutoff # None =>
               \A p \in owed' : p > fan.cursor => p \in runs'[d].visible
        BY <2>1, <2>3 DEF PageFits, Fanout!SuspendOwner
      <3> QED BY <3>1, <3>2, <3>3, <3>4, <3>5 DEF PageFits, Fanout!SuspendOwner
    <2> QED BY <2>2, <2>3, <2>5, <2>6 DEF RunFits
  <1>5. runs' \in [Dispatchers -> FanoutRun]
    BY <1>4 DEF Fanout!SuspendOwner
  <1>6. churn' \in Nat
    BY FanoutParts DEF Fanout!SuspendOwner
  <1> QED BY <1>1, <1>2, <1>3, <1>4, <1>5, <1>6, FanoutParts
          DEF FanoutInv, Fanout!TypeOK, FanoutRun, Fanout!Fan, Fanout!Owners, Fanout!SuspendOwner

LEMMA ReapproveKeeps ==
    ASSUME FanoutInv, NEW o \in Fanout!Owners, Fanout!ReapproveOwner(o) PROVE FanoutInv'
  <1>1. /\ owners' \in [Fanout!Owners -> [state : {"absent", "approved", "suspended"}, since : Nat]]
        /\ \A p \in Fanout!Owners : owners'[p].since = owners[p].since
        /\ \A p \in Fanout!Owners \ {o} : owners'[p] = owners[p]
        /\ owners'[o].state = "approved" /\ owners[o].state = "suspended"
    BY FanoutParts DEF Fanout!ReapproveOwner
  <1>2. FanFits'
    BY <1>1, FanoutParts DEF FanFits, Fanout!ReapproveOwner
  <1>3. AlertsFit'
    BY <1>1, FanoutParts
       DEF AlertsFit, Fanout!NobodyIsAlertedTwice, Fanout!ReapproveOwner, Fanout!Owners
  <1>4. ASSUME NEW d \in Dispatchers PROVE RunFits(runs[d])'
    <2>1. runs[d] \in FanoutRun /\ ReadFits(runs[d]) /\ PageFits(runs[d])
      BY FanoutParts DEF RunFits
    <2>2. runs[d].page \subseteq Fanout!Owners /\ runs[d].visible \subseteq Fanout!Owners
      BY <2>1 DEF FanoutRun
    <2>3. ReadFits(runs[d])'
      BY <2>1 DEF ReadFits, Fanout!ReapproveOwner
    <2>4. PageFits(runs[d])'
      BY <1>1, <2>1, <2>2 DEF PageFits, CutoffOf, Fanout!ReapproveOwner
    <2> QED BY <2>3, <2>4 DEF RunFits
  <1> QED BY <1>1, <1>2, <1>3, <1>4, FanoutParts
             DEF FanoutInv, Fanout!TypeOK, FanoutRun, Fanout!Fan, Fanout!Owners,
                 Fanout!ReapproveOwner

\* Before the registration no run has read anything and nobody is alerted.
LEMMA RecordKeeps == ASSUME Fanout!FanoutConstants, FanoutInv, Fanout!RecordFanout PROVE FanoutInv'
  <1>1. fan = Fanout!NoFan /\ fan' = [Fanout!NoFan EXCEPT !.state = "pending"]
    BY FanoutParts DEF FanFits, Fanout!RecordFanout
  <1>2. fan' \in Fanout!Fan /\ fan'.state = "pending" /\ fan'.cutoff = None /\ fan.cutoff = None
    BY <1>1, FirstValues DEF Fanout!Fan, Fanout!NoFan
  <1>3. owed = {}
    BY <1>2, FanoutParts DEF FanFits
  <1>4. FanFits'
    BY <1>2, <1>3 DEF FanFits, Fanout!RecordFanout
  <1>5. AlertsFit'
    BY <1>2, FanoutParts
       DEF AlertsFit, Fanout!NobodyIsAlertedTwice, Fanout!RecordFanout, Fanout!Owners
  <1>6. ASSUME NEW d \in Dispatchers PROVE RunFits(runs[d])'
    <2>1. runs[d].pc \notin {"owners", "commit"}
      BY FanoutParts DEF RunFits, ReadFits, Fanout!RecordFanout
    <2> QED BY <2>1 DEF RunFits, ReadFits, PageFits, Fanout!RecordFanout
  <1> QED BY <1>2, <1>4, <1>5, <1>6, FanoutParts
             DEF FanoutInv, Fanout!TypeOK, FanoutRun, Fanout!Fan, Fanout!Owners,
                 Fanout!RecordFanout

-----------------------------------------------------------------------------
(* The batch of a page *)

\* The alerts that a page leaves: none is taken back, none is given twice, and a new one goes
\* to an approved owner of the page.
LEMMA InsertedIs ==
    ASSUME alerts \in [Fanout!Owners -> Nat], Fanout!NobodyIsAlertedTwice, NEW page
    PROVE  /\ Fanout!Inserted(page) \in [Fanout!Owners -> Nat]
           /\ \A o \in Fanout!Owners :
                 /\ Fanout!Inserted(page)[o] >= alerts[o] /\ Fanout!Inserted(page)[o] <= 1
                 /\ alerts[o] = 0 /\ Fanout!Inserted(page)[o] >= 1 =>
                       o \in page /\ owners[o].state = "approved"
  <1> DEFINE sent == Fanout!Inserted(page)
  <1>1. sent = [o \in Fanout!Owners |->
                  IF o \in page \cap Fanout!Approved /\ alerts[o] = 0 THEN 1 ELSE alerts[o]]
    BY DEF Fanout!Inserted
  <1> HIDE DEF sent
  <1>2. sent \in [Fanout!Owners -> Nat]
    BY <1>1
  <1>3. ASSUME NEW o \in Fanout!Owners
        PROVE  /\ sent[o] >= alerts[o] /\ sent[o] <= 1
               /\ alerts[o] = 0 /\ sent[o] >= 1 => o \in page /\ owners[o].state = "approved"
    <2>1. sent[o] = IF o \in page \cap Fanout!Approved /\ alerts[o] = 0 THEN 1 ELSE alerts[o]
      BY <1>1
    <2>2. alerts[o] \in Nat /\ alerts[o] <= 1
      BY DEF Fanout!NobodyIsAlertedTwice
    <2> QED BY <2>1, <2>2 DEF Fanout!Approved
  <1> QED BY <1>2, <1>3 DEF sent

\* The page is lost: the fan-out stays as it is.
LEMMA LostPageKeeps ==
    ASSUME Fanout!FanoutConstants, FanoutInv, NEW d \in Dispatchers, runs[d].pc = "commit",
           runs' = [runs EXCEPT ![d] = Fanout!Idle],
           alerts' = IF rollback THEN alerts ELSE Fanout!Inserted(runs[d].page),
           UNCHANGED <<rollback, time, owners, fan, churn, owed>>
    PROVE  FanoutInv'
  <1> DEFINE sent == Fanout!Inserted(runs[d].page)
  <1>1. /\ sent \in [Fanout!Owners -> Nat]
        /\ \A o \in Fanout!Owners : /\ sent[o] >= alerts[o] /\ sent[o] <= 1
                                    /\ alerts[o] = 0 /\ sent[o] >= 1 =>
                                          o \in runs[d].page /\ owners[o].state = "approved"
    BY FanoutParts, InsertedIs DEF AlertsFit
  <1> HIDE DEF sent
  <1>2. alerts' = IF rollback THEN alerts ELSE sent
    BY DEF sent
  <1>3. alerts' \in [Fanout!Owners -> Nat] /\ \A o \in Fanout!Owners : alerts'[o] >= alerts[o]
    BY <1>1, <1>2, FanoutParts
  <1>4. FanFits'
    <2>1. \A o \in owed : alerts[o] >= 1 => alerts'[o] >= 1
      BY <1>3, FanoutParts
    <2> QED BY <2>1, FanoutParts DEF FanFits
  <1>5. AlertsFit'
    <2>1. ASSUME NEW o \in Fanout!Owners
          PROVE  /\ alerts'[o] <= 1
                 /\ alerts'[o] >= 1 =>
                       /\ owners[o].state # "absent"
                       /\ rollback => fan.cutoff # None /\ owners[o].since <= fan.cutoff
      <3>1. alerts[o] \in Nat
        BY FanoutParts
      <3> QED BY <3>1, <1>1, <1>2, FanoutParts DEF AlertsFit, Fanout!NobodyIsAlertedTwice
    <2> QED BY <2>1 DEF AlertsFit, Fanout!NobodyIsAlertedTwice, Fanout!Owners
  <1>6. runs' \in [Dispatchers -> FanoutRun] /\ \A e \in Dispatchers : RunFits(runs'[e])
    BY FirstValues, FanoutParts
  <1>7. \A e \in Dispatchers : RunFits(runs[e])'
    BY <1>6 DEF RunFits, ReadFits, PageFits, CutoffOf
  <1> QED BY <1>3, <1>4, <1>5, <1>6, <1>7, FanoutParts
             DEF FanoutInv, Fanout!TypeOK, FanoutRun, Fanout!Fan, Fanout!Owners

\* What the UPDATE of an unchanged fan-out makes of it.
Moved(d) ==
    [state |-> IF runs[d].complete THEN "complete" ELSE "pending",
     cursor |-> Fanout!CursorAfter(runs[d].page, fan.cursor),
     cutoff |-> IF fan.cutoff = None THEN Fanout!Cutoff(d) ELSE fan.cutoff,
     revision |-> fan.revision + 1]

\* It was read as it is, so that the cutoff is the run's and the cursor stands on the last
\* owner of a page beyond it.
LEMMA MovedIs ==
    ASSUME Fanout!FanoutConstants, FanoutInv, NEW d \in Dispatchers, runs[d].pc = "commit",
           NEW sent, Fanout!Advances(d, sent)
    PROVE  /\ runs[d].read = fan /\ fan.state = "pending" /\ fan.revision \in Nat
           /\ Moved(d) \in Fanout!Fan /\ Moved(d).revision = fan.revision + 1
           /\ Moved(d).cutoff = CutoffOf(runs[d]) /\ Moved(d).cutoff \in Nat
           /\ fan.cutoff # None => Moved(d).cutoff = fan.cutoff
           /\ Moved(d).state = IF runs[d].complete THEN "complete" ELSE "pending"
           /\ fan.cursor \in Nat /\ Moved(d).cursor >= fan.cursor
           /\ \A o \in runs[d].page : o <= Moved(d).cursor
           /\ runs[d].page = {} => Moved(d).cursor = fan.cursor
           /\ runs[d].page # {} => /\ Moved(d).cursor \in runs[d].page
                                   /\ Moved(d).cursor > fan.cursor
  <1> DEFINE run == runs[d]
             cursor == Fanout!CursorAfter(run.page, fan.cursor)
             cutoff == IF fan.cutoff = None THEN Fanout!Cutoff(d) ELSE fan.cutoff
             state == IF run.complete THEN "complete" ELSE "pending"
  <1>1. /\ run \in FanoutRun /\ ReadFits(run) /\ PageFits(run)
        /\ fan \in Fanout!Fan /\ run.pc = "commit"
        /\ run.read \in Fanout!Fan
    BY FanoutParts DEF RunFits, FanoutRun
  <1>2. run.read = fan /\ fan.state = "pending"
    BY <1>1 DEF Fanout!Advances, ReadFits
  <1>3. /\ fan.revision \in Nat /\ fan.cutoff \in Nat \cup {None} /\ fan.cursor \in 0..MaxOwner
        /\ run.page \in SUBSET Fanout!Owners /\ run.now \in Nat
        /\ None \notin Nat /\ MaxOwner \in Nat
    BY <1>1 DEF Fanout!Fan, FanoutRun, Fanout!FanoutConstants
  <1>4. Fanout!Cutoff(d) = CutoffOf(run)
    BY DEF Fanout!Cutoff, CutoffOf
  <1>5. cutoff = CutoffOf(run) /\ cutoff \in Nat /\ (fan.cutoff # None => cutoff = fan.cutoff)
    BY <1>2, <1>3, <1>4 DEF CutoffOf
  <1>6. run.page = {} => cursor = fan.cursor
    BY DEF Fanout!CursorAfter
  <1>7. run.page # {} => /\ cursor \in run.page /\ cursor > fan.cursor
                         /\ \A o \in run.page : o <= cursor
    BY <1>1, <1>2, <1>3, CursorIsLast DEF PageFits
  <1>8. cursor \in 0..MaxOwner /\ cursor >= fan.cursor
    <2>1. CASE run.page = {}
      BY <2>1, <1>3, <1>6
    <2>2. CASE run.page # {}
      <3>1. cursor \in Fanout!Owners
        BY <2>2, <1>3, <1>7
      <3> QED BY <2>2, <3>1, <1>3, <1>7 DEF Fanout!Owners
    <2> QED BY <2>1, <2>2
  <1>9. state \in {"pending", "complete"}
    OBVIOUS
  <1>10. Moved(d) = [state |-> state, cursor |-> cursor, cutoff |-> cutoff,
                     revision |-> fan.revision + 1]
    BY DEF Moved
  <1> HIDE DEF cursor, cutoff, state
  <1>11. Moved(d) \in Fanout!Fan
    BY <1>3, <1>5, <1>8, <1>9, <1>10 DEF Fanout!Fan
  <1>12. /\ Moved(d).state = state /\ Moved(d).cursor = cursor /\ Moved(d).cutoff = cutoff
         /\ Moved(d).revision = fan.revision + 1
    BY <1>10
  <1>13. \A o \in run.page : o <= cursor
    BY <1>7
  <1> QED BY <1>2, <1>3, <1>5, <1>6, <1>7, <1>8, <1>11, <1>12, <1>13 DEF state

\* The page is taken: its owners have their alerts, the cursor moves on and the other runs
\* are out of date.
LEMMA PageKeeps ==
    ASSUME Fanout!FanoutConstants, FanoutInv, NEW d \in Dispatchers, runs[d].pc = "commit",
           Fanout!Advances(d, Fanout!Inserted(runs[d].page)),
           runs' = [runs EXCEPT ![d] = Fanout!Idle],
           fan' = Moved(d), alerts' = Fanout!Inserted(runs[d].page),
           owed' = IF fan.cutoff = None THEN runs[d].visible ELSE owed,
           UNCHANGED <<rollback, time, owners, churn>>
    PROVE  FanoutInv'
  <1> DEFINE run == runs[d]
  <1>1. /\ run \in FanoutRun /\ PageFits(run) /\ run.pc = "commit"
        /\ run.page \subseteq Fanout!Owners /\ run.visible \subseteq Fanout!Owners
    BY FanoutParts DEF RunFits, FanoutRun
  <1>2. /\ run.read = fan /\ fan.state = "pending" /\ fan.revision \in Nat /\ fan.cursor \in Nat
        /\ fan' \in Fanout!Fan /\ fan'.revision = fan.revision + 1
        /\ fan'.cutoff = CutoffOf(run) /\ fan'.cutoff \in Nat
        /\ fan.cutoff # None => fan'.cutoff = fan.cutoff
        /\ fan'.state = IF run.complete THEN "complete" ELSE "pending"
        /\ run.page = {} => fan'.cursor = fan.cursor
        /\ run.page # {} => fan'.cursor \in run.page
    BY MovedIs
  <1>3. /\ alerts' \in [Fanout!Owners -> Nat]
        /\ \A o \in Fanout!Owners : /\ alerts'[o] >= alerts[o] /\ alerts'[o] <= 1
                                    /\ alerts[o] = 0 /\ alerts'[o] >= 1 =>
                                          o \in run.page /\ owners[o].state = "approved"
    BY FanoutParts, InsertedIs DEF AlertsFit
  <1>4. \A o \in run.page : alerts'[o] = 1
    BY DEF Fanout!Advances
  <1>5. owed' \subseteq Fanout!Owners
    BY <1>1, FanoutParts
  <1>6. fan'.cutoff # None /\ fan'.state # "none"
    BY <1>2 DEF Fanout!FanoutConstants
  <1>7. ASSUME NEW o \in owed'
        PROVE  /\ owners[o].state = "approved" /\ owners[o].since <= fan'.cutoff
               /\ o <= fan'.cursor \/ fan'.state = "complete" => alerts'[o] >= 1
    <2>1. o \in Fanout!Owners /\ o \in Nat /\ alerts[o] \in Nat /\ alerts'[o] \in Nat
      <3>1. o \in Fanout!Owners
        BY <1>5
      <3>2. o \in Nat
        BY <3>1 DEF Fanout!Owners
      <3> QED BY <3>1, <3>2, <1>3, FanoutParts
    <2>2. ASSUME o \in run.visible
          PROVE  /\ owners[o].state = "approved" /\ owners[o].since <= fan'.cutoff
                 /\ o <= fan'.cursor \/ fan'.state = "complete" => alerts'[o] >= 1
      <3>1. owners[o].state = "approved" /\ owners[o].since <= fan'.cutoff
        BY <1>1, <1>2, <2>2 DEF PageFits
      <3>2. ASSUME o <= fan'.cursor \/ fan'.state = "complete" PROVE o \in run.page
        <4>1. CASE run.complete
          BY <4>1, <1>1, <2>2 DEF PageFits
        <4>2. CASE ~ run.complete
          <5>1. o <= fan'.cursor /\ fan'.cursor \in run.page /\ fan'.cursor \in Nat
            BY <4>2, <3>2, <1>1, <1>2 DEF PageFits, Fanout!Owners
          <5>2. o \in run.page \/ fan'.cursor < o
            BY <5>1, <1>1, <2>2 DEF PageFits
          <5> QED BY <5>1, <5>2, <2>1
        <4> QED BY <4>1, <4>2
      <3> QED BY <3>1, <3>2, <1>4
    <2>3. CASE fan.cutoff = None
      BY <2>2, <2>3
    <2>4. CASE fan.cutoff # None
      <3>1. /\ o \in owed /\ owners[o].state = "approved" /\ owners[o].since <= fan.cutoff
            /\ o <= fan.cursor => alerts[o] >= 1
        BY <2>4, FanoutParts DEF FanFits
      <3>2. CASE o <= fan.cursor
        BY <3>1, <3>2, <2>1, <2>4, <1>2, <1>3
      <3>3. CASE o > fan.cursor
        <4>1. o \in run.visible
          BY <3>1, <3>3, <2>4, <1>1, <1>2 DEF PageFits
        <4> QED BY <4>1, <2>2
      <3> QED BY <3>2, <3>3, <2>1, <1>2
    <2> QED BY <2>3, <2>4
  <1>8. FanFits'
    BY <1>6, <1>7 DEF FanFits
  <1>9. AlertsFit'
    <2>1. ASSUME NEW o \in Fanout!Owners, alerts'[o] >= 1
          PROVE  owners[o].state # "absent" /\ (rollback => owners[o].since <= fan'.cutoff)
      <3>1. alerts[o] \in Nat
        BY FanoutParts
      <3>2. CASE alerts[o] = 0
        <4>1. o \in run.page
          BY <3>2, <2>1, <1>3
        <4> QED BY <4>1, <1>1, <1>2 DEF PageFits
      <3>3. CASE alerts[o] >= 1
        BY <3>3, <1>2, FanoutParts DEF AlertsFit
      <3> QED BY <3>1, <3>2, <3>3
    <2> QED BY <2>1, <1>3, <1>6 DEF AlertsFit, Fanout!NobodyIsAlertedTwice, Fanout!Owners
  <1>10. runs' \in [Dispatchers -> FanoutRun]
    BY FirstValues, FanoutParts
  <1>11. ASSUME NEW e \in Dispatchers PROVE RunFits(runs[e])'
    <2>1. CASE e = d
      <3>1. runs'[e].pc = "idle"
        BY <2>1, FanoutParts DEF Fanout!Idle
      <3> QED BY <3>1 DEF RunFits, ReadFits, PageFits
    <2>2. CASE e # d
      <3>1. runs'[e] = runs[e] /\ runs[e] \in FanoutRun /\ runs[e].read \in Fanout!Fan
            /\ ReadFits(runs[e]) /\ PageFits(runs[e])
        BY <2>2, FanoutParts DEF RunFits, FanoutRun
      <3>2. runs[e].read.revision \in Nat
        BY <3>1 DEF Fanout!Fan
      <3>3. runs[e].pc \in {"owners", "commit"} => /\ runs[e].read.revision <= fan.revision
                                                   /\ runs[e].read.state = "pending"
                                                   /\ runs[e].read # fan'
        BY <3>1, <3>2, <1>2 DEF ReadFits
      <3>4. ReadFits(runs[e])'
        BY <3>1, <3>2, <3>3, <1>2, <1>6 DEF ReadFits
      <3>5. PageFits(runs[e])'
        BY <3>1, <3>3 DEF PageFits, CutoffOf
      <3> QED BY <3>4, <3>5 DEF RunFits
    <2> QED BY <2>1, <2>2
  <1> QED BY <1>2, <1>3, <1>5, <1>8, <1>9, <1>10, <1>11, FanoutParts
          DEF FanoutInv, Fanout!TypeOK, FanoutRun, Fanout!Fan, Fanout!Owners

LEMMA CommitKeeps ==
    ASSUME Fanout!FanoutConstants, FanoutInv, NEW d \in Dispatchers, Fanout!Commit(d)
    PROVE  FanoutInv'
  <1>1. CASE Fanout!Advances(d, Fanout!Inserted(runs[d].page))
    BY <1>1, PageKeeps DEF Fanout!Commit, Moved
  <1>2. CASE ~ Fanout!Advances(d, Fanout!Inserted(runs[d].page))
    BY <1>2, LostPageKeeps DEF Fanout!Commit
  <1> QED BY <1>1, <1>2

LEMMA FanoutInvNext ==
    Fanout!FanoutConstants /\ FanoutInv /\ [Fanout!Next]_Fanout!vars => FanoutInv'
  <1> SUFFICES ASSUME Fanout!FanoutConstants, FanoutInv, [Fanout!Next]_Fanout!vars PROVE FanoutInv'
    OBVIOUS
  <1>1. CASE UNCHANGED Fanout!vars
    BY SMTT(30), <1>1
       DEF Fanout!vars, FanoutInv, Fanout!TypeOK, FanFits, AlertsFit, Fanout!NobodyIsAlertedTwice,
           RunFits,
                ReadFits, PageFits, CutoffOf, Fanout!Owners, Fanout!Fan
  <1>2. CASE Fanout!Next
    BY <1>2, TickKeeps, BootstrapKeeps, SuspendKeeps, ReapproveKeeps, RecordKeeps, BeginKeeps,
       SelectFanoutKeeps, SelectOwnersKeeps, CommitKeeps DEF Fanout!Next, Fanout!DispatchStep
  <1> QED BY <1>1, <1>2

-----------------------------------------------------------------------------
(* The theorems of the fan-out *)

LEMMA FanoutPromises ==
    FanoutInv => /\ Fanout!TypeOK /\ Fanout!NobodyIsSkipped
                 /\ Fanout!NobodyIsAlertedTwice /\ Fanout!RecipientsAreFixed
  BY DEF FanoutInv, FanFits, AlertsFit, Fanout!NobodyIsSkipped, Fanout!RecipientsAreFixed

\* No step of any number of dispatches moves the cursor back, lets it stay without completing,
\* changes a cutoff or reopens a complete fan-out: the guards of migration 0016 never fire.
LEMMA StepsPassTheGuards ==
    ASSUME Fanout!FanoutConstants, FanoutInv, [Fanout!Next]_Fanout!vars, fan' # fan,
           fan.state # "none"
    PROVE  /\ fan'.cursor >= fan.cursor
           /\ fan'.state = "pending" => fan'.cursor > fan.cursor
           /\ fan.cutoff # None => fan'.cutoff = fan.cutoff
           /\ fan.state = "complete" => fan' = fan
           /\ fan'.revision <= fan.revision + 1
  <1>1. PICK d \in Dispatchers : Fanout!Commit(d)
    <2>1. Fanout!Next /\ ~ Fanout!Tick /\ ~ Fanout!RecordFanout
      BY DEF Fanout!vars, Fanout!Tick, Fanout!RecordFanout
    <2>2. \A o \in Fanout!Owners : /\ ~ \E t \in 0..time : Fanout!BootstrapOwner(o, t)
                                  /\ ~ Fanout!SuspendOwner(o) /\ ~ Fanout!ReapproveOwner(o)
      BY DEF Fanout!BootstrapOwner, Fanout!SuspendOwner, Fanout!ReapproveOwner
    <2>3. \A d \in Dispatchers : /\ ~ Fanout!BeginDispatch(d) /\ ~ Fanout!SelectFanout(d)
                                 /\ ~ Fanout!SelectOwners(d)
      BY DEF Fanout!BeginDispatch, Fanout!SelectFanout, Fanout!SelectOwners
    <2> QED BY <2>1, <2>2, <2>3 DEF Fanout!Next, Fanout!DispatchStep
  <1>2. /\ runs[d].pc = "commit" /\ fan' = Moved(d)
        /\ Fanout!Advances(d, Fanout!Inserted(runs[d].page))
    BY <1>1 DEF Fanout!Commit, Moved
  <1>3. runs[d].complete \/ runs[d].page # {}
    BY <1>2, FanoutParts DEF RunFits, PageFits
  <1> QED BY <1>2, <1>3, MovedIs

LEMMA FanoutInvInitNext ==
    /\ BothInit => FanoutInv
    /\ FanoutInv /\ [OutboxStep \/ FanoutStep]_allVars =>
          FanoutInv' /\ [Fanout!Next]_Fanout!vars
  <1>1. BothInit => FanoutInv
    BY SettleConstants, FanoutInvInit DEF BothInit
  <1>2. [OutboxStep \/ FanoutStep]_allVars => [Fanout!Next]_Fanout!vars
    <2>1. ASSUME OutboxStep \/ UNCHANGED allVars PROVE UNCHANGED Fanout!vars
      BY <2>1 DEF OutboxStep, fanVars, allVars, Fanout!vars
    <2> QED BY <2>1 DEF FanoutStep
  <1> QED BY <1>1, <1>2, SettleConstants, FanoutInvNext

\* For any number of overlapping dispatches, owners and pages of any size: a complete fan-out
\* has alerted everybody who was seen when its cutoff was fixed and stayed approved, nobody is
\* alerted twice, and where a lost page is rolled back nobody approved after the cutoff
\* (expandAccountNotificationFanouts).
THEOREM OwnersAreAlertedOnce == FairHalves => []EveryOwnerOnce
  <1>1. FanoutInv => EveryOwnerOnce
    BY FanoutPromises DEF EveryOwnerOnce
  <1> QED BY <1>1, FanoutInvInitNext, PTL DEF FairHalves

\* The guards of the fan-out's table, which would end a dispatch before it delivers anything,
\* never fire (migration 0016), for any number of overlapping dispatches.
THEOREM FanoutGuardsNeverFire == FairHalves => AdvancesPassTheGuards
  <1>1. FanoutInv /\ [Fanout!Next]_Fanout!vars =>
          [fan.state # "none" =>
              /\ fan'.cursor >= fan.cursor
              /\ fan'.state = "pending" => fan'.cursor > fan.cursor
              /\ fan.cutoff # None => fan'.cutoff = fan.cutoff
              /\ fan.state = "complete" => fan' = fan
              /\ fan'.revision <= fan.revision + 1]_fan
    BY SettleConstants, StepsPassTheGuards
  <1> QED BY <1>1, FanoutInvInitNext, PTL
          DEF FairHalves, AdvancesPassTheGuards, Fanout!AdvancesPassTheGuards

===============================================================================
