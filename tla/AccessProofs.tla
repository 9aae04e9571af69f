------------------------------ MODULE AccessProofs ------------------------------
(***************************************************************************)
(* Proofs about what stands between a visitor and an account: the external *)
(* identities and the transactions that lead to them (Identities), the     *)
(* limit on sign-in attempts (SignInLimiter) and the checks of a request   *)
(* (RequestGate), for every number of subjects, accounts, transactions,    *)
(* attempts, clients and requests.  The three share no state.              *)
(***************************************************************************)
EXTENDS Identities, SignInLimiter, RequestGate, FiniteSetTheorems, TLAPS

-----------------------------------------------------------------------------
(* The inductive invariant *)

Identity == [owner : Users \cup {Nobody}, status : {"none", "active", "unlinked"},
             primary : BOOLEAN]

LinkRow == [owner : Users \cup {Nobody},
            status : {"none", "pending", "processing", "completed", "failed", "cancelled",
                      "expired"},
            late : BOOLEAN]

Call == [op : {"none", "callback", "link", "cancel", "complete", "unlink"},
         pc : {"idle", "consume", "exchange", "find", "register", "count", "insert", "cancel",
               "open", "claim", "verify", "look", "attach", "fail", "others", "unlink"},
         txn : Txns \cup {Nobody}, subject : Subjects \cup {Nobody}, user : Users \cup {Nobody},
         link : Links \cup {Nobody}, row : Identity, n : Nat]

\* Request c names what its step needs, among the accounts `known' and the rows `rows' of
\* user_identities; a row it has read is still there.
CallFits(c, known, rows) ==
    /\ c \in Call
    /\ c.pc \in {"consume", "exchange", "find", "register"} => c.txn \in Txns /\ c.subject \in Subjects
    /\ c.pc \in {"count", "insert"} => c.user \in known
    /\ c.pc = "cancel" => c.link \in Links
    /\ c.pc \in {"open", "claim", "verify", "look", "attach", "fail"} =>
          c.link \in Links /\ c.user \in known /\ c.subject \in Subjects
    /\ c.pc = "attach" /\ c.row # NoIdentity => rows[c.subject] # NoIdentity
    /\ c.pc \in {"others", "unlink"} => c.subject \in Subjects

TypesFit ==
    /\ txn \in [Txns -> {"none", "open", "expired", "consumed", "gone"}]
    /\ users \subseteq Users /\ work \in Nat
    /\ ident \in [Subjects -> Identity] /\ link \in [Links -> LinkRow]
    /\ req \in [Requests -> Call]

\* Rows belong to accounts, and requests fit them.
RowsFit ==
    /\ \A s \in Subjects : ident[s] # NoIdentity => ident[s].owner \in users /\ ident[s].status # "none"
    /\ \A l \in Links : link[l] # NoLink => link[l].owner \in users /\ link[l].status # "none"
    /\ \A r \in Requests : CallFits(req[r], users, ident)

\* The callback has consumed its transaction.
Exchanging(c) == c.pc \in {"exchange", "find", "register"}

Spent(t) == txn[t] \in {"consumed", "gone"}

\* A transaction is consumed for one callback, and before anybody is signed in with it.
TxnsFit ==
    /\ \A a \in signed : a[2] \in Txns /\ Spent(a[2]) /\ a[3] \in Subjects
                         /\ ident[a[3]] # NoIdentity
    /\ \A r \in Requests : Exchanging(req[r]) =>
          Spent(req[r].txn) /\ \A a \in signed : a[2] # req[r].txn
    /\ \A q, r \in Requests :
          Exchanging(req[q]) /\ Exchanging(req[r]) /\ req[q].txn = req[r].txn => q = r

\* Every account has one primary identity, which is active.
PrimariesFit ==
    /\ \A s \in Subjects : ident[s].primary => Active(s)
    /\ \A s, t \in Subjects :
          ident[s].primary /\ ident[t].primary /\ ident[s].owner = ident[t].owner => s = t
    /\ \A u \in users : \E s \in Subjects : ident[s].primary /\ ident[s].owner = u

\* The request has claimed its link transaction.
Claiming(c) == c.pc \in {"verify", "look", "attach", "fail"}

\* A link transaction is claimed by one request, which alone completes it.
LinksFit ==
    /\ \A r \in Requests : Claiming(req[r]) =>
          link[req[r].link].status = "processing" /\ linked[req[r].link] = {}
    /\ \A q, r \in Requests :
          Claiming(req[q]) /\ Claiming(req[r]) /\ req[q].link = req[r].link => q = r
    /\ linked \in [Links -> SUBSET Subjects]
    /\ \A l \in Links : /\ linked[l] = {} \/ \E s \in Subjects : linked[l] = {s}
                        /\ linked[l] # {} => link[l].status = "completed"

IdentitiesInv ==
    TypesFit /\ RowsFit /\ TxnsFit /\ TransactionServesOnce /\ PrimariesFit /\ LinksFit

-----------------------------------------------------------------------------
(* What a step may do *)

LEMMA BlankFits ==
    /\ NoIdentity \in Identity /\ NoLink \in LinkRow /\ NoReq \in Call
    /\ \A known, rows : CallFits(NoReq, known, rows)
    /\ ~ Exchanging(NoReq) /\ ~ Claiming(NoReq)
  <1>1. NoIdentity \in Identity /\ NoLink \in LinkRow
    BY DEF NoIdentity, NoLink, Identity, LinkRow
  <1>2. NoReq \in Call /\ NoReq.pc = "idle"
    BY <1>1 DEF NoReq, Call
  <1> QED BY <1>1, <1>2 DEF CallFits, Exchanging, Claiming

\* Request r becomes c.
Turns(r, c) == req' = [req EXCEPT ![r] = c]

\* No account and no identity goes away, and no identity changes hands.
Grows ==
    /\ users \subseteq users'
    /\ \A s \in Subjects : ident[s] # NoIdentity =>
          ident'[s] # NoIdentity /\ ident'[s].owner = ident[s].owner

\* Request r begins, goes on or ends as c; transactions and sign-ins stay.
TxnsStay(r, c) ==
    /\ UNCHANGED <<txn, signed>>
    /\ Exchanging(c) => Exchanging(req[r]) /\ c.txn = req[r].txn

\* Claimed and completed link transactions stay.
LinksStay(r, c) ==
    /\ linked' = linked
    /\ \A l \in Links : link[l].status \in {"processing", "completed"} =>
          link'[l].status = link[l].status
    /\ Claiming(c) => Claiming(req[r]) /\ c.link = req[r].link

\* The rows that link transactions may have.
LinkFits(row, known) == row = NoLink \/ (row.owner \in known /\ row.status # "none")

LEMMA RowsKept ==
    ASSUME IdentitiesInv, NEW r \in Requests, NEW c, Turns(r, c), Grows,
           users' \subseteq Users, work' \in Nat,
           ident' \in [Subjects -> Identity],
           \A s \in Subjects : ident'[s] # NoIdentity =>
              ident'[s].owner \in users' /\ ident'[s].status # "none",
           link' \in [Links -> LinkRow], \A l \in Links : LinkFits(link'[l], users'),
           txn' \in [Txns -> {"none", "open", "expired", "consumed", "gone"}],
           CallFits(c, users', ident')
    PROVE  TypesFit' /\ RowsFit'
  <1>1. req \in [Requests -> Call] /\ c \in Call
    BY DEF IdentitiesInv, TypesFit, CallFits
  <1>2. req' \in [Requests -> Call] /\ req'[r] = c /\ \A q \in Requests \ {r} : req'[q] = req[q]
    BY <1>1 DEF Turns
  <1>3. TypesFit'
    BY <1>2 DEF TypesFit
  <1>4. \A q \in Requests : CallFits(req'[q], users', ident')
    BY <1>2 DEF IdentitiesInv, RowsFit, CallFits, Grows
  <1> QED BY <1>3, <1>4 DEF RowsFit, LinkFits

LEMMA TxnsKept ==
    ASSUME IdentitiesInv, NEW r \in Requests, NEW c, Turns(r, c), Grows, TxnsStay(r, c)
    PROVE  TxnsFit' /\ TransactionServesOnce'
  <1>1. /\ \A q \in Requests \ {r} : req'[q] = req[q]
        /\ req'[r] = c
    BY DEF IdentitiesInv, TypesFit, Turns
  <1>2. \A q \in Requests : Exchanging(req'[q]) => Exchanging(req[q]) /\ req'[q].txn = req[q].txn
    BY <1>1 DEF TxnsStay
  <1>3. \A t : Spent(t)' <=> Spent(t)
    BY DEF Spent, TxnsStay
  <1>4. \A a \in signed : a[2] \in Txns /\ Spent(a[2]) /\ a[3] \in Subjects /\ ident'[a[3]] # NoIdentity
    BY DEF IdentitiesInv, TxnsFit, Grows
  <1>5. \A q \in Requests : Exchanging(req'[q]) =>
          Spent(req'[q].txn) /\ \A a \in signed : a[2] # req'[q].txn
    BY <1>2 DEF IdentitiesInv, TxnsFit
  <1>6. \A p, q \in Requests :
          Exchanging(req'[p]) /\ Exchanging(req'[q]) /\ req'[p].txn = req'[q].txn => p = q
    BY <1>2 DEF IdentitiesInv, TxnsFit
  <1>7. TxnsFit'
    BY <1>3, <1>4, <1>5, <1>6 DEF TxnsFit, TxnsStay, Exchanging, Spent
  <1>8. TransactionServesOnce'
    BY <1>4 DEF IdentitiesInv, TxnsFit, TransactionServesOnce, TxnsStay, Grows
  <1> QED BY <1>7, <1>8

LEMMA LinksKept ==
    ASSUME IdentitiesInv, NEW r \in Requests, NEW c, Turns(r, c), LinksStay(r, c)
    PROVE  LinksFit'
  <1>1. /\ \A q \in Requests \ {r} : req'[q] = req[q]
        /\ req'[r] = c
    BY DEF IdentitiesInv, TypesFit, Turns
  <1>2. \A q \in Requests : Claiming(req'[q]) => Claiming(req[q]) /\ req'[q].link = req[q].link
    BY <1>1 DEF LinksStay
  <1>3. \A q \in Requests : Claiming(req[q]) => req[q].link \in Links
    BY DEF IdentitiesInv, RowsFit, CallFits, Claiming
  <1>4. \A q \in Requests : Claiming(req'[q]) =>
          link'[req'[q].link].status = "processing" /\ linked'[req'[q].link] = {}
    BY <1>2, <1>3 DEF IdentitiesInv, LinksFit, LinksStay
  <1>5. \A p, q \in Requests :
          Claiming(req'[p]) /\ Claiming(req'[q]) /\ req'[p].link = req'[q].link => p = q
    BY <1>2 DEF IdentitiesInv, LinksFit
  <1>6. /\ linked' \in [Links -> SUBSET Subjects]
        /\ \A l \in Links : /\ linked'[l] = {} \/ \E s \in Subjects : linked'[l] = {s}
                            /\ linked'[l] # {} => link'[l].status = "completed"
    BY DEF IdentitiesInv, LinksFit, LinksStay
  <1> QED BY <1>4, <1>5, <1>6 DEF LinksFit, Claiming

LEMMA PrimariesKept ==
    ASSUME IdentitiesInv, users' = users,
           \A s \in Subjects : /\ ident'[s].primary = ident[s].primary
                               /\ ident[s].primary => ident'[s].status = "active"
                                                      /\ ident'[s].owner = ident[s].owner
    PROVE  PrimariesFit'
  BY DEF IdentitiesInv, PrimariesFit, Active

\* A step of a request that changes neither accounts nor identities, no consumed
\* transaction and no claimed link transaction.
Quiet(r, c) ==
    /\ Turns(r, c) /\ CallFits(c, users, ident) /\ work' \in Nat
    /\ UNCHANGED <<users, ident>> /\ TxnsStay(r, c) /\ LinksStay(r, c)
    /\ link' \in [Links -> LinkRow] /\ \A l \in Links : LinkFits(link'[l], users)

LEMMA QuietKeeps ==
    ASSUME IdentitiesInv, NEW r \in Requests, NEW c, Quiet(r, c) PROVE IdentitiesInv'
  <1>1. Grows
    BY DEF Grows, Quiet
  <1>2. TypesFit' /\ RowsFit'
    BY <1>1, RowsKept DEF Quiet, IdentitiesInv, TypesFit, RowsFit, TxnsStay
  <1>3. PrimariesFit'
    BY PrimariesKept DEF Quiet, IdentitiesInv, PrimariesFit, Active
  <1> QED BY <1>1, <1>2, <1>3, TxnsKept, LinksKept DEF Quiet, IdentitiesInv

-----------------------------------------------------------------------------
(* The quiet steps *)

LEMMA Parts ==
    ASSUME IdentitiesInv, NEW r \in Requests
    PROVE  /\ req \in [Requests -> Call] /\ req[r] \in Call /\ CallFits(req[r], users, ident)
           /\ work \in Nat /\ users \subseteq Users
           /\ ident \in [Subjects -> Identity] /\ link \in [Links -> LinkRow]
           /\ txn \in [Txns -> {"none", "open", "expired", "consumed", "gone"}]
           /\ \A l \in Links : LinkFits(link[l], users)
  BY DEF IdentitiesInv, TypesFit, RowsFit, LinkFits

\* A request that ends changes nothing more.
LEMMA EndsQuietly ==
    ASSUME IdentitiesInv, NEW r \in Requests, End(r),
           UNCHANGED <<txn, ident, users, work, signed, linked>>,
           link' \in [Links -> LinkRow], \A l \in Links : LinkFits(link'[l], users),
           \A l \in Links : link[l].status \in {"processing", "completed"} =>
              link'[l].status = link[l].status
    PROVE  IdentitiesInv'
  <1>1. Turns(r, NoReq)
    BY DEF End, Turns
  <1>2. Quiet(r, NoReq)
    BY <1>1, Parts, BlankFits DEF Quiet, TxnsStay, LinksStay
  <1> QED BY <1>2, QuietKeeps

LEMMA BareEnd ==
    ASSUME IdentitiesInv, NEW r \in Requests, End(r),
           UNCHANGED <<txn, ident, users, link, work, signed, linked>>
    PROVE  IdentitiesInv'
  BY EndsQuietly, Parts

\* A request that goes on to step pc changes nothing more.
LEMMA GoesQuietly ==
    ASSUME IdentitiesInv, NEW r \in Requests, NEW pc, Go(r, pc),
           \/ req[r].pc = "exchange" /\ pc = "find"
           \/ req[r].pc = "find" /\ pc = "register"
           \/ req[r].pc = "count" /\ pc = "insert"
           \/ req[r].pc = "open" /\ pc = "claim"
           \/ req[r].pc = "verify" /\ pc \in {"look", "fail"}
           \/ req[r].pc \in {"look", "attach"} /\ pc = "fail"
           \/ req[r].pc = "others" /\ pc = "unlink",
           UNCHANGED <<txn, ident, users, work, signed, linked>>,
           link' \in [Links -> LinkRow], \A l \in Links : LinkFits(link'[l], users),
           \A l \in Links : link[l].status \in {"processing", "completed"} =>
              link'[l].status = link[l].status
    PROVE  IdentitiesInv'
  <1> DEFINE c == [req[r] EXCEPT !.pc = pc]
  <1>1. Turns(r, c)
    BY DEF Go, Turns
  <1>2. /\ c \in Call /\ c.pc = pc /\ c.txn = req[r].txn /\ c.subject = req[r].subject
        /\ c.user = req[r].user /\ c.link = req[r].link /\ c.row = req[r].row
    BY Parts DEF Call
  <1> HIDE DEF c
  <1>3. CallFits(c, users, ident)
    BY <1>2, Parts DEF CallFits
  <1>4. Exchanging(c) => Exchanging(req[r])
    BY <1>2 DEF Exchanging
  <1>5. Claiming(c) => Claiming(req[r])
    BY <1>2 DEF Claiming
  <1>6. Quiet(r, c)
    BY <1>1, <1>2, <1>3, <1>4, <1>5, Parts DEF Quiet, TxnsStay, LinksStay
  <1> QED BY <1>6, QuietKeeps

\* A request that begins as c changes nothing more.
LEMMA TakesQuietly ==
    ASSUME IdentitiesInv, NEW r \in Requests, NEW fresh \in Call, Take(r, fresh),
           fresh.pc \in {"consume", "count", "cancel", "open", "others"},
           CallFits(fresh, users, ident),
           UNCHANGED <<txn, ident, users, link, signed, linked>>
    PROVE  IdentitiesInv'
  <1> DEFINE c == [fresh EXCEPT !.n = work + 1]
  <1>1. Turns(r, c) /\ work' = work + 1
    BY DEF Take, Turns
  <1>2. /\ c \in Call /\ c.pc = fresh.pc /\ c.txn = fresh.txn /\ c.subject = fresh.subject
        /\ c.user = fresh.user /\ c.link = fresh.link /\ c.row = fresh.row
    BY Parts DEF Call
  <1> HIDE DEF c
  <1>3. CallFits(c, users, ident)
    BY <1>2 DEF CallFits
  <1>4. ~ Exchanging(c) /\ ~ Claiming(c)
    BY <1>2 DEF Exchanging, Claiming
  <1>5. Quiet(r, c)
    BY <1>1, <1>3, <1>4, Parts DEF Quiet, TxnsStay, LinksStay
  <1> QED BY <1>5, QuietKeeps

LEMMA BeginningsKeep ==
    ASSUME IdentitiesInv, NEW r \in Requests,
           \/ \E t \in Txns, s \in Subjects : BeginCallback(r, t, s)
           \/ \E u \in Users : BeginLink(r, u)
           \/ \E l \in Links : BeginCancel(r, l)
           \/ \E l \in Links, s \in Subjects : BeginCompletion(r, l, s)
           \/ \E s \in Subjects : BeginUnlink(r, s)
    PROVE  IdentitiesInv'
  <1>1. ASSUME NEW t \in Txns, NEW s \in Subjects, BeginCallback(r, t, s) PROVE IdentitiesInv'
    <2> DEFINE fresh == [NoReq EXCEPT !.op = "callback", !.pc = "consume", !.txn = t, !.subject = s]
    <2>1. fresh \in Call /\ fresh.pc = "consume" /\ fresh.txn = t /\ fresh.subject = s
      BY BlankFits DEF Call, NoReq
    <2>2. Take(r, fresh) /\ UNCHANGED <<txn, ident, users, link, signed, linked>>
      BY <1>1 DEF BeginCallback
    <2> HIDE DEF fresh
    <2> QED BY <2>1, <2>2, TakesQuietly DEF CallFits
  <1>2. ASSUME NEW u \in Users, BeginLink(r, u) PROVE IdentitiesInv'
    <2> DEFINE fresh == [NoReq EXCEPT !.op = "link", !.pc = "count", !.user = u]
    <2>1. fresh \in Call /\ fresh.pc = "count" /\ fresh.user = u
      BY BlankFits DEF Call, NoReq
    <2>2. Take(r, fresh) /\ u \in users /\ UNCHANGED <<txn, ident, users, link, signed, linked>>
      BY <1>2 DEF BeginLink
    <2> HIDE DEF fresh
    <2> QED BY <2>1, <2>2, TakesQuietly DEF CallFits
  <1>3. ASSUME NEW l \in Links, BeginCancel(r, l) PROVE IdentitiesInv'
    <2> DEFINE fresh == [NoReq EXCEPT !.op = "cancel", !.pc = "cancel", !.link = l]
    <2>1. fresh \in Call /\ fresh.pc = "cancel" /\ fresh.link = l
      BY BlankFits DEF Call, NoReq
    <2>2. Take(r, fresh) /\ UNCHANGED <<txn, ident, users, link, signed, linked>>
      BY <1>3 DEF BeginCancel
    <2> HIDE DEF fresh
    <2> QED BY <2>1, <2>2, TakesQuietly DEF CallFits
  <1>4. ASSUME NEW l \in Links, NEW s \in Subjects, BeginCompletion(r, l, s) PROVE IdentitiesInv'
    <2> DEFINE fresh == [NoReq EXCEPT !.op = "complete", !.pc = "open", !.link = l,
                                      !.user = link[l].owner, !.subject = s]
    <2>0. LinkFits(link[l], users) /\ users \subseteq Users /\ link[l].status # "none"
      BY <1>4, Parts DEF BeginCompletion
    <2>1. link[l].owner \in users /\ users \subseteq Users
      BY <2>0 DEF LinkFits, NoLink
    <2>2. fresh \in Call /\ fresh.pc = "open" /\ fresh.link = l /\ fresh.subject = s
          /\ fresh.user = link[l].owner
      BY <2>1, BlankFits DEF Call, NoReq
    <2>3. Take(r, fresh) /\ UNCHANGED <<txn, ident, users, link, signed, linked>>
      BY <1>4 DEF BeginCompletion
    <2> HIDE DEF fresh
    <2> QED BY <2>1, <2>2, <2>3, TakesQuietly DEF CallFits
  <1>5. ASSUME NEW s \in Subjects, BeginUnlink(r, s) PROVE IdentitiesInv'
    <2> DEFINE fresh == [NoReq EXCEPT !.op = "unlink", !.pc = "others", !.subject = s,
                                      !.user = ident[s].owner]
    <2>1. ident[s].owner \in Users \cup {Nobody}
      BY Parts DEF Identity
    <2>2. fresh \in Call /\ fresh.pc = "others" /\ fresh.subject = s
      BY <2>1, BlankFits DEF Call, NoReq
    <2>3. Take(r, fresh) /\ UNCHANGED <<txn, ident, users, link, signed, linked>>
      BY <1>5 DEF BeginUnlink
    <2> HIDE DEF fresh
    <2> QED BY <2>2, <2>3, TakesQuietly DEF CallFits
  <1> QED BY <1>1, <1>2, <1>3, <1>4, <1>5

\* Link transactions that are not claimed expire, are cancelled or inserted.
LEMMA LinkRowsKeep ==
    ASSUME IdentitiesInv, NEW r \in Requests,
           \/ CountPending(r) \/ Cancel(r) \/ Open(r)
           \/ \E l \in Links : InsertLink(r, l)
    PROVE  IdentitiesInv'
  <1> DEFINE Fine(new) == /\ new \in [Links -> LinkRow] /\ \A l \in Links : LinkFits(new[l], users)
                          /\ \A l \in Links : link[l].status \in {"processing", "completed"} =>
                                new[l].status = link[l].status
  <1>1. ASSUME NEW l \in Links, NEW row \in LinkRow, LinkFits(row, users),
               link[l].status \notin {"processing", "completed"}
        PROVE  Fine([link EXCEPT ![l] = row])
    BY <1>1, Parts
  <1>2. ASSUME NEW row \in LinkRow, LinkFits(row, users), row.status = "pending",
               NEW status \in {"expired", "cancelled"}
        PROVE  /\ [row EXCEPT !.status = status] \in LinkRow
               /\ LinkFits([row EXCEPT !.status = status], users)
    BY <1>2 DEF LinkRow, LinkFits, NoLink
  <1>3. CASE CountPending(r)
    <2> DEFINE swept == [l \in Links |-> IF l \in PendingOf(req[r].user) /\ link[l].late
                                         THEN [link[l] EXCEPT !.status = "expired"] ELSE link[l]]
    <2>1. Fine(swept)
      <3>1. ASSUME NEW l \in Links
            PROVE  /\ swept[l] \in LinkRow /\ LinkFits(swept[l], users)
                   /\ link[l].status \in {"processing", "completed"} => swept[l] = link[l]
        <4>1. link[l] \in LinkRow /\ LinkFits(link[l], users)
          BY Parts
        <4>2. CASE l \in PendingOf(req[r].user) /\ link[l].late
          <5>1. link[l].status = "pending" /\ swept[l] = [link[l] EXCEPT !.status = "expired"]
            BY <4>2 DEF PendingOf
          <5> QED BY <1>2, <4>1, <5>1
        <4>3. CASE ~ (l \in PendingOf(req[r].user) /\ link[l].late)
          BY <4>1, <4>3
        <4> QED BY <4>2, <4>3
      <3> QED BY <3>1
    <2>2. /\ link' = swept /\ req[r].pc = "count" /\ (End(r) \/ Go(r, "insert"))
          /\ UNCHANGED <<txn, ident, users, work, signed, linked>>
      BY <1>3 DEF CountPending
    <2> HIDE DEF swept
    <2> QED BY <2>1, <2>2, EndsQuietly, GoesQuietly
  <1>4. CASE Cancel(r)
    <2>1. /\ link' = [link EXCEPT ![req[r].link] = Cancelled(link[req[r].link])] /\ End(r)
          /\ UNCHANGED <<txn, ident, users, work, signed, linked>> /\ req[r].link \in Links
      BY <1>4, Parts DEF Cancel, CallFits
    <2>2. CASE link[req[r].link].status = "pending"
      <3> DEFINE row == [link[req[r].link] EXCEPT !.status = "cancelled"]
      <3>1. row \in LinkRow /\ LinkFits(row, users)
        BY <1>2, <2>1, <2>2, Parts
      <3>2. link' = [link EXCEPT ![req[r].link] = row]
        BY <2>1, <2>2 DEF Cancelled
      <3> HIDE DEF row
      <3> QED BY <1>1, <2>1, <2>2, <3>1, <3>2, EndsQuietly
    <2>3. CASE link[req[r].link].status # "pending"
      <3>1. link' = link
        BY <2>1, <2>3, Parts DEF Cancelled
      <3> QED BY <2>1, <3>1, BareEnd
    <2> QED BY <2>2, <2>3
  <1>5. CASE Open(r)
    <2>1. /\ req[r].link \in Links /\ req[r].pc = "open"
          /\ UNCHANGED <<txn, ident, users, work, signed, linked>>
      BY <1>5, Parts DEF Open, CallFits
    <2>2. CASE link' = link /\ End(r)
      BY <2>1, <2>2, BareEnd
    <2>3. CASE link' = link /\ Go(r, "claim")
      BY <2>1, <2>3, GoesQuietly, Parts
    <2>4. CASE /\ link[req[r].link].status = "pending" /\ End(r)
               /\ link' = [link EXCEPT ![req[r].link].status = "expired"]
      <3> DEFINE row == [link[req[r].link] EXCEPT !.status = "expired"]
      <3>1. row \in LinkRow /\ LinkFits(row, users)
        BY <1>2, <2>1, <2>4, Parts
      <3>2. link' = [link EXCEPT ![req[r].link] = row]
        BY <2>1, <2>4, Parts
      <3>3. link[req[r].link].status \notin {"processing", "completed"} /\ End(r)
        BY <2>4
      <3> HIDE DEF row
      <3>4. Fine(link')
        BY <1>1, <2>1, <3>1, <3>2, <3>3
      <3> QED BY <2>1, <3>3, <3>4, EndsQuietly
    <2> QED BY <1>5, <2>2, <2>3, <2>4 DEF Open
  <1>6. ASSUME NEW l \in Links, InsertLink(r, l) PROVE IdentitiesInv'
    <2> DEFINE row == [owner |-> req[r].user, status |-> "pending", late |-> FALSE]
    <2>1. /\ req[r].user \in users /\ link[l].status = "none" /\ End(r)
          /\ link' = [link EXCEPT ![l] = row] /\ UNCHANGED <<txn, ident, users, work, signed, linked>>
      BY <1>6, Parts DEF InsertLink, CallFits
    <2>2. row \in LinkRow /\ LinkFits(row, users)
      BY <2>1, Parts DEF LinkRow, LinkFits
    <2> HIDE DEF row
    <2> QED BY <1>1, <2>1, <2>2, EndsQuietly
  <1> QED BY <1>3, <1>4, <1>5, <1>6

-----------------------------------------------------------------------------
(* Transactions *)

\* A transaction that is consumed or gone stays spent.
LEMMA SpendingKeeps ==
    ASSUME IdentitiesInv, UNCHANGED <<ident, users, work, signed, linked>>,
           txn' \in [Txns -> {"none", "open", "expired", "consumed", "gone"}],
           \A t \in Txns : Spent(t) => txn'[t] \in {"consumed", "gone"},
           req' = req, link' \in [Links -> LinkRow], \A l \in Links : LinkFits(link'[l], users),
           \A l \in Links : link'[l].status = link[l].status
    PROVE  IdentitiesInv'
  <1>1. TypesFit' /\ RowsFit'
    BY DEF IdentitiesInv, TypesFit, RowsFit, LinkFits
  <1>2. \A r \in Requests : Exchanging(req[r]) => req[r].txn \in Txns
    BY DEF IdentitiesInv, RowsFit, CallFits, Exchanging
  <1>3. TxnsFit'
    BY <1>2 DEF IdentitiesInv, TxnsFit, Spent, Exchanging
  <1>4. TransactionServesOnce'
    BY DEF IdentitiesInv, TransactionServesOnce
  <1>5. PrimariesFit'
    BY DEF IdentitiesInv, PrimariesFit, Active
  <1>6. \A r \in Requests : Claiming(req[r]) => req[r].link \in Links
    BY DEF IdentitiesInv, RowsFit, CallFits, Claiming
  <1>7. LinksFit'
    BY <1>6 DEF IdentitiesInv, LinksFit, Claiming
  <1> QED BY <1>1, <1>3, <1>4, <1>5, <1>7 DEF IdentitiesInv

LEMMA AllParts ==
    ASSUME IdentitiesInv
    PROVE  /\ req \in [Requests -> Call] /\ work \in Nat
           /\ ident \in [Subjects -> Identity] /\ link \in [Links -> LinkRow]
           /\ txn \in [Txns -> {"none", "open", "expired", "consumed", "gone"}]
           /\ \A l \in Links : LinkFits(link[l], users)
  BY DEF IdentitiesInv, TypesFit, RowsFit, LinkFits

LEMMA StartKeeps == ASSUME IdentitiesInv, NEW t \in Txns, Start(t) PROVE IdentitiesInv'
  <1>1. /\ txn' \in [Txns -> {"none", "open", "expired", "consumed", "gone"}]
        /\ \A u \in Txns : Spent(u) => txn'[u] \in {"consumed", "gone"}
    BY AllParts DEF Start, Spent
  <1> QED BY <1>1, SpendingKeeps, AllParts DEF Start

LEMMA TimePassesKeeps == ASSUME IdentitiesInv, TimePasses PROVE IdentitiesInv'
  <1>1. /\ txn' \in [Txns -> {"none", "open", "expired", "consumed", "gone"}]
        /\ \A u \in Txns : Spent(u) => txn'[u] \in {"consumed", "gone"}
    BY AllParts DEF TimePasses, Spent
  <1>2. ASSUME NEW l \in Links
        PROVE  /\ link'[l] \in LinkRow /\ LinkFits(link'[l], users) /\ link'[l].status = link[l].status
    <2>1. link[l] \in LinkRow /\ LinkFits(link[l], users)
      BY AllParts
    <2>2. link'[l] = [link[l] EXCEPT !.late = link[l].status # "none"]
      BY DEF TimePasses
    <2>3. (link[l].status # "none") \in BOOLEAN
      BY Zenon
    <2>4. link'[l] \in LinkRow /\ link'[l].status = link[l].status /\ link'[l].owner = link[l].owner
      BY <2>1, <2>2, <2>3 DEF LinkRow
    <2>5. CASE link[l] = NoLink
      <3>1. ~ link'[l].late
        <4>1. link'[l].late <=> link[l].status # "none"
          BY <2>1, <2>2 DEF LinkRow
        <4> QED BY <2>5, <4>1 DEF NoLink
      <3>2. link'[l].owner = Nobody /\ link'[l].status = "none"
        BY <2>4, <2>5 DEF NoLink
      <3>3. link'[l] = NoLink
        BY <2>4, <3>1, <3>2 DEF NoLink, LinkRow
      <3> QED BY <2>4, <3>3 DEF LinkFits
    <2>6. CASE link[l] # NoLink
      BY <2>1, <2>4, <2>6 DEF LinkFits
    <2> QED BY <2>4, <2>5, <2>6
  <1>3. link' \in [Links -> LinkRow]
    <2>1. link' = [l \in Links |-> link'[l]]
      BY DEF TimePasses
    <2> QED BY <1>2, <2>1
  <1> QED BY <1>1, <1>2, <1>3, SpendingKeeps, AllParts DEF TimePasses

\* The callback that consumes a transaction is the only one to.
LEMMA ConsumeKeeps == ASSUME IdentitiesInv, NEW r \in Requests, Consume(r) PROVE IdentitiesInv'
  <1> DEFINE t == req[r].txn
             c == [req[r] EXCEPT !.pc = "exchange"]
  <1>1. /\ req[r].pc = "consume" /\ t \in Txns /\ req[r].subject \in Subjects
        /\ UNCHANGED <<ident, users, link, work, signed, linked>>
    BY Parts DEF Consume, CallFits
  <1>2. CASE UNCHANGED txn /\ End(r)
    BY <1>1, <1>2, BareEnd
  <1>3. CASE Consumable(t) /\ txn' = [txn EXCEPT ![t] = "consumed"] /\ Go(r, "exchange")
    <2>1. Turns(r, c)
      BY <1>3 DEF Go, Turns
    <2>2. /\ c \in Call /\ c.pc = "exchange" /\ c.txn = t /\ c.subject = req[r].subject
      BY Parts DEF Call
    <2>3. txn[t] = "open" /\ txn'[t] = "consumed" /\ \A u \in Txns \ {t} : txn'[u] = txn[u]
      BY <1>1, <1>3, Parts DEF Consumable
    <2> HIDE DEF c, t
    <2>4. CallFits(c, users, ident) /\ ~ Claiming(c)
      BY <1>1, <2>2 DEF CallFits, Claiming
    <2>5. Grows
      BY <1>1 DEF Grows
    <2>6. txn' \in [Txns -> {"none", "open", "expired", "consumed", "gone"}]
      BY <1>1, <1>3, Parts
    <2>7. TypesFit' /\ RowsFit'
      BY <1>1, <2>1, <2>4, <2>5, <2>6, RowsKept, Parts DEF IdentitiesInv, RowsFit
    <2>8. LinksFit'
      BY <1>1, <2>1, <2>4, LinksKept DEF LinksStay
    <2>9. PrimariesFit' /\ TransactionServesOnce'
      BY <1>1 DEF IdentitiesInv, PrimariesFit, TransactionServesOnce, Active
    <2>10. TxnsFit'
      <3>1. /\ req'[r] = c /\ \A q \in Requests \ {r} : req'[q] = req[q]
        BY <2>1, Parts DEF Turns
      <3>2. \A u \in Txns : Spent(u) => u # t /\ txn'[u] \in {"consumed", "gone"}
        BY <2>3 DEF Spent
      <3>4. \A q \in Requests : Exchanging(req[q]) => Spent(req[q].txn) /\ req[q].txn \in Txns
        BY DEF IdentitiesInv, TxnsFit, RowsFit, CallFits, Exchanging
      <3>5. \A a \in signed : a[2] \in Txns /\ Spent(a[2]) /\ a[3] \in Subjects /\ ident[a[3]] # NoIdentity
        BY DEF IdentitiesInv, TxnsFit
      <3>6. \A q \in Requests : Exchanging(req'[q]) =>
              \/ q = r /\ req'[q].txn = t
              \/ q # r /\ Exchanging(req[q]) /\ req'[q].txn = req[q].txn /\ req'[q].txn # t
        BY <2>2, <3>1, <3>2, <3>4
      <3>7. \A q \in Requests : Exchanging(req'[q]) =>
              /\ txn'[req'[q].txn] \in {"consumed", "gone"}
              /\ \A a \in signed : a[2] # req'[q].txn
        BY <2>3, <3>2, <3>4, <3>5, <3>6 DEF IdentitiesInv, TxnsFit
      <3>8. \A p, q \in Requests :
              Exchanging(req'[p]) /\ Exchanging(req'[q]) /\ req'[p].txn = req'[q].txn => p = q
        BY <3>6 DEF IdentitiesInv, TxnsFit
      <3> QED BY <1>1, <3>2, <3>5, <3>7, <3>8 DEF TxnsFit, Exchanging, Spent
    <2> QED BY <2>7, <2>8, <2>9, <2>10 DEF IdentitiesInv
  <1> QED BY <1>2, <1>3 DEF Consume

-----------------------------------------------------------------------------
(* Signing in *)

\* Signed in with a spent transaction that nobody was signed in with, into the account
\* that owns the identity; the callback ends.
LEMMA SignInKeeps ==
    ASSUME IdentitiesInv, NEW r \in Requests, NEW u, req[r].pc \in {"find", "register"},
           SignIn(r, u), Grows, UNCHANGED <<txn, link, work, linked>>,
           ident'[req[r].subject] # NoIdentity, ident'[req[r].subject].owner = u
    PROVE  TxnsFit' /\ TransactionServesOnce' /\ LinksFit'
  <1> DEFINE e == <<req[r].n, req[r].txn, req[r].subject, u>>
  <1>1. /\ signed' = signed \cup {e} /\ Turns(r, NoReq)
        /\ req[r].txn \in Txns /\ req[r].subject \in Subjects /\ Exchanging(req[r])
        /\ e[2] = req[r].txn /\ e[3] = req[r].subject /\ e[4] = u
    BY Parts DEF SignIn, End, Turns, CallFits, Exchanging
  <1> HIDE DEF e
  <1>2. req'[r] = NoReq /\ \A q \in Requests \ {r} : req'[q] = req[q]
    BY <1>1, Parts DEF Turns
  <1>3. Spent(req[r].txn) /\ \A a \in signed : a[2] # req[r].txn
    BY <1>1 DEF IdentitiesInv, TxnsFit
  <1>4. \A a \in signed : a[2] \in Txns /\ Spent(a[2]) /\ a[3] \in Subjects /\ ident[a[3]] # NoIdentity
    BY DEF IdentitiesInv, TxnsFit
  <1>5. \A q \in Requests : Exchanging(req'[q]) =>
          q # r /\ Exchanging(req[q]) /\ req'[q].txn = req[q].txn /\ req[q].txn # req[r].txn
    BY <1>1, <1>2, BlankFits DEF IdentitiesInv, TxnsFit
  <1>6. \A a \in signed' : a[2] \in Txns /\ Spent(a[2]) /\ a[3] \in Subjects /\ ident'[a[3]] # NoIdentity
    BY <1>1, <1>3, <1>4 DEF Grows
  <1>7. \A q \in Requests : Exchanging(req'[q]) =>
          Spent(req'[q].txn) /\ \A a \in signed' : a[2] # req'[q].txn
    BY <1>1, <1>5 DEF IdentitiesInv, TxnsFit
  <1>8. \A p, q \in Requests :
          Exchanging(req'[p]) /\ Exchanging(req'[q]) /\ req'[p].txn = req'[q].txn => p = q
    BY <1>5 DEF IdentitiesInv, TxnsFit
  <1>9. TxnsFit'
    BY <1>6, <1>7, <1>8 DEF TxnsFit, Exchanging, Spent
  <1>10. TransactionServesOnce'
    <2>1. \A a, b \in signed' : a[2] = b[2] => a = b
      BY <1>1, <1>3 DEF IdentitiesInv, TransactionServesOnce
    <2>2. \A a \in signed' : ident'[a[3]].owner = a[4]
      BY <1>1, <1>4 DEF IdentitiesInv, TransactionServesOnce, Grows
    <2> QED BY <2>1, <2>2 DEF TransactionServesOnce
  <1>11. LinksFit'
    BY <1>1, BlankFits, LinksKept DEF LinksStay
  <1> QED BY <1>9, <1>10, <1>11

\* A known identity signs into its account.
LEMMA KnownSignsIn ==
    ASSUME IdentitiesInv, NEW r \in Requests, req[r].pc \in {"find", "register"},
           Active(req[r].subject), SignIn(r, ident[req[r].subject].owner),
           UNCHANGED <<txn, ident, users, link, work, linked>>
    PROVE  IdentitiesInv'
  <1>1. Turns(r, NoReq) /\ ident[req[r].subject] # NoIdentity
    BY DEF SignIn, End, Turns, Active, NoIdentity
  <1>2. Grows
    BY DEF Grows
  <1>3. TypesFit' /\ RowsFit'
    BY <1>1, <1>2, BlankFits, Parts, RowsKept DEF IdentitiesInv, RowsFit
  <1>4. PrimariesFit'
    BY DEF IdentitiesInv, PrimariesFit, Active
  <1>5. TxnsFit' /\ TransactionServesOnce' /\ LinksFit'
    BY <1>1, <1>2, SignInKeeps
  <1> QED BY <1>3, <1>4, <1>5 DEF IdentitiesInv

LEMMA FindKeeps == ASSUME IdentitiesInv, NEW r \in Requests, Find(r) PROVE IdentitiesInv'
  <1>1. CASE Active(req[r].subject) /\ SignIn(r, ident[req[r].subject].owner)
    BY <1>1, KnownSignsIn DEF Find
  <1>2. CASE Go(r, "register") /\ UNCHANGED signed
    BY <1>2, GoesQuietly, Parts DEF Find
  <1> QED BY <1>1, <1>2 DEF Find

LEMMA RegisterKeeps ==
    ASSUME IdentitiesInv, NEW r \in Requests, NEW u \in Users, Register(r, u) PROVE IdentitiesInv'
  <1> DEFINE s == req[r].subject
             row == [owner |-> u, status |-> "active", primary |-> TRUE]
  <1>1. req[r].pc = "register" /\ u \notin users /\ UNCHANGED <<txn, link, work, linked>>
        /\ s \in Subjects
    BY Parts DEF Register, CallFits
  <1>2. CASE /\ ident[s] = NoIdentity /\ ident' = [ident EXCEPT ![s] = row]
             /\ users' = users \cup {u} /\ SignIn(r, u)
    <2>1. row \in Identity /\ row # NoIdentity /\ row.owner = u /\ row.status = "active" /\ row.primary
      BY DEF Identity, NoIdentity
    <2> HIDE DEF row, s
    <2>2. Turns(r, NoReq)
      BY <1>2 DEF SignIn, End, Turns
    <2>3. /\ ident'[s] = row /\ \A t \in Subjects \ {s} : ident'[t] = ident[t]
          /\ ident' \in [Subjects -> Identity]
      BY <1>1, <1>2, <2>1, Parts
    <2>4. Grows
      BY <1>2, <2>3 DEF Grows
    <2>5. \A t \in Subjects : ident'[t] # NoIdentity =>
             ident'[t].owner \in users' /\ ident'[t].status # "none"
      BY <1>2, <2>1, <2>3 DEF IdentitiesInv, RowsFit
    <2>6. \A l \in Links : LinkFits(link'[l], users')
      BY <1>1, <1>2, Parts DEF LinkFits
    <2>7. TypesFit' /\ RowsFit'
      BY <1>1, <1>2, <2>2, <2>3, <2>4, <2>5, <2>6, BlankFits, Parts, RowsKept
    <2>8. TxnsFit' /\ TransactionServesOnce' /\ LinksFit'
      BY <1>1, <1>2, <2>1, <2>3, <2>4, SignInKeeps DEF s
    <2>9. \A t \in Subjects : ident[t].primary => ident[t].owner # u
      BY <1>1 DEF IdentitiesInv, RowsFit, NoIdentity
    <2>10. PrimariesFit'
      <3>1. \A t \in Subjects : ident'[t].primary => ident'[t].status = "active"
        BY <2>1, <2>3 DEF IdentitiesInv, PrimariesFit, Active
      <3>2. \A t, q \in Subjects :
               ident'[t].primary /\ ident'[q].primary /\ ident'[t].owner = ident'[q].owner => t = q
        BY <2>1, <2>3, <2>9 DEF IdentitiesInv, PrimariesFit
      <3>3. ASSUME NEW v \in users' PROVE \E t \in Subjects : ident'[t].primary /\ ident'[t].owner = v
        <4>1. CASE v = u
          BY <1>1, <2>1, <2>3, <4>1 DEF s
        <4>2. CASE v \in users
          <5>1. PICK t \in Subjects : ident[t].primary /\ ident[t].owner = v
            BY <4>2 DEF IdentitiesInv, PrimariesFit
          <5>2. t # s
            BY <1>2, <5>1 DEF NoIdentity
          <5> QED BY <2>3, <5>1, <5>2
        <4> QED BY <1>2, <4>1, <4>2
      <3> QED BY <3>1, <3>2, <3>3 DEF PrimariesFit, Active
    <2> QED BY <2>7, <2>8, <2>10 DEF IdentitiesInv
  <1>3. CASE Active(s) /\ SignIn(r, ident[s].owner) /\ UNCHANGED <<ident, users>>
    BY <1>1, <1>3, KnownSignsIn
  <1>4. CASE End(r) /\ UNCHANGED <<ident, users, signed>>
    BY <1>1, <1>4, BareEnd
  <1> QED BY <1>2, <1>3, <1>4 DEF Register

-----------------------------------------------------------------------------
(* Linking *)

\* The request that claims a link transaction is the only one to.
LEMMA ClaimKeeps == ASSUME IdentitiesInv, NEW r \in Requests, Claim(r) PROVE IdentitiesInv'
  <1> DEFINE l == req[r].link
             c == [req[r] EXCEPT !.pc = "verify"]
             row == [link[l] EXCEPT !.status = "processing"]
  <1>1. /\ req[r].pc = "claim" /\ l \in Links /\ UNCHANGED <<txn, ident, users, work, signed, linked>>
        /\ req[r].user \in users /\ req[r].subject \in Subjects
    BY Parts DEF Claim, CallFits
  <1>2. CASE UNCHANGED link /\ End(r)
    BY <1>1, <1>2, BareEnd
  <1>3. CASE Claimable(l) /\ link' = [link EXCEPT ![l].status = "processing"] /\ Go(r, "verify")
    <2>1. Turns(r, c) /\ link' = [link EXCEPT ![l] = row]
      BY <1>1, <1>3, Parts DEF Go, Turns
    <2>2. c \in Call /\ c.pc = "verify" /\ c.link = l /\ c.user = req[r].user /\ c.subject = req[r].subject
      BY Parts DEF Call
    <2>3. link[l] \in LinkRow /\ link[l].status = "pending" /\ LinkFits(link[l], users)
      BY <1>1, <1>3, Parts DEF Claimable
    <2>4. row \in LinkRow /\ row.status = "processing" /\ LinkFits(row, users)
      BY <2>3 DEF LinkRow, LinkFits, NoLink
    <2> HIDE DEF c, row, l
    <2>5. CallFits(c, users, ident) /\ ~ Exchanging(c)
      BY <1>1, <2>2 DEF CallFits, Exchanging
    <2>6. link'[l] = row /\ \A k \in Links \ {l} : link'[k] = link[k]
      BY <1>1, <2>1, Parts
    <2>7. link' \in [Links -> LinkRow] /\ \A k \in Links : LinkFits(link'[k], users)
      BY <1>1, <2>1, <2>4, <2>6, Parts
    <2>8. Grows
      BY <1>1 DEF Grows
    <2>9. TypesFit' /\ RowsFit'
      BY <1>1, <2>1, <2>5, <2>7, <2>8, Parts, RowsKept DEF IdentitiesInv, RowsFit
    <2>10. TxnsFit' /\ TransactionServesOnce'
      BY <1>1, <2>1, <2>5, <2>8, TxnsKept DEF TxnsStay
    <2>11. PrimariesFit'
      BY <1>1 DEF IdentitiesInv, PrimariesFit, Active
    <2>12. LinksFit'
      <3>1. req'[r] = c /\ \A q \in Requests \ {r} : req'[q] = req[q]
        BY <2>1, Parts DEF Turns
      <3>2. \A q \in Requests : Claiming(req[q]) =>
              req[q].link \in Links /\ req[q].link # l
        BY <2>3 DEF IdentitiesInv, LinksFit, RowsFit, CallFits, Claiming
      <3>3. linked[l] = {}
        BY <1>1, <2>3 DEF IdentitiesInv, LinksFit, l
      <3>4. \A q \in Requests : Claiming(req'[q]) =>
              \/ q = r /\ req'[q].link = l
              \/ q # r /\ Claiming(req[q]) /\ req'[q].link = req[q].link /\ req[q].link # l
        BY <2>2, <3>1, <3>2
      <3>5. \A q \in Requests : Claiming(req'[q]) =>
              link'[req'[q].link].status = "processing" /\ linked[req'[q].link] = {}
        BY <2>4, <2>6, <3>2, <3>3, <3>4 DEF IdentitiesInv, LinksFit
      <3>6. \A p, q \in Requests :
              Claiming(req'[p]) /\ Claiming(req'[q]) /\ req'[p].link = req'[q].link => p = q
        BY <3>4 DEF IdentitiesInv, LinksFit
      <3>7. \A k \in Links : /\ linked[k] = {} \/ \E s \in Subjects : linked[k] = {s}
                             /\ linked[k] # {} => link'[k].status = "completed"
        BY <2>6, <3>3 DEF IdentitiesInv, LinksFit
      <3> QED BY <1>1, <3>5, <3>6, <3>7 DEF IdentitiesInv, LinksFit, Claiming
    <2> QED BY <2>9, <2>10, <2>11, <2>12 DEF IdentitiesInv
  <1> QED BY <1>2, <1>3 DEF Claim

LEMMA PassingKeeps ==
    ASSUME IdentitiesInv, NEW r \in Requests,
           Exchange(r) \/ VerifyProvider(r) \/ CountOthers(r) \/ Dies(r)
    PROVE  IdentitiesInv'
  <1>1. UNCHANGED <<txn, ident, users, link, work, signed, linked>>
    BY DEF Exchange, VerifyProvider, CountOthers, Dies
  <1>2. CASE End(r)
    BY <1>1, <1>2, BareEnd
  <1>3. CASE req[r].pc = "exchange" /\ Go(r, "find")
    BY <1>1, <1>3, GoesQuietly, Parts
  <1>4. CASE req[r].pc = "verify" /\ Go(r, "look")
    BY <1>1, <1>4, GoesQuietly, Parts
  <1>5. CASE req[r].pc = "verify" /\ Go(r, "fail")
    BY <1>1, <1>5, GoesQuietly, Parts
  <1>6. CASE req[r].pc = "others" /\ Go(r, "unlink")
    BY <1>1, <1>6, GoesQuietly, Parts
  <1> QED BY <1>2, <1>3, <1>4, <1>5, <1>6 DEF Exchange, VerifyProvider, CountOthers, Dies

LEMMA LookKeeps == ASSUME IdentitiesInv, NEW r \in Requests, Look(r) PROVE IdentitiesInv'
  <1> DEFINE s == req[r].subject
             c == [req[r] EXCEPT !.pc = "attach", !.row = ident[s]]
  <1>1. /\ req[r].pc = "look" /\ UNCHANGED <<txn, ident, users, link, work, signed, linked>>
        /\ s \in Subjects /\ req[r].link \in Links /\ req[r].user \in users
    BY Parts DEF Look, CallFits
  <1>2. CASE Go(r, "fail")
    BY <1>1, <1>2, GoesQuietly, Parts
  <1>3. CASE req' = [req EXCEPT ![r].pc = "attach", ![r].row = ident[s]]
    <2>1. Turns(r, c)
      BY <1>3, Parts DEF Turns
    <2>2. ident[s] \in Identity
      BY <1>1, Parts
    <2>3. /\ c \in Call /\ c.pc = "attach" /\ c.subject = s /\ c.link = req[r].link
          /\ c.user = req[r].user /\ c.row = ident[s]
      BY <2>2, Parts DEF Call
    <2> HIDE DEF c, s
    <2>4. CallFits(c, users, ident) /\ ~ Exchanging(c) /\ Claiming(req[r])
      BY <1>1, <2>3 DEF CallFits, Exchanging, Claiming
    <2>5. Quiet(r, c)
      BY <1>1, <2>1, <2>3, <2>4, Parts DEF Quiet, TxnsStay, LinksStay
    <2> QED BY <2>5, QuietKeeps
  <1> QED BY <1>2, <1>3 DEF Look

\* The request that completes a link transaction is the one that claimed it.
LEMMA AttachKeeps == ASSUME IdentitiesInv, NEW r \in Requests, Attach(r) PROVE IdentitiesInv'
  <1> DEFINE s == req[r].subject
             l == req[r].link
             row == Attached(r)
             done == [link[l] EXCEPT !.status = "completed"]
  <1>1. /\ req[r].pc = "attach" /\ UNCHANGED <<txn, users, work, signed>>
        /\ s \in Subjects /\ l \in Links /\ req[r].user \in users
        /\ req[r].row # NoIdentity => ident[s] # NoIdentity
    BY Parts DEF Attach, CallFits
  <1>2. CASE Go(r, "fail") /\ UNCHANGED <<ident, link, linked>>
    BY <1>1, <1>2, GoesQuietly, Parts
  <1>3. CASE /\ row # NoIdentity /\ ident' = [ident EXCEPT ![s] = row] /\ End(r)
             /\ link' = [link EXCEPT ![l].status = IF @ = "processing" THEN "completed" ELSE @]
             /\ linked' = [linked EXCEPT ![l] = @ \cup {s}]
    <2>1. link[l].status = "processing" /\ linked[l] = {} /\ Claiming(req[r])
      BY <1>1 DEF IdentitiesInv, LinksFit, Claiming
    <2>2. link' = [link EXCEPT ![l] = done]
      BY <1>1, <1>3, <2>1, Parts
    <2>3. link[l] \in LinkRow /\ LinkFits(link[l], users) /\ ident[s] \in Identity
      BY <1>1, Parts
    <2>4. done \in LinkRow /\ done.status = "completed" /\ LinkFits(done, users)
      BY <2>1, <2>3 DEF LinkRow, LinkFits, NoLink
    <2>5. /\ row \in Identity /\ row.status = "active" /\ row.primary = ident[s].primary
          /\ row.owner \in users /\ (ident[s] # NoIdentity => row.owner = ident[s].owner)
      <3>1. CASE req[r].row = NoIdentity
        <4>1. row = [owner |-> req[r].user, status |-> "active", primary |-> FALSE] /\ ident[s] = NoIdentity
          BY <1>3, <3>1 DEF Attached
        <4> QED BY <1>1, <4>1, Parts DEF Identity, NoIdentity
      <3>2. CASE req[r].row # NoIdentity
        <4>1. row = [ident[s] EXCEPT !.status = "active"]
          BY <3>2 DEF Attached
        <4>2. ident[s].owner \in users
          BY <1>1, <3>2 DEF IdentitiesInv, RowsFit
        <4> QED BY <2>3, <4>1, <4>2 DEF Identity
      <3> QED BY <3>1, <3>2
    <2>6. Turns(r, NoReq)
      BY <1>3 DEF End, Turns
    <2> HIDE DEF s, l, row, done
    <2>7. /\ ident' \in [Subjects -> Identity] /\ ident'[s] = row
          /\ \A t \in Subjects \ {s} : ident'[t] = ident[t]
      BY <1>1, <1>3, <2>5, Parts
    <2>8. /\ link'[l] = done /\ \A k \in Links \ {l} : link'[k] = link[k]
          /\ link' \in [Links -> LinkRow] /\ \A k \in Links : LinkFits(link'[k], users)
      BY <1>1, <2>2, <2>4, Parts
    <2>9. Grows
      BY <1>1, <1>3, <2>5, <2>7 DEF Grows
    <2>10. \A t \in Subjects : ident'[t] # NoIdentity =>
             ident'[t].owner \in users' /\ ident'[t].status # "none"
      BY <1>1, <2>5, <2>7 DEF IdentitiesInv, RowsFit
    <2>11. TypesFit' /\ RowsFit'
      BY <1>1, <2>6, <2>7, <2>8, <2>9, <2>10, BlankFits, Parts, RowsKept
    <2>12. TxnsFit' /\ TransactionServesOnce'
      BY <1>1, <2>6, <2>9, BlankFits, TxnsKept DEF TxnsStay
    <2>13. \A t \in Subjects : ident[t].primary => ident[t] # NoIdentity
      BY DEF NoIdentity
    <2>14. PrimariesFit'
      BY <1>1, <2>5, <2>7, <2>13, PrimariesKept DEF IdentitiesInv, PrimariesFit, Active
    <2>15. LinksFit'
      <3>1. req'[r] = NoReq /\ \A q \in Requests \ {r} : req'[q] = req[q]
        BY <2>6, Parts DEF Turns
      <3>2. \A q \in Requests : Claiming(req'[q]) =>
              /\ q # r /\ Claiming(req[q]) /\ req'[q].link = req[q].link
              /\ req[q].link \in Links /\ req[q].link # l
        BY <2>1, <3>1, BlankFits DEF IdentitiesInv, LinksFit, RowsFit, CallFits, Claiming, l
      <3>3. linked \in [Links -> SUBSET Subjects]
        BY DEF IdentitiesInv, LinksFit
      <3>4. /\ linked'[l] = {s} /\ \A k \in Links \ {l} : linked'[k] = linked[k]
            /\ linked' \in [Links -> SUBSET Subjects]
        BY <1>1, <1>3, <2>1, <3>3
      <3>5. \A q \in Requests : Claiming(req'[q]) =>
              link'[req'[q].link].status = "processing" /\ linked'[req'[q].link] = {}
        BY <2>8, <3>2, <3>4 DEF IdentitiesInv, LinksFit
      <3>6. \A p, q \in Requests :
              Claiming(req'[p]) /\ Claiming(req'[q]) /\ req'[p].link = req'[q].link => p = q
        BY <3>2 DEF IdentitiesInv, LinksFit
      <3>7. \A k \in Links : /\ linked'[k] = {} \/ \E t \in Subjects : linked'[k] = {t}
                             /\ linked'[k] # {} => link'[k].status = "completed"
        BY <1>1, <2>4, <2>8, <3>4 DEF IdentitiesInv, LinksFit
      <3> QED BY <3>4, <3>5, <3>6, <3>7 DEF LinksFit, Claiming
    <2> QED BY <2>11, <2>12, <2>14, <2>15 DEF IdentitiesInv
  <1> QED BY <1>2, <1>3 DEF Attach

LEMMA FailKeeps == ASSUME IdentitiesInv, NEW r \in Requests, Fail(r) PROVE IdentitiesInv'
  <1> DEFINE l == req[r].link
             row == [link[l] EXCEPT !.status = "failed"]
  <1>1. /\ req[r].pc = "fail" /\ UNCHANGED <<txn, ident, users, work, signed, linked>>
        /\ l \in Links /\ End(r) /\ Claiming(req[r])
        /\ link' = [link EXCEPT ![l].status = IF @ = "processing" THEN "failed" ELSE @]
    BY Parts DEF Fail, CallFits, Claiming
  <1>2. link[l].status = "processing" /\ linked[l] = {}
    BY <1>1 DEF IdentitiesInv, LinksFit
  <1>3. link' = [link EXCEPT ![l] = row] /\ Turns(r, NoReq)
    BY <1>1, <1>2, Parts DEF End, Turns
  <1>4. link[l] \in LinkRow /\ LinkFits(link[l], users)
    BY <1>1, Parts
  <1>5. row \in LinkRow /\ row.status = "failed" /\ LinkFits(row, users)
    BY <1>2, <1>4 DEF LinkRow, LinkFits, NoLink
  <1> HIDE DEF l, row
  <1>6. /\ link'[l] = row /\ \A k \in Links \ {l} : link'[k] = link[k]
        /\ link' \in [Links -> LinkRow] /\ \A k \in Links : LinkFits(link'[k], users)
    BY <1>1, <1>3, <1>5, Parts
  <1>7. Grows
    BY <1>1 DEF Grows
  <1>8. TypesFit' /\ RowsFit'
    BY <1>1, <1>3, <1>6, <1>7, BlankFits, Parts, RowsKept DEF IdentitiesInv, RowsFit
  <1>9. TxnsFit' /\ TransactionServesOnce'
    BY <1>1, <1>3, <1>7, BlankFits, TxnsKept DEF TxnsStay
  <1>10. PrimariesFit'
    BY <1>1 DEF IdentitiesInv, PrimariesFit, Active
  <1>11. LinksFit'
    <2>1. req'[r] = NoReq /\ \A q \in Requests \ {r} : req'[q] = req[q]
      BY <1>3, Parts DEF Turns
    <2>2. \A q \in Requests : Claiming(req'[q]) =>
            /\ q # r /\ Claiming(req[q]) /\ req'[q].link = req[q].link
            /\ req[q].link \in Links /\ req[q].link # l
      BY <1>1, <2>1, BlankFits DEF IdentitiesInv, LinksFit, RowsFit, CallFits, Claiming, l
    <2>3. \A q \in Requests : Claiming(req'[q]) =>
            link'[req'[q].link].status = "processing" /\ linked'[req'[q].link] = {}
      BY <1>1, <1>6, <2>2 DEF IdentitiesInv, LinksFit
    <2>4. \A p, q \in Requests :
            Claiming(req'[p]) /\ Claiming(req'[q]) /\ req'[p].link = req'[q].link => p = q
      BY <2>2 DEF IdentitiesInv, LinksFit
    <2>5. \A k \in Links : /\ linked[k] = {} \/ \E t \in Subjects : linked[k] = {t}
                           /\ linked[k] # {} => link'[k].status = "completed"
      BY <1>2, <1>6 DEF IdentitiesInv, LinksFit
    <2> QED BY <1>1, <2>3, <2>4, <2>5 DEF IdentitiesInv, LinksFit, Claiming
  <1> QED BY <1>8, <1>9, <1>10, <1>11 DEF IdentitiesInv

\* A primary identity is never unlinked.
LEMMA UnlinkKeeps == ASSUME IdentitiesInv, NEW r \in Requests, Unlink(r) PROVE IdentitiesInv'
  <1> DEFINE s == req[r].subject
             row == [ident[s] EXCEPT !.status = "unlinked"]
  <1>1. /\ req[r].pc = "unlink" /\ UNCHANGED <<txn, users, link, work, signed, linked>>
        /\ s \in Subjects /\ End(r)
    BY Parts DEF Unlink, CallFits
  <1>2. CASE ident' = ident
    BY <1>1, <1>2, BareEnd
  <1>3. CASE Unlinkable(s) /\ ident' = [ident EXCEPT ![s].status = "unlinked"]
    <2>1. /\ ident[s] \in Identity /\ ident[s] # NoIdentity /\ ~ ident[s].primary
          /\ ident' = [ident EXCEPT ![s] = row] /\ Turns(r, NoReq)
      BY <1>1, <1>3, Parts DEF Unlinkable, Active, NoIdentity, End, Turns
    <2>2. /\ row \in Identity /\ row.owner = ident[s].owner /\ row.primary = ident[s].primary
          /\ row.status = "unlinked" /\ row # NoIdentity
      BY <2>1 DEF Identity, NoIdentity
    <2> HIDE DEF s, row
    <2>3. /\ ident' \in [Subjects -> Identity] /\ ident'[s] = row
          /\ \A t \in Subjects \ {s} : ident'[t] = ident[t]
      BY <1>1, <2>1, <2>2, Parts
    <2>4. Grows
      BY <1>1, <2>2, <2>3 DEF Grows
    <2>5. \A t \in Subjects : ident'[t] # NoIdentity =>
             ident'[t].owner \in users' /\ ident'[t].status # "none"
      BY <1>1, <2>1, <2>2, <2>3 DEF IdentitiesInv, RowsFit
    <2>6. TypesFit' /\ RowsFit'
      BY <1>1, <2>1, <2>3, <2>4, <2>5, BlankFits, Parts, RowsKept
    <2>7. TxnsFit' /\ TransactionServesOnce' /\ LinksFit'
      BY <1>1, <2>1, <2>4, BlankFits, TxnsKept, LinksKept DEF TxnsStay, LinksStay
    <2>8. PrimariesFit'
      BY <1>1, <2>1, <2>2, <2>3, PrimariesKept DEF IdentitiesInv, PrimariesFit, Active
    <2> QED BY <2>6, <2>7, <2>8 DEF IdentitiesInv
  <1> QED BY <1>2, <1>3 DEF Unlink

-----------------------------------------------------------------------------
(* The invariant *)

LEMMA IdentitiesInvInit == Init => IdentitiesInv
  <1> SUFFICES ASSUME Init PROVE IdentitiesInv
    OBVIOUS
  <1>1. TypesFit
    BY BlankFits DEF Init, TypesFit
  <1>2. RowsFit
    BY BlankFits DEF Init, RowsFit
  <1>3. TxnsFit /\ TransactionServesOnce
    BY BlankFits DEF Init, TxnsFit, TransactionServesOnce
  <1>4. PrimariesFit
    BY DEF Init, PrimariesFit, NoIdentity
  <1>5. LinksFit
    BY BlankFits DEF Init, LinksFit
  <1> QED BY <1>1, <1>2, <1>3, <1>4, <1>5 DEF IdentitiesInv

LEMMA IdentitiesInvNext == IdentitiesInv /\ [Next]_idVars => IdentitiesInv'
  <1> SUFFICES ASSUME IdentitiesInv, [Next]_idVars PROVE IdentitiesInv'
    OBVIOUS
  <1>1. ASSUME NEW r \in Requests, SignInStep(r) PROVE IdentitiesInv'
    BY <1>1, BeginningsKeep, ConsumeKeeps, PassingKeeps, FindKeeps, RegisterKeeps DEF SignInStep
  <1>2. ASSUME NEW r \in Requests, LinkStep(r) PROVE IdentitiesInv'
    BY <1>2, BeginningsKeep, LinkRowsKeep, ClaimKeeps, PassingKeeps, LookKeeps, AttachKeeps,
       FailKeeps, UnlinkKeeps DEF LinkStep
  <1>3. ASSUME NEW r \in Requests, Dies(r) PROVE IdentitiesInv'
    BY <1>3, PassingKeeps
  <1>4. CASE UNCHANGED idVars
    BY <1>4 DEF idVars, IdentitiesInv, TypesFit, RowsFit, TxnsFit, Spent, TransactionServesOnce,
       PrimariesFit, Active, LinksFit
  <1> QED BY <1>1, <1>2, <1>3, <1>4, StartKeeps, TimePassesKeeps DEF Next

\* A step of sign-in, linking or unlinking leaves every identity with its account.
LEMMA StepsKeepAccounts ==
    ASSUME IdentitiesInv, [Next]_idVars PROVE IdentityKeepsItsAccount
  <1>1. ASSUME NEW r \in Requests, NEW u \in Users, Register(r, u) PROVE IdentityKeepsItsAccount
    BY <1>1, Parts DEF Register, CallFits, IdentityKeepsItsAccount
  <1>2. ASSUME NEW r \in Requests, Attach(r) PROVE IdentityKeepsItsAccount
    <2>1. req[r].subject \in Subjects
      BY <1>2, Parts DEF Attach, CallFits
    <2>2. CASE ident' = ident
      BY <2>2 DEF IdentityKeepsItsAccount
    <2>3. CASE ident' = [ident EXCEPT ![req[r].subject] = Attached(r)] /\ Attached(r) # NoIdentity
      <3>1. ident[req[r].subject] # NoIdentity => Attached(r).owner = ident[req[r].subject].owner
        <4>1. ident[req[r].subject] \in Identity
          BY <2>1, Parts
        <4> QED BY <2>3, <4>1 DEF Attached, Identity
      <3> QED BY <2>1, <2>3, <3>1, Parts DEF IdentityKeepsItsAccount
    <2> QED BY <1>2, <2>2, <2>3 DEF Attach
  <1>3. ASSUME NEW r \in Requests, Unlink(r) PROVE IdentityKeepsItsAccount
    <2>1. req[r].subject \in Subjects /\ ident[req[r].subject] \in Identity
      BY <1>3, Parts DEF Unlink, CallFits
    <2> QED BY <1>3, <2>1, Parts DEF Unlink, IdentityKeepsItsAccount, Identity
  <1>4. CASE ident' = ident
    BY <1>4 DEF IdentityKeepsItsAccount
  <1>5. ASSUME NEW r \in Requests, SignInStep(r),
               ~ \E u \in Users : Register(r, u)
        PROVE  ident' = ident
    BY <1>5 DEF SignInStep, BeginCallback, Consume, Exchange, Find
  <1>6. ASSUME NEW r \in Requests, LinkStep(r), ~ Attach(r), ~ Unlink(r) PROVE ident' = ident
    BY <1>6 DEF LinkStep, BeginLink, CountPending, InsertLink, BeginCancel, Cancel, BeginCompletion,
       Open, Claim, VerifyProvider, Look, Fail, BeginUnlink, CountOthers
  <1>7. CASE UNCHANGED idVars \/ TimePasses \/ \E t \in Txns : Start(t)
    BY <1>4, <1>7 DEF idVars, TimePasses, Start
  <1>8. ASSUME NEW r \in Requests, SignInStep(r) \/ LinkStep(r) \/ Dies(r)
        PROVE  IdentityKeepsItsAccount
    BY <1>1, <1>2, <1>3, <1>4, <1>5, <1>6, <1>8 DEF Dies
  <1> QED BY <1>7, <1>8 DEF Next

-----------------------------------------------------------------------------
(* What the invariant says *)

LEMMA InvariantTypes == ASSUME IdentitiesInv PROVE IdentitiesTypeOK
  <1>1. \A s \in Subjects : ident[s].owner \in users \cup {Nobody}
    BY DEF IdentitiesInv, RowsFit, NoIdentity
  <1>2. \A l \in Links : link[l].owner \in users \cup {Nobody}
    BY DEF IdentitiesInv, RowsFit, NoLink
  <1> QED BY <1>1, <1>2, AllParts DEF IdentitiesTypeOK, IdentitiesInv, TypesFit

LEMMA InvariantAccounts == ASSUME IdentitiesInv PROVE EveryAccountCanSignIn
  <1> SUFFICES ASSUME NEW u \in users
               PROVE  Cardinality({s \in ActiveOf(u) : ident[s].primary}) = 1
    BY DEF EveryAccountCanSignIn
  <1>1. PICK t \in Subjects : ident[t].primary /\ ident[t].owner = u
    BY DEF IdentitiesInv, PrimariesFit
  <1>2. {s \in ActiveOf(u) : ident[s].primary} = {t}
    BY <1>1 DEF IdentitiesInv, PrimariesFit, ActiveOf
  <1> QED BY <1>2, FS_Singleton

LEMMA InvariantLinks == ASSUME IdentitiesInv PROVE LinksAreHonest
  <1> SUFFICES ASSUME NEW l \in Links PROVE Cardinality(linked[l]) <= 1
    BY DEF LinksAreHonest, IdentitiesInv, LinksFit
  <1>1. linked[l] = {} \/ \E s \in Subjects : linked[l] = {s}
    BY DEF IdentitiesInv, LinksFit
  <1>2. CASE linked[l] = {}
    <2>1. Cardinality(linked[l]) = 0
      BY <1>2, FS_EmptySet
    <2> QED BY <2>1
  <1>3. CASE \E s \in Subjects : linked[l] = {s}
    <2>1. Cardinality(linked[l]) = 1
      BY <1>3, FS_Singleton
    <2> QED BY <2>1
  <1> QED BY <1>1, <1>2, <1>3

\* Whichever registrations, links, unlinks and callbacks overlap or die: variables keep their
\* types, a transaction signs in once and into the account that owns the identity, every
\* account has one active primary identity, and a link transaction attaches at most one
\* identity and is then completed (worker.ts:2213, 4752, 4871, 4982).
THEOREM SignInAndLinkingAreSound ==
    Spec => [](IdentitiesTypeOK /\ TransactionServesOnce /\ EveryAccountCanSignIn /\ LinksAreHonest)
  <1>1. IdentitiesInv =>
          IdentitiesTypeOK /\ TransactionServesOnce /\ EveryAccountCanSignIn /\ LinksAreHonest
    BY InvariantTypes, InvariantAccounts, InvariantLinks DEF IdentitiesInv
  <1> QED BY <1>1, IdentitiesInvInit, IdentitiesInvNext, PTL DEF Spec

\* An identity that once belongs to an account is never given to another (worker.ts:4825).
THEOREM IdentitiesKeepTheirAccounts == Spec => [][IdentityKeepsItsAccount]_idVars
  <1>1. IdentitiesInv /\ [Next]_idVars => [IdentityKeepsItsAccount]_idVars
    BY StepsKeepAccounts
  <1> QED BY <1>1, IdentitiesInvInit, IdentitiesInvNext, PTL DEF Spec


-----------------------------------------------------------------------------
(* The limiter: the inductive invariant *)

Stamps == 0..MaxNow

AttemptRow ==
    [step : {"new", "client lock", "installation lock", "count client", "count installation",
             "record", "over"},
     client : Locks, at : Stamps, ofClient : Nat, ofAll : Nat]

\* What an attempt has to count: the admitted attempts of its client, and all of them.
ClientRows(me) == {r \in admitted : r.client = me.client /\ InWindow(r, me.at)}
AllRows(me) == {r \in admitted : InWindow(r, me.at)}

LimiterTypes ==
    /\ now \in Stamps
    /\ lock \in [Locks -> Attempts \cup {Unlocked}]
    /\ attempt \in [Attempts -> AttemptRow]
    /\ \A r \in admitted : r.at \in Stamps
    /\ \A d \in denials : d.at \in Stamps
    /\ IsFiniteSet(admitted)

\* An attempt holds the locks it has passed and no lock before it has begun or when it is
\* over; what it has counted is still so.
AttemptFits(a) ==
    LET me == attempt[a] IN
    /\ me.step \in {"installation lock", "count client", "count installation", "record"} =>
          lock[me.client] = a
    /\ me.step \in {"count client", "count installation", "record"} => lock[Installation] = a
    /\ me.step \in {"count installation", "record"} => me.ofClient = Cardinality(ClientRows(me))
    /\ me.step = "record" => me.ofAll = Cardinality(AllRows(me))
    /\ me.step = "over" => \A l \in Locks : lock[l] # a

LimiterInv ==
    LimiterTypes /\ (\A a \in Attempts : AttemptFits(a)) /\ LimitHolds

-----------------------------------------------------------------------------
(* Counting *)

\* One admitted attempt more, which had less than `limit' in the window that begins Span
\* before it: no interval of Span that it is in holds more than `limit'.
LEMMA OneMoreFits ==
    ASSUME LimiterConstants, NEW limit \in Nat, NEW rows, IsFiniteSet(rows),
           NEW counted, counted \subseteq rows, NEW new, NEW t \in Stamps, new.at \in Stamps,
           \A r \in rows : r.at \in Stamps,
           \A r \in rows : r.at >= new.at - Span => r \in counted,
           Cardinality(counted) < limit,
           Cardinality({r \in rows : r.at \in t..(t + Span)}) <= limit
    PROVE  Cardinality({r \in rows \cup {new} : r.at \in t..(t + Span)}) <= limit
  <1> DEFINE within == {r \in rows : r.at \in t..(t + Span)}
             after == {r \in rows \cup {new} : r.at \in t..(t + Span)}
  <1>1. CASE new.at \in t..(t + Span)
    <2>1. within \subseteq counted
      BY <1>1 DEF LimiterConstants, Stamps
    <2>2. IsFiniteSet(counted) /\ IsFiniteSet(within)
      <3>1. IsFiniteSet(counted)
        BY FS_Subset
      <3>2. within \subseteq rows
        OBVIOUS
      <3> QED BY <3>1, <3>2, FS_Subset
    <2>3. after = within \cup {new}
      BY <1>1
    <2> HIDE DEF within, after
    <2>4. Cardinality(within) <= Cardinality(counted)
      BY <2>1, <2>2, FS_Subset
    <2>5. Cardinality(within) \in Nat /\ Cardinality(counted) \in Nat
      BY <2>2, FS_CardinalityType
    <2>6. Cardinality(after) <= Cardinality(within) + 1
      <3>1. CASE new \in within
        <4>1. after = within
          BY <2>3, <3>1
        <4> QED BY <2>5, <4>1
      <3>2. CASE new \notin within
        <4>1. Cardinality(after) = Cardinality(within) + 1
          BY <2>2, <2>3, <3>2, FS_AddElement
        <4> QED BY <2>5, <4>1
      <3> QED BY <3>1, <3>2
    <2>7. Cardinality(after) \in Nat
      BY <2>2, <2>3, FS_AddElement, FS_CardinalityType
    <2>8. Cardinality(after) <= limit
      BY <2>4, <2>5, <2>6, <2>7
    <2> QED BY <2>8 DEF after
  <1>2. CASE new.at \notin t..(t + Span)
    <2>1. after = within
      BY <1>2
    <2> QED BY <2>1
  <1> QED BY <1>1, <1>2

-----------------------------------------------------------------------------
(* The limiter: its steps *)

\* An attempt whose own row, locks and counted rows stay fits on.
LEMMA AttemptStays ==
    ASSUME NEW a \in Attempts, AttemptFits(a), attempt'[a] = attempt[a],
           \A l \in Locks : lock'[l] = a <=> lock[l] = a,
           Installation \in Locks, attempt[a].client \in Locks,
           lock[Installation] = a => admitted' = admitted
    PROVE  AttemptFits(a)'
  BY DEF AttemptFits, ClientRows, AllRows, InWindow

\* A step of attempt a that admits nobody.
LEMMA StepKeeps ==
    ASSUME LimiterInv, NEW a \in Attempts, NEW row \in AttemptRow,
           attempt' = [attempt EXCEPT ![a] = row],
           lock' \in [Locks -> Attempts \cup {Unlocked}],
           \A b \in Attempts \ {a} : \A l \in Locks : lock'[l] = b <=> lock[l] = b,
           UNCHANGED <<now, admitted, denials>>, AttemptFits(a)'
    PROVE  LimiterInv'
  <1>1. LimiterTypes'
    BY DEF LimiterInv, LimiterTypes
  <1>2. ASSUME NEW b \in Attempts \ {a} PROVE AttemptFits(b)'
    <2>1. attempt'[b] = attempt[b] /\ attempt[b].client \in Locks
      BY DEF LimiterInv, LimiterTypes, AttemptRow
    <2> QED BY <2>1, AttemptStays DEF LimiterInv, Locks
  <1>3. LimitHolds'
    BY DEF LimiterInv, LimitHolds
  <1> QED BY <1>1, <1>2, <1>3 DEF LimiterInv

LEMMA AttemptParts ==
    ASSUME LimiterInv, NEW a \in Attempts
    PROVE  /\ attempt \in [Attempts -> AttemptRow] /\ attempt[a] \in AttemptRow
           /\ lock \in [Locks -> Attempts \cup {Unlocked}] /\ now \in Stamps
           /\ Installation \in Locks /\ attempt[a].client \in Locks /\ AttemptFits(a)
  BY DEF LimiterInv, LimiterTypes, AttemptRow, Locks

LEMMA FreshFits ==
    ASSUME LimiterConstants
    PROVE  /\ Fresh \in AttemptRow /\ Fresh.step = "new"
           /\ [Fresh EXCEPT !.step = "over"] \in AttemptRow
           /\ [Fresh EXCEPT !.step = "over"].step = "over"
  <1>1. 0 \in Stamps /\ Installation \in Locks
    BY DEF Stamps, Locks, LimiterConstants
  <1>2. Fresh \in AttemptRow /\ Fresh.step = "new"
    BY <1>1 DEF Fresh, AttemptRow
  <1> QED BY <1>2 DEF AttemptRow

LEMMA BeginKeeps ==
    ASSUME LimiterInv, NEW a \in Attempts, Begin(a) PROVE LimiterInv'
  <1>1. PICK c \in Clients :
          attempt' = [attempt EXCEPT ![a] =
             [Fresh EXCEPT !.step = "client lock", !.client = c, !.at = now]]
    BY DEF Begin
  <1> DEFINE row == [Fresh EXCEPT !.step = "client lock", !.client = c, !.at = now]
  <1>2. row \in AttemptRow /\ row.step = "client lock"
    BY AttemptParts DEF Fresh, AttemptRow, Locks
  <1>3. attempt' = [attempt EXCEPT ![a] = row] /\ UNCHANGED <<now, lock, admitted, denials>>
    BY <1>1 DEF Begin
  <1> HIDE DEF row
  <1>4. attempt'[a] = row
    BY <1>3, AttemptParts
  <1>5. AttemptFits(a)'
    BY <1>2, <1>4 DEF AttemptFits
  <1> QED BY <1>2, <1>3, <1>5, AttemptParts, StepKeeps

\* An attempt that takes a lock takes it from nobody.
LEMMA LockKeeps ==
    ASSUME LimiterConstants, LimiterInv, NEW a \in Attempts, lockSubjects(a) PROVE LimiterInv'
  <1>1. UNCHANGED <<now, admitted, denials>>
    BY DEF lockSubjects
  <1>2. ASSUME NEW l \in Locks, NEW step, lock[l] = Unlocked, lock' = [lock EXCEPT ![l] = a],
               Goes(a, step),
               \/ attempt[a].step = "client lock" /\ l = attempt[a].client
                  /\ step = "installation lock"
               \/ attempt[a].step = "installation lock" /\ l = Installation
                  /\ step = "count client"
        PROVE  LimiterInv'
    <2> DEFINE row == [attempt[a] EXCEPT !.step = step]
    <2>1. /\ row \in AttemptRow /\ row.step = step /\ row.client = attempt[a].client
      BY <1>2, AttemptParts DEF AttemptRow
    <2>2. attempt' = [attempt EXCEPT ![a] = row]
      BY <1>2 DEF Goes
    <2> HIDE DEF row
    <2>3. /\ attempt'[a] = row /\ lock' \in [Locks -> Attempts \cup {Unlocked}]
          /\ lock'[l] = a /\ \A k \in Locks \ {l} : lock'[k] = lock[k]
      BY <1>2, <2>2, AttemptParts
    <2>4. \A b \in Attempts \ {a} : \A k \in Locks : lock'[k] = b <=> lock[k] = b
      BY <1>2, <2>3 DEF LimiterConstants
    <2>5. AttemptFits(a)'
      <3>1. row.client \in Locks
        BY <2>1, AttemptParts
      <3>2. attempt[a].step = "installation lock" => lock[row.client] = a
        BY <2>1, AttemptParts DEF AttemptFits
      <3>3. lock'[row.client] = a
        BY <1>2, <2>1, <2>3, <3>1, <3>2
      <3> QED BY <1>2, <2>1, <2>3, <3>3 DEF AttemptFits
    <2> QED BY <1>1, <2>1, <2>2, <2>3, <2>4, <2>5, StepKeeps
  <1> QED BY <1>2, AttemptParts DEF lockSubjects

LEMMA CountKeeps ==
    ASSUME LimiterInv, NEW a \in Attempts, countAcceptedAttempts(a) PROVE LimiterInv'
  <1>1. UNCHANGED <<now, lock, admitted, denials>>
    BY DEF countAcceptedAttempts
  <1>2. IsFiniteSet(ClientRows(attempt[a])) /\ IsFiniteSet(AllRows(attempt[a]))
    <2>1. ClientRows(attempt[a]) \subseteq admitted /\ AllRows(attempt[a]) \subseteq admitted
      BY DEF ClientRows, AllRows
    <2> QED BY <2>1, FS_Subset DEF LimiterInv, LimiterTypes
  <1>3. Cardinality(ClientRows(attempt[a])) \in Nat /\ Cardinality(AllRows(attempt[a])) \in Nat
    BY <1>2, FS_CardinalityType
  <1>4. CASE attempt[a].step = "count client"
    <2> DEFINE n == Cardinality(ClientRows(attempt[a]))
               row == [attempt[a] EXCEPT !.step = "count installation", !.ofClient = n]
    <2>1. /\ row \in AttemptRow /\ row.step = "count installation" /\ row.ofClient = n
          /\ row.client = attempt[a].client /\ row.at = attempt[a].at
      BY <1>3, AttemptParts DEF AttemptRow
    <2>2. attempt' = [attempt EXCEPT ![a] = row]
      BY <1>4, AttemptParts DEF countAcceptedAttempts, ClientRows
    <2> HIDE DEF row
    <2>3. attempt'[a] = row
      BY <2>2, AttemptParts
    <2>4. AttemptFits(a)'
      <3>1. /\ lock[attempt[a].client] = a /\ lock[Installation] = a
        BY <1>4, AttemptParts DEF AttemptFits
      <3>2. {r \in admitted' : r.client = row.client /\ InWindow(r, row.at)} = ClientRows(attempt[a])
        BY <1>1, <2>1 DEF ClientRows
      <3> QED BY <1>1, <2>1, <2>3, <3>1, <3>2 DEF AttemptFits, ClientRows, InWindow
    <2> QED BY <1>1, <2>1, <2>2, <2>4, AttemptParts, StepKeeps
  <1>5. CASE attempt[a].step = "count installation"
    <2> DEFINE n == Cardinality(AllRows(attempt[a]))
               row == [attempt[a] EXCEPT !.step = "record", !.ofAll = n]
    <2>1. /\ row \in AttemptRow /\ row.step = "record" /\ row.ofAll = n
          /\ row.client = attempt[a].client /\ row.at = attempt[a].at
          /\ row.ofClient = attempt[a].ofClient
      BY <1>3, AttemptParts DEF AttemptRow
    <2>2. attempt' = [attempt EXCEPT ![a] = row]
      BY <1>5, AttemptParts DEF countAcceptedAttempts, AllRows
    <2> HIDE DEF row
    <2>3. attempt'[a] = row
      BY <2>2, AttemptParts
    <2>4. AttemptFits(a)'
      <3>1. /\ lock[attempt[a].client] = a /\ lock[Installation] = a
            /\ attempt[a].ofClient = Cardinality(ClientRows(attempt[a]))
        BY <1>5, AttemptParts DEF AttemptFits
      <3>2. /\ {r \in admitted' : r.client = row.client /\ InWindow(r, row.at)}
                 = ClientRows(attempt[a])
            /\ {r \in admitted' : InWindow(r, row.at)} = AllRows(attempt[a])
        BY <1>1, <2>1 DEF ClientRows, AllRows
      <3> QED BY <1>1, <2>1, <2>3, <3>1, <3>2 DEF AttemptFits, ClientRows, AllRows, InWindow
    <2> QED BY <1>1, <2>1, <2>2, <2>4, AttemptParts, StepKeeps
  <1> QED BY <1>4, <1>5 DEF countAcceptedAttempts

\* An attempt that is over has given its locks back, and no other.
LEMMA OverFits ==
    ASSUME LimiterConstants, LimiterInv, NEW a \in Attempts,
           attempt' = [attempt EXCEPT ![a] = [Fresh EXCEPT !.step = "over"]], lock' = Released(a)
    PROVE  /\ attempt' \in [Attempts -> AttemptRow]
           /\ \A b \in Attempts \ {a} : attempt'[b] = attempt[b]
           /\ lock' \in [Locks -> Attempts \cup {Unlocked}]
           /\ \A b \in Attempts \ {a} : \A l \in Locks : lock'[l] = b <=> lock[l] = b
           /\ AttemptFits(a)'
  <1> DEFINE row == [Fresh EXCEPT !.step = "over"]
  <1>1. row \in AttemptRow /\ row.step = "over"
    BY FreshFits
  <1> HIDE DEF row
  <1>2. /\ attempt' \in [Attempts -> AttemptRow] /\ attempt'[a] = row
        /\ \A b \in Attempts \ {a} : attempt'[b] = attempt[b]
    BY <1>1, AttemptParts DEF row
  <1>3. /\ lock' \in [Locks -> Attempts \cup {Unlocked}]
        /\ \A l \in Locks : lock'[l] = IF lock[l] = a THEN Unlocked ELSE lock[l]
    BY AttemptParts DEF Released
  <1>4. \A b \in Attempts \ {a} : \A l \in Locks : lock'[l] = b <=> lock[l] = b
    BY <1>3 DEF LimiterConstants
  <1>5. \A l \in Locks : lock'[l] # a
    BY <1>3 DEF LimiterConstants
  <1>6. AttemptFits(a)'
    BY <1>1, <1>2, <1>5 DEF AttemptFits
  <1> QED BY <1>2, <1>3, <1>4, <1>6

LEMMA LoseKeeps ==
    ASSUME LimiterConstants, LimiterInv, NEW a \in Attempts, Lose(a) PROVE LimiterInv'
  BY FreshFits, OverFits, StepKeeps DEF Lose

\* Whoever commits holds the lock of the installation, so no other attempt has counted.
LEMMA CommitKeeps ==
    ASSUME LimiterConstants, LimiterInv, NEW a \in Attempts, Commit(a) PROVE LimiterInv'
  <1> DEFINE me == attempt[a]
             new == [who |-> a, client |-> me.client, at |-> me.at]
  <1>1. /\ me.step = "record" /\ now' = now /\ me.at \in Stamps /\ lock[Installation] = a
        /\ me.ofClient = Cardinality(ClientRows(me)) /\ me.ofAll = Cardinality(AllRows(me))
    BY AttemptParts DEF Commit, AttemptFits, AttemptRow
  <1>2. /\ attempt' \in [Attempts -> AttemptRow]
        /\ \A b \in Attempts \ {a} : attempt'[b] = attempt[b]
        /\ lock' \in [Locks -> Attempts \cup {Unlocked}]
        /\ \A b \in Attempts \ {a} : \A l \in Locks : lock'[l] = b <=> lock[l] = b
        /\ AttemptFits(a)'
    BY OverFits DEF Commit
  <1>3. ASSUME NEW b \in Attempts \ {a} PROVE AttemptFits(b)'
    BY <1>1, <1>2, AttemptParts, AttemptStays
  <1>4. IsFiniteSet(admitted) /\ (\A r \in admitted : r.at \in Stamps)
        /\ (\A d \in denials : d.at \in Stamps)
    BY DEF LimiterInv, LimiterTypes
  <1>5. CASE Allowed(a) /\ admitted' = admitted \cup {new} /\ denials' = denials
    <2>1. Cardinality(ClientRows(me)) < PerClient /\ Cardinality(AllRows(me)) < PerInstallation
      BY <1>1, <1>5 DEF Allowed
    <2>2. new.at = me.at /\ new.client = me.client
      OBVIOUS
    <2> HIDE DEF new, me
    <2>3. LimiterTypes'
      BY <1>1, <1>2, <1>4, <1>5, <2>2, FS_AddElement DEF LimiterTypes, LimiterInv
    <2>4. ASSUME NEW t \in Stamps
          PROVE  Cardinality({r \in admitted' : r.at \in t..(t + Span)}) <= PerInstallation
      <3>1. Cardinality({r \in admitted : r.at \in t..(t + Span)}) <= PerInstallation
        BY DEF LimiterInv, LimitHolds, Stamps
      <3>2. \A r \in admitted : r.at >= new.at - Span => r \in AllRows(me)
        BY <2>2 DEF AllRows, InWindow
      <3>3. AllRows(me) \subseteq admitted
        BY DEF AllRows
      <3>4. PerInstallation \in Nat /\ new.at \in Stamps
        BY <1>1, <2>2 DEF LimiterConstants
      <3>5. Cardinality({r \in admitted \cup {new} : r.at \in t..(t + Span)}) <= PerInstallation
        BY <1>4, <2>1, <3>1, <3>2, <3>3, <3>4, OneMoreFits
      <3> QED BY <1>5, <3>5
    <2>5. ASSUME NEW t \in Stamps, NEW c \in Clients
          PROVE  Cardinality({r \in {q \in admitted' : q.at \in t..(t + Span)} : r.client = c})
                    <= PerClient
      <3> DEFINE mine == {r \in admitted : r.client = c}
      <3>1. Cardinality({r \in mine : r.at \in t..(t + Span)}) <= PerClient
        <4>1. {r \in mine : r.at \in t..(t + Span)}
                = {r \in {q \in admitted : q.at \in t..(t + Span)} : r.client = c}
          OBVIOUS
        <4> QED BY <4>1 DEF LimiterInv, LimitHolds, Stamps
      <3>2. CASE c = me.client
        <4>1. \A r \in mine : r.at >= new.at - Span => r \in ClientRows(me)
          BY <2>2, <3>2 DEF ClientRows, InWindow
        <4>2. ClientRows(me) \subseteq mine
          BY <3>2 DEF ClientRows
        <4>3. IsFiniteSet(mine) /\ \A r \in mine : r.at \in Stamps
          <5>1. mine \subseteq admitted
            OBVIOUS
          <5> QED BY <1>4, <5>1, FS_Subset
        <4>4. PerClient \in Nat /\ new.at \in Stamps
          BY <1>1, <2>2 DEF LimiterConstants
        <4>5. {r \in {q \in admitted' : q.at \in t..(t + Span)} : r.client = c}
                = {r \in mine \cup {new} : r.at \in t..(t + Span)}
          BY <1>5, <2>2, <3>2
        <4> HIDE DEF mine
        <4>6. Cardinality({r \in mine \cup {new} : r.at \in t..(t + Span)}) <= PerClient
          BY <2>1, <3>1, <4>1, <4>2, <4>3, <4>4, OneMoreFits
        <4> QED BY <4>5, <4>6
      <3>3. CASE c # me.client
        <4>1. {r \in {q \in admitted' : q.at \in t..(t + Span)} : r.client = c}
                = {r \in mine : r.at \in t..(t + Span)}
          BY <1>5, <2>2, <3>3
        <4> QED BY <3>1, <4>1
      <3> QED BY <3>2, <3>3
    <2>6. LimitHolds'
      <3>1. \A d, e \in denials' : d # e => d.at - e.at > Span \/ e.at - d.at > Span
        BY <1>5 DEF LimiterInv, LimitHolds
      <3> QED BY <2>4, <2>5, <3>1 DEF LimitHolds, Stamps
    <2> QED BY <1>2, <1>3, <2>3, <2>6 DEF LimiterInv
  <1>6. CASE /\ admitted' = admitted
             /\ denials' = IF \E d \in denials : InWindow(d, me.at) THEN denials
                           ELSE denials \cup {[who |-> a, at |-> me.at]}
    <2> HIDE DEF me
    <2>1. LimiterTypes'
      BY <1>1, <1>2, <1>4, <1>6 DEF LimiterTypes, LimiterInv
    <2>2. \A d, e \in denials' : d # e => d.at - e.at > Span \/ e.at - d.at > Span
      <3>1. CASE denials' = denials
        BY <3>1 DEF LimiterInv, LimitHolds
      <3>2. CASE /\ \A d \in denials : ~ InWindow(d, me.at)
                 /\ denials' = denials \cup {[who |-> a, at |-> me.at]}
        <4>1. \A d \in denials : me.at - d.at > Span
          BY <1>1, <1>4, <3>2 DEF InWindow, Stamps, LimiterConstants
        <4> QED BY <3>2, <4>1 DEF LimiterInv, LimitHolds
      <3> QED BY <1>6, <3>1, <3>2
    <2>3. LimitHolds'
      BY <1>6, <2>2 DEF LimiterInv, LimitHolds
    <2> QED BY <1>2, <1>3, <2>1, <2>3 DEF LimiterInv
  <1> QED BY <1>5, <1>6 DEF Commit

LEMMA PassKeeps == ASSUME LimiterConstants, LimiterInv, Pass PROVE LimiterInv'
  <1>1. LimiterTypes'
    BY DEF Pass, LimiterInv, LimiterTypes, Stamps, LimiterConstants
  <1>2. UNCHANGED <<lock, attempt, admitted, denials>>
    BY DEF Pass
  <1>3. ASSUME NEW a \in Attempts PROVE AttemptFits(a)'
    BY <1>2, AttemptParts, AttemptStays
  <1>4. LimitHolds'
    BY <1>2 DEF LimiterInv, LimitHolds
  <1> QED BY <1>1, <1>3, <1>4 DEF LimiterInv

LEMMA LimiterInvInit == LimiterConstants /\ LimiterInit => LimiterInv
  <1> SUFFICES ASSUME LimiterConstants, LimiterInit PROVE LimiterInv
    OBVIOUS
  <1>1. Fresh \in AttemptRow /\ Fresh.step = "new"
    BY FreshFits
  <1>2. LimiterTypes
    BY <1>1, FS_EmptySet DEF LimiterInit, LimiterTypes, Stamps, LimiterConstants
  <1>3. \A a \in Attempts : AttemptFits(a)
    BY <1>1 DEF LimiterInit, AttemptFits
  <1>4. LimitHolds
    <2>1. ASSUME NEW t PROVE {r \in admitted : r.at \in t..(t + Span)} = {}
      BY DEF LimiterInit
    <2>2. ASSUME NEW t, NEW c
          PROVE  {r \in {q \in admitted : q.at \in t..(t + Span)} : r.client = c} = {}
      BY DEF LimiterInit
    <2>3. Cardinality({}) = 0
      BY FS_EmptySet
    <2> QED BY <2>1, <2>2, <2>3 DEF LimiterInit, LimitHolds, LimiterConstants
  <1> QED BY <1>2, <1>3, <1>4 DEF LimiterInv

LEMMA LimiterInvNext == LimiterConstants /\ LimiterInv /\ [LimiterNext]_limiterVars => LimiterInv'
  <1> SUFFICES ASSUME LimiterConstants, LimiterInv, [LimiterNext]_limiterVars PROVE LimiterInv'
    OBVIOUS
  <1>1. CASE UNCHANGED limiterVars
    <2>1. UNCHANGED <<now, lock, attempt, admitted, denials>>
      BY <1>1 DEF limiterVars
    <2>2. ASSUME NEW a \in Attempts PROVE AttemptFits(a)'
      BY <2>1, AttemptParts, AttemptStays
    <2> QED BY <2>1, <2>2 DEF LimiterInv, LimiterTypes, LimitHolds
  <1> QED BY <1>1, BeginKeeps, LockKeeps, CountKeeps, CommitKeeps, LoseKeeps, PassKeeps
          DEF LimiterNext

LEMMA LimiterPromises == LimiterInv => LimiterTypeOK /\ LimitHolds
  BY DEF LimiterInv, LimiterTypes, LimiterTypeOK, AttemptFits, Stamps

\* Whatever attempts overlap, wait for one another or lose their connection, and in whatever
\* order their stamps and commits fall: no interval of the window's length holds more admitted
\* attempts of a client, or of the installation, than its limit, and two recorded denials are
\* more than a window apart (check() and recordDeniedAttemptOnce()).
THEOREM LimitsHold ==
    ASSUME LimiterConstants PROVE LimiterSpec => [](LimiterTypeOK /\ LimitHolds)
  <1>1. LimiterInit => LimiterInv
    BY LimiterInvInit
  <1>2. LimiterInv /\ [LimiterNext]_limiterVars => LimiterInv'
    BY LimiterInvNext
  <1> QED BY <1>1, <1>2, LimiterPromises, PTL DEF LimiterSpec

-----------------------------------------------------------------------------
(* The gate: the inductive invariant *)

GateCall ==
    [pc : {"idle", "receipt", "limit", "session", "token", "account", "denied", "handler", "act",
           "answered"},
     route : Routes \cup {None}, origin : BOOLEAN, cookie : BOOLEAN, recent : BOOLEAN,
     read : Accounts \cup {None},
     answer : {"none", "ok", "refused", "denied", "expired", "unavailable", "restart", "failed"},
     shows : {"nothing", "state", "account"}, traces : Nat, done : BOOLEAN,
     seen : SUBSET Accounts]

\* What a route serves goes with what its handler asks for.
RouteFits(route) ==
    /\ route.area = "me" =>
          \/ route.serves = "state" /\ route.listed = "account-state"
          \/ route.serves = "records" /\ route.listed = "no"
          \/ route.serves = "rights" /\ route.listed = "data-rights"
    /\ route.area = "admin" => route.serves = "administration"
    /\ route.area = "auth" => route.serves \in {"state", "session", "nothing"}
    /\ route.serves = "rights" => route.recent \in {"always", "others"}

\* The routes on which an account acts for itself or for the installation.
Acts(q) == q.route.area \in {"me", "admin", "auth"}

WasApproved(q) == \E a \in q.seen : a.state = "approved"

\* A browser's request has had a session.
CookieFits(q) == q.cookie => WasApproved(q) /\ (q.route.writes => q.origin)

\* A request that is to be answered has done nothing; it has seen the account as it is; it
\* has passed the checks in front of where it is, with the account it read.  One that did
\* something had the right to it.
GateFits(q, current) ==
    /\ q.pc # "idle" => q.route \in Routes
    /\ q.pc # "answered" => /\ q.answer = "none" /\ q.traces = 0 /\ ~ q.done
                            /\ q.shows = "nothing"
    /\ q.pc \notin {"idle", "answered"} /\ current.state = "approved" => current \in q.seen
    /\ q.pc = "receipt" => q.route.area = "open"
    /\ q.pc = "limit" => q.route.area = "callback"
    /\ q.pc = "token" /\ q.cookie => ~ Acts(q)
    /\ q.pc \in {"account", "denied", "handler", "act"} /\ Acts(q) => CookieFits(q)
    /\ q.pc \in {"denied", "handler", "act"} => q.read \in Accounts /\ q.read \in q.seen
    /\ q.pc \in {"handler", "act"} /\ Acts(q) /\ q.route.serves # "nothing" =>
          Matrix(q.route.serves, q.read)
    /\ q.pc = "act" /\ q.route.serves = "rights" /\ ~ q.recent => q.read.state = "approved"
    /\ q.done => q.answer = "ok" /\ q.traces = 0
    /\ q.done /\ Acts(q) =>
          /\ q.route.serves # "nothing" => \E a \in q.seen : Matrix(q.route.serves, a)
          /\ CookieFits(q)
          /\ q.route.serves = "rights" /\ ~ q.recent => WasApproved(q)
    /\ q.answer = "denied" <=> q.traces = 1
    /\ q.shows = "account" => WasApproved(q)

GateInv ==
    /\ account \in Accounts /\ session \in BOOLEAN /\ changes \in 0..MaxChanges
    /\ ask \in [Visitors -> GateCall]
    /\ \A r \in Visitors : GateFits(ask[r], account)

-----------------------------------------------------------------------------
(* The gate: its steps *)

LEMMA RouteShapes == \A route \in Routes : RouteFits(route)
  <1>1. \A route \in ReceiptRoutes \cup {SignInRoute, BearerRoute} \cup SessionRoutes : RouteFits(route)
    BY DEF ReceiptRoutes, SignInRoute, BearerRoute, SessionRoutes, Route, RouteFits
  <1>2. \A route \in ProfileRoutes \cup IdentityRoutes \cup ConsentRoutes : RouteFits(route)
    BY DEF ProfileRoutes, IdentityRoutes, ConsentRoutes, Me, Route, RouteFits
  <1>3. \A route \in RightsRoutes \cup SelfMergeRoutes : RouteFits(route)
    BY DEF RightsRoutes, SelfMergeRoutes, Me, Route, RouteFits
  <1>4. \A route \in AdminMergeRoutes \cup AdminAccountRoutes \cup AdminDomainRoutes
                     \cup AdminDeletionRoutes : RouteFits(route)
    BY DEF AdminMergeRoutes, AdminAccountRoutes, AdminDomainRoutes, AdminDeletionRoutes, Admin,
           Route, RouteFits
  <1> QED BY <1>1, <1>2, <1>3, <1>4 DEF Routes

LEMMA GateParts ==
    ASSUME GateInv, NEW r \in Visitors
    PROVE  /\ ask \in [Visitors -> GateCall] /\ ask[r] \in GateCall /\ GateFits(ask[r], account)
           /\ account \in Accounts /\ session \in BOOLEAN /\ changes \in 0..MaxChanges
  BY DEF GateInv

\* Request r becomes c.
LEMMA GateStepKeeps ==
    ASSUME GateInv, NEW r \in Visitors, NEW c \in GateCall, ask' = [ask EXCEPT ![r] = c],
           GateFits(c, account'), account' \in Accounts,
           account' = account \/ account'.state # "approved",
           session' \in BOOLEAN, changes' = changes
    PROVE  GateInv'
  <1>1. ask' \in [Visitors -> GateCall]
    BY DEF GateInv
  <1>2. ASSUME NEW q \in Visitors PROVE GateFits(ask'[q], account')
    <2>1. CASE q = r
      BY <2>1, GateParts
    <2>2. CASE q # r
      <3>1. ask'[q] = ask[q] /\ GateFits(ask[q], account)
        BY <2>2, GateParts
      <3> QED BY <3>1 DEF GateFits
    <2> QED BY <2>1, <2>2
  <1> QED BY <1>1, <1>2 DEF GateInv

\* An answer that is no denial, before anything is done.
LEMMA AnswerKeeps ==
    ASSUME GateInv, NEW r \in Visitors, ask[r].pc \notin {"idle", "answered"},
           NEW answer \in {"ok", "refused", "expired", "unavailable", "restart", "failed"},
           Answers(r, answer), account' = account, session' \in BOOLEAN, changes' = changes
    PROVE  GateInv'
  <1> DEFINE c == [ask[r] EXCEPT !.pc = "answered", !.answer = answer]
  <1>1. ask' = [ask EXCEPT ![r] = c]
    BY GateParts DEF Answers
  <1>2. /\ c \in GateCall /\ c.pc = "answered" /\ c.answer = answer /\ c.route = ask[r].route
        /\ c.traces = ask[r].traces /\ c.shows = ask[r].shows /\ c.seen = ask[r].seen
        /\ c.done <=> ask[r].done
    BY GateParts DEF GateCall
  <1> HIDE DEF c
  <1>3. GateFits(c, account)
    BY <1>2, GateParts DEF GateFits
  <1> QED BY <1>1, <1>2, <1>3, GateParts, GateStepKeeps

\* A request that goes on.
LEMMA ContinueKeeps ==
    ASSUME GateInv, NEW r \in Visitors, NEW pc, Continues(r, pc),
           UNCHANGED <<account, session, changes>>,
           \/ ask[r].pc = "limit" /\ pc = "token"
           \/ /\ ask[r].pc = "handler" /\ pc = "act"
              /\ ask[r].route.serves = "rights" /\ ~ ask[r].recent => ask[r].read.state = "approved"
    PROVE  GateInv'
  <1> DEFINE c == [ask[r] EXCEPT !.pc = pc]
  <1>1. ask' = [ask EXCEPT ![r] = c]
    BY DEF Continues
  <1>2. /\ c \in GateCall /\ c.pc = pc /\ c.answer = ask[r].answer /\ c.route = ask[r].route
        /\ c.traces = ask[r].traces /\ c.shows = ask[r].shows /\ c.seen = ask[r].seen
        /\ c.read = ask[r].read /\ (c.done <=> ask[r].done) /\ (c.cookie <=> ask[r].cookie)
        /\ (c.origin <=> ask[r].origin) /\ (c.recent <=> ask[r].recent)
    BY GateParts DEF GateCall
  <1> HIDE DEF c
  <1>3. CASE ask[r].pc = "limit" /\ pc = "token"
    <2>1. GateFits(c, account)
      BY <1>2, <1>3, GateParts DEF GateFits, Acts
    <2> QED BY <1>1, <1>2, <2>1, GateParts, GateStepKeeps
  <1>4. CASE ask[r].pc = "handler" /\ pc = "act"
    <2>1. GateFits(c, account)
      BY <1>2, <1>4, GateParts DEF GateFits, Acts, CookieFits, WasApproved
    <2> QED BY <1>1, <1>2, <2>1, GateParts, GateStepKeeps
  <1> QED BY <1>3, <1>4

LEMMA NoRequestFits ==
    /\ NoRequest \in GateCall /\ NoRequest.pc = "idle" /\ \A a : GateFits(NoRequest, a)
    /\ NoRequest.answer = "none" /\ NoRequest.traces = 0 /\ ~ NoRequest.done
    /\ NoRequest.shows = "nothing" /\ NoRequest.seen = {}
  <1>1. NoRequest \in GateCall
    BY DEF NoRequest, GateCall
  <1> QED BY <1>1 DEF NoRequest, GateFits

\* A request is let in, or refused for its origin.
LEMMA OriginKeeps == ASSUME GateInv, NEW r \in Visitors, permittedOrigin(r) PROVE GateInv'
  <1>1. PICK route \in Routes, origin \in {"none", "allowed", "foreign"}, cookie \in BOOLEAN :
          LET fresh == [NoRequest EXCEPT !.route = route, !.origin = (origin = "allowed"),
                                         !.cookie = cookie, !.seen = {account}] IN
          ask' = [ask EXCEPT ![r] =
                    IF origin = "foreign"
                    THEN [fresh EXCEPT !.pc = "answered", !.answer = "refused"]
                    ELSE [fresh EXCEPT !.pc = CASE route.area = "open" -> "receipt"
                                                [] route.area = "callback" -> "limit"
                                                [] OTHER -> IF cookie THEN "session" ELSE "token"]]
    BY DEF permittedOrigin
  <1> DEFINE from == origin = "allowed"
             fresh == [NoRequest EXCEPT !.route = route, !.origin = from, !.cookie = cookie,
                                        !.seen = {account}]
             next == CASE route.area = "open" -> "receipt"
                       [] route.area = "callback" -> "limit"
                       [] OTHER -> IF cookie THEN "session" ELSE "token"
             c == IF origin = "foreign"
                  THEN [fresh EXCEPT !.pc = "answered", !.answer = "refused"]
                  ELSE [fresh EXCEPT !.pc = next]
  <1>2. ask' = [ask EXCEPT ![r] = c]
    BY <1>1
  <1>3. from \in BOOLEAN
    BY Zenon
  <1>4. account \in Accounts
    BY GateParts
  <1> HIDE DEF from
  <1>5. /\ fresh \in GateCall /\ fresh.route = route /\ (fresh.cookie <=> cookie)
        /\ fresh.seen = {account} /\ fresh.answer = "none" /\ fresh.traces = 0 /\ ~ fresh.done
        /\ fresh.shows = "nothing"
    BY <1>3, <1>4, NoRequestFits DEF GateCall
  <1>6. /\ next \in {"receipt", "limit", "session", "token"}
        /\ next = "receipt" <=> route.area = "open"
        /\ next = "limit" <=> route.area = "callback"
        /\ next = "token" => ~ cookie
    <2>1. CASE route.area = "open"
      BY <2>1
    <2>2. CASE route.area = "callback"
      BY <2>2
    <2>3. CASE route.area \notin {"open", "callback"}
      <3>1. next = IF cookie THEN "session" ELSE "token"
        BY <2>3
      <3> QED BY <2>3, <3>1
    <2> QED BY <2>1, <2>2, <2>3
  <1> HIDE DEF fresh, next
  <1>7. /\ c \in GateCall /\ c.pc \in {"answered", next} /\ c.route = route /\ (c.cookie <=> cookie)
        /\ c.seen = {account} /\ c.traces = 0 /\ ~ c.done /\ c.shows = "nothing"
        /\ c.pc = next => c.answer = "none"
        /\ c.answer # "denied"
    BY <1>5, <1>6 DEF GateCall
  <1> HIDE DEF c
  <1>8. GateFits(c, account)
    BY <1>6, <1>7 DEF GateFits
  <1> QED BY <1>2, <1>7, <1>8, GateParts, GateStepKeeps DEF permittedOrigin

LEMMA ReceiptKeeps == ASSUME GateInv, NEW r \in Visitors, UseReceipt(r) PROVE GateInv'
  <1>1. ask[r].pc = "receipt" /\ UNCHANGED <<account, session, changes>>
    BY DEF UseReceipt
  <1>2. CASE Answers(r, "refused")
    BY <1>1, <1>2, GateParts, AnswerKeeps
  <1>3. CASE ask' = [ask EXCEPT ![r].pc = "answered", ![r].answer = "ok", ![r].done = TRUE]
    <2> DEFINE c == [ask[r] EXCEPT !.pc = "answered", !.answer = "ok", !.done = TRUE]
    <2>1. ask' = [ask EXCEPT ![r] = c]
      BY <1>3, GateParts
    <2>2. /\ c \in GateCall /\ c.pc = "answered" /\ c.answer = "ok" /\ c.route = ask[r].route
          /\ c.traces = ask[r].traces /\ c.shows = ask[r].shows
      BY GateParts DEF GateCall
    <2> HIDE DEF c
    <2>3. GateFits(c, account)
      BY <1>1, <2>2, GateParts DEF GateFits, Acts
    <2> QED BY <1>1, <2>1, <2>2, <2>3, GateParts, GateStepKeeps
  <1> QED BY <1>2, <1>3 DEF UseReceipt

LEMMA LimitKeeps == ASSUME GateInv, NEW r \in Visitors, enforceAuthAbuseLimit(r) PROVE GateInv'
  <1>1. ask[r].pc = "limit" /\ UNCHANGED <<account, session, changes>>
    BY DEF enforceAuthAbuseLimit
  <1>2. CASE Continues(r, "token")
    BY <1>1, <1>2, ContinueKeeps
  <1>3. CASE Answers(r, "refused") \/ Answers(r, "unavailable")
    BY <1>1, <1>3, GateParts, AnswerKeeps
  <1> QED BY <1>2, <1>3 DEF enforceAuthAbuseLimit

\* A request whose identity is known: a browser's request has had a session.
LEMMA IdentifiedKeeps ==
    ASSUME GateInv, NEW r \in Visitors, ask[r].pc \in {"session", "token"}, NEW recent \in BOOLEAN,
           ask' = [ask EXCEPT ![r].pc = "account", ![r].recent = recent],
           account' = account, session' \in BOOLEAN, changes' = changes,
           ask[r].pc = "session" => /\ account.state = "approved"
                                    /\ ask[r].route.writes => ask[r].origin
    PROVE  GateInv'
  <1> DEFINE c == [ask[r] EXCEPT !.pc = "account", !.recent = recent]
  <1>1. ask' = [ask EXCEPT ![r] = c]
    BY GateParts
  <1>2. /\ c \in GateCall /\ c.pc = "account" /\ c.answer = ask[r].answer /\ c.route = ask[r].route
        /\ c.traces = ask[r].traces /\ c.shows = ask[r].shows /\ c.seen = ask[r].seen
        /\ (c.done <=> ask[r].done) /\ (c.cookie <=> ask[r].cookie)
        /\ (c.origin <=> ask[r].origin)
    BY ZenonT(40), GateParts DEF GateCall
  <1> HIDE DEF c
  <1>3. Acts(c) => CookieFits(c)
    BY <1>2, GateParts DEF GateFits, Acts, CookieFits, WasApproved
  <1>4. GateFits(c, account)
    BY <1>2, <1>3, GateParts DEF GateFits
  <1> QED BY <1>1, <1>2, <1>4, GateParts, GateStepKeeps

LEMMA SessionKeeps == ASSUME GateInv, NEW r \in Visitors, resolveBrowserSession(r) PROVE GateInv'
  <1>1. /\ ask[r].pc = "session" /\ UNCHANGED <<account, changes>>
    BY DEF resolveBrowserSession
  <1>2. session' \in BOOLEAN
    <2>1. session' = (session /\ account.state = "approved")
      BY DEF resolveBrowserSession
    <2> QED BY <2>1, Zenon
  <1>3. ASSUME session, account.state = "approved", ~ (ask[r].route.writes /\ ~ ask[r].origin),
               NEW recent \in BOOLEAN,
               ask' = [ask EXCEPT ![r].pc = "account", ![r].recent = recent]
        PROVE  GateInv'
    BY <1>1, <1>2, <1>3, IdentifiedKeeps
  <1>4. CASE Answers(r, "refused") \/ Answers(r, "expired") \/ Answers(r, "ok")
    BY <1>1, <1>2, <1>4, GateParts, AnswerKeeps
  <1> QED BY <1>3, <1>4 DEF resolveBrowserSession

LEMMA VerifyKeeps == ASSUME GateInv, NEW r \in Visitors, Verify(r) PROVE GateInv'
  <1>1. /\ ask[r].pc = "token" /\ UNCHANGED <<account, session, changes>>
    BY DEF Verify
  <1>2. CASE \E answer \in {"refused", "unavailable", "restart"} : Answers(r, answer)
    BY <1>1, <1>2, GateParts, AnswerKeeps
  <1>3. CASE \E token \in Tokens :
               ask' = [ask EXCEPT ![r].pc = "account",
                                  ![r].recent = (token.age \in {"minutes", "days"})]
    <2>1. PICK token \in Tokens :
            ask' = [ask EXCEPT ![r].pc = "account",
                               ![r].recent = (token.age \in {"minutes", "days"})]
      BY <1>3
    <2> DEFINE recent == token.age \in {"minutes", "days"}
    <2>2. recent \in BOOLEAN
      OBVIOUS
    <2>3. ask' = [ask EXCEPT ![r].pc = "account", ![r].recent = recent]
      BY <2>1
    <2> HIDE DEF recent
    <2> QED BY <1>1, <2>2, <2>3, GateParts, IdentifiedKeeps
  <1>4. \A token, signIn : verifyToken(token, signIn)
                             \in {"refused", "unavailable", "restart", "identity"}
    BY DEF verifyToken
  <1> QED BY <1>2, <1>3, <1>4 DEF Verify

\* Who is granted a permission has the right of the matrix.
LEMMA GrantedFits ==
    ASSUME NEW q, q.route \in Routes, NEW a \in Accounts, a.state # "none",
           Permission(q.route, a) # "none", Acts(q), q.route.serves # "nothing",
           Permission(q.route, a) = "free" \/ authorizeProject42Operation(Permission(q.route, a), a)
    PROVE  Matrix(q.route.serves, a)
  <1>1. RouteFits(q.route)
    BY RouteShapes
  <1>2. CASE q.route.area = "me"
    <2>1. Permission(q.route, a) = SelfPermission(q.route, a)
      BY <1>2 DEF Permission
    <2> QED BY <1>1, <1>2, <2>1 DEF RouteFits, SelfPermission, authorizeProject42Operation, Matrix
  <1>3. CASE q.route.area = "admin"
    <2>1. Permission(q.route, a) = "installation:owner-administration"
      BY <1>3 DEF Permission
    <2> QED BY <1>1, <1>3, <2>1 DEF RouteFits, authorizeProject42Operation, Matrix
  <1>4. CASE q.route.area = "auth"
    <2>1. Permission(q.route, a) \in {"self:account-state", "session:establish"}
      BY <1>1, <1>4 DEF Permission, RouteFits
    <2> QED BY <1>1, <1>4, <2>1 DEF RouteFits, authorizeProject42Operation, Matrix
  <1> QED BY <1>2, <1>3, <1>4 DEF Acts

LEMMA FindAccountKeeps == ASSUME GateInv, NEW r \in Visitors, findAccount(r) PROVE GateInv'
  <1> DEFINE q == ask[r]
             registers == q.route.area \in {"callback", "bearer"} /\ account.state = "none"
             found == IF registers THEN [state |-> "pending", roles |-> {"learner"}] ELSE account
             read == [q EXCEPT !.read = found, !.seen = @ \cup {found}]
  <1>1. /\ q.pc = "account" /\ UNCHANGED <<session, changes>>
        /\ account' = IF q.route.area = "bearer" /\ q.cookie THEN account ELSE found
        /\ \/ /\ (q.route.area = "bearer" /\ q.cookie) \/ found.state = "none"
              /\ Answers(r, "refused")
           \/ /\ ~ (q.route.area = "bearer" /\ q.cookie) /\ found.state # "none"
              /\ \/ ask' = [ask EXCEPT ![r] = Decided(read, found)]
                 \/ q.route.area = "me" /\ ask' = [ask EXCEPT ![r] = [read EXCEPT !.pc = "denied"]]
    BY DEF findAccount
  <1>2. /\ found \in Accounts /\ (found = account \/ found.state = "pending")
    <2>1. [state |-> "pending", roles |-> {"learner"}] \in Accounts
      BY DEF Accounts, States
    <2> QED BY <2>1, GateParts
  <1>3. account' \in Accounts /\ (account' = account \/ account'.state # "approved")
    BY <1>1, <1>2, GateParts
  <1>4. CASE /\ Answers(r, "refused")
             /\ (q.route.area = "bearer" /\ q.cookie) \/ found.state = "none"
    <2>1. account' = account
      BY <1>1, <1>2, <1>4
    <2> QED BY <1>1, <1>4, <2>1, GateParts, AnswerKeeps
  <1>5. q \in GateCall /\ GateFits(q, account) /\ q.route \in Routes
    BY <1>1, GateParts DEF GateFits
  <1> HIDE DEF q, found
  <1>6. /\ read \in GateCall /\ read.read = found /\ read.seen = q.seen \cup {found}
        /\ read.route = q.route /\ (read.cookie <=> q.cookie) /\ (read.origin <=> q.origin)
        /\ (read.recent <=> q.recent) /\ read.answer = q.answer /\ read.traces = q.traces
        /\ (read.done <=> q.done) /\ read.shows = q.shows
    BY <1>2, <1>5 DEF GateCall
  <1> HIDE DEF read
  <1>7. Acts(q) => CookieFits(read)
    BY <1>1, <1>5, <1>6 DEF GateFits, CookieFits, WasApproved
  <1>8. ASSUME NEW pc \in {"handler", "denied"}, ask' = [ask EXCEPT ![r] = [read EXCEPT !.pc = pc]],
               account' = found,
               pc = "handler" /\ Acts(read) /\ read.route.serves # "nothing" =>
                  Matrix(read.route.serves, found)
        PROVE  GateInv'
    <2> DEFINE c == [read EXCEPT !.pc = pc]
    <2>1. /\ c \in GateCall /\ c.pc = pc /\ c.read = read.read /\ c.seen = read.seen
          /\ c.route = read.route /\ (c.cookie <=> read.cookie) /\ (c.origin <=> read.origin)
          /\ (c.recent <=> read.recent) /\ c.answer = read.answer /\ c.traces = read.traces
          /\ (c.done <=> read.done) /\ c.shows = read.shows
      BY <1>6, <1>8 DEF GateCall
    <2>2. ask' = [ask EXCEPT ![r] = c]
      BY <1>8
    <2> HIDE DEF c
    <2>3. Acts(c) => CookieFits(c)
      BY <1>6, <1>7, <2>1 DEF Acts, CookieFits, WasApproved
    <2>4. Acts(c) <=> Acts(read)
      BY <2>1 DEF Acts
    <2>5. GateFits(c, account')
      BY <1>1, <1>2, <1>5, <1>6, <1>8, <2>1, <2>3, <2>4 DEF GateFits
    <2> QED BY <1>1, <1>3, <2>1, <2>2, <2>5, GateParts, GateStepKeeps
  <1>9. CASE /\ account' = found /\ q.route.area = "me"
             /\ ask' = [ask EXCEPT ![r] = [read EXCEPT !.pc = "denied"]]
    BY <1>8, <1>9
  <1>10. CASE account' = found /\ found.state # "none" /\ ask' = [ask EXCEPT ![r] = Decided(read, found)]
    <2> DEFINE permission == Permission(read.route, found)
    <2>1. CASE permission = "none"
      <3> DEFINE c == [read EXCEPT !.pc = "answered", !.answer = "refused"]
      <3>1. ask' = [ask EXCEPT ![r] = c]
        BY <1>10, <2>1 DEF Decided
      <3>2. /\ c \in GateCall /\ c.pc = "answered" /\ c.answer = "refused" /\ c.route = read.route
            /\ c.traces = read.traces /\ c.shows = read.shows /\ (c.done <=> read.done)
        BY <1>6 DEF GateCall
      <3> HIDE DEF c
      <3>3. GateFits(c, account')
        BY <1>1, <1>5, <1>6, <3>2 DEF GateFits
      <3> QED BY <1>1, <1>3, <3>1, <3>2, <3>3, GateParts, GateStepKeeps
    <2>2. CASE /\ permission # "none"
               /\ permission = "free" \/ authorizeProject42Operation(permission, found)
      <3>1. Decided(read, found) = [read EXCEPT !.pc = "handler"]
        BY <2>2 DEF Decided
      <3>2. Acts(read) /\ read.route.serves # "nothing" => Matrix(read.route.serves, found)
        BY <1>2, <1>5, <1>6, <1>10, <2>2, GrantedFits
      <3> QED BY <1>8, <1>10, <3>1, <3>2
    <2>3. CASE /\ permission # "none" /\ permission # "free"
               /\ ~ authorizeProject42Operation(permission, found)
      <3>1. Decided(read, found) = [read EXCEPT !.pc = "denied"]
        BY <2>3 DEF Decided
      <3> QED BY <1>8, <1>10, <3>1
    <2> QED BY <2>1, <2>2, <2>3
  <1> QED BY <1>1, <1>4, <1>9, <1>10

LEMMA DenialKeeps == ASSUME GateInv, NEW r \in Visitors, recordDenial(r) PROVE GateInv'
  <1> DEFINE n == ask[r].traces + 1
             c == [ask[r] EXCEPT !.pc = "answered", !.answer = "denied", !.traces = n]
  <1>1. /\ ask[r].pc = "denied" /\ UNCHANGED <<account, session, changes>>
        /\ ask' = [ask EXCEPT ![r] = c]
    BY GateParts DEF recordDenial
  <1>2. n = 1
    BY <1>1, GateParts DEF GateFits
  <1> HIDE DEF n
  <1>3. /\ c \in GateCall /\ c.pc = "answered" /\ c.answer = "denied" /\ c.route = ask[r].route
        /\ c.traces = 1 /\ c.shows = ask[r].shows /\ (c.done <=> ask[r].done)
    BY ZenonT(40), <1>2, GateParts DEF GateCall
  <1> HIDE DEF c
  <1>4. GateFits(c, account)
    BY <1>1, <1>3, GateParts DEF GateFits
  <1> QED BY <1>1, <1>3, <1>4, GateParts, GateStepKeeps

LEMMA ChecksKeep == ASSUME GateInv, NEW r \in Visitors, Checks(r) PROVE GateInv'
  <1>1. /\ ask[r].pc = "handler" /\ UNCHANGED <<account, session, changes>>
        /\ \/ Answers(r, "refused")
           \/ requireRecentAuthentication(ask[r]) /\ Continues(r, "act")
    BY DEF Checks
  <1>2. CASE Answers(r, "refused")
    BY <1>1, <1>2, GateParts, AnswerKeeps
  <1>3. CASE requireRecentAuthentication(ask[r]) /\ Continues(r, "act")
    <2>1. ask[r].route \in Routes
      BY <1>1, GateParts DEF GateFits
    <2>2. ask[r].route.serves = "rights" /\ ~ ask[r].recent => ask[r].read.state = "approved"
      BY <1>3, <2>1, RouteShapes DEF requireRecentAuthentication, RouteFits
    <2> QED BY <1>1, <1>3, <2>2, ContinueKeeps
  <1> QED BY <1>1, <1>2, <1>3

LEMMA ActKeeps == ASSUME GateInv, NEW r \in Visitors, Act(r) PROVE GateInv'
  <1> DEFINE c == [ask[r] EXCEPT !.pc = "answered", !.answer = "ok", !.shows = Disclosed(ask[r]),
                                 !.done = TRUE]
  <1>1. /\ ask[r].pc = "act" /\ UNCHANGED <<account, changes>>
        /\ \/ Answers(r, "failed") /\ session' = session
           \/ ask' = [ask EXCEPT ![r] = c]
              /\ (session' = TRUE \/ session' = FALSE \/ session' = session)
    BY GateParts DEF Act
  <1>2. CASE Answers(r, "failed") /\ session' = session
    BY <1>1, <1>2, GateParts, AnswerKeeps
  <1>3. CASE /\ ask' = [ask EXCEPT ![r] = c]
             /\ session' = TRUE \/ session' = FALSE \/ session' = session
    <2>1. /\ Disclosed(ask[r]) \in {"nothing", "state", "account"}
          /\ Disclosed(ask[r]) = "account" => ask[r].read.state = "approved"
      BY DEF Disclosed
    <2>2. /\ c \in GateCall /\ c.pc = "answered" /\ c.answer = "ok" /\ c.route = ask[r].route
          /\ c.traces = ask[r].traces /\ c.shows = Disclosed(ask[r]) /\ c.seen = ask[r].seen
          /\ (c.cookie <=> ask[r].cookie) /\ (c.origin <=> ask[r].origin)
          /\ (c.recent <=> ask[r].recent)
      BY ZenonT(40), <2>1, GateParts DEF GateCall
    <2> HIDE DEF c
    <2>3. Acts(c) => CookieFits(c) /\ Acts(ask[r])
      BY <1>1, <2>2, GateParts DEF GateFits, Acts, CookieFits, WasApproved
    <2>4. ask[r].read \in c.seen /\ ask[r].traces = 0 /\ ask[r].route \in Routes
      BY <1>1, <2>2, GateParts DEF GateFits
    <2>5. Acts(c) /\ c.route.serves # "nothing" => Matrix(c.route.serves, ask[r].read)
      BY <1>1, <2>2, <2>3, GateParts DEF GateFits
    <2>6. /\ c.route.serves = "rights" /\ ~ c.recent => WasApproved(c)
          /\ c.shows = "account" => WasApproved(c)
      BY <1>1, <2>1, <2>2, <2>4, GateParts DEF GateFits, WasApproved
    <2>7. GateFits(c, account)
      BY <2>2, <2>3, <2>4, <2>5, <2>6 DEF GateFits
    <2> QED BY <1>1, <1>3, <2>2, <2>7, GateParts, GateStepKeeps
  <1> QED BY <1>1, <1>2, <1>3

\* Whatever becomes of the account, the requests under way see it.
LEMMA BecomesKeeps ==
    ASSUME GateConstants, GateInv, NEW a \in Accounts, Becomes(a), session' \in BOOLEAN
    PROVE  GateInv'
  <1>1. changes' \in 0..MaxChanges /\ account' = a
    BY DEF Becomes, GateInv, GateConstants
  <1>2. ASSUME NEW r \in Visitors PROVE ask'[r] \in GateCall /\ GateFits(ask'[r], account')
    <2>1. ask[r] \in GateCall /\ GateFits(ask[r], account)
      BY GateParts
    <2>2. CASE r \notin Underway
      <3>1. ask'[r] = ask[r] /\ ask[r].pc \in {"idle", "answered"}
        BY <2>2 DEF Becomes, Underway
      <3> QED BY <2>1, <3>1 DEF GateFits
    <2>3. CASE r \in Underway
      <3> DEFINE c == [ask[r] EXCEPT !.seen = @ \cup {a}]
      <3>1. ask'[r] = c
        BY <2>3 DEF Becomes
      <3>2. /\ c \in GateCall /\ c.pc = ask[r].pc /\ c.route = ask[r].route /\ c.read = ask[r].read
            /\ c.answer = ask[r].answer /\ c.traces = ask[r].traces /\ c.shows = ask[r].shows
            /\ c.seen = ask[r].seen \cup {a} /\ (c.done <=> ask[r].done)
            /\ (c.cookie <=> ask[r].cookie) /\ (c.origin <=> ask[r].origin)
            /\ (c.recent <=> ask[r].recent)
        BY <2>1 DEF GateCall
      <3> HIDE DEF c
      <3>3. (Acts(c) <=> Acts(ask[r])) /\ (WasApproved(ask[r]) => WasApproved(c))
        BY <3>2 DEF Acts, WasApproved
      <3>4. CookieFits(ask[r]) => CookieFits(c)
        BY <3>2, <3>3 DEF CookieFits
      <3>5. ask[r].pc \notin {"idle", "answered"} /\ ~ ask[r].done
        BY <2>1, <2>3 DEF Underway, GateFits
      <3>6. GateFits(c, a)
        BY <2>1, <3>2, <3>3, <3>4, <3>5 DEF GateFits
      <3> QED BY <1>1, <3>1, <3>2, <3>6
    <2> QED BY <2>2, <2>3
  <1>3. ask' \in [Visitors -> GateCall]
    <2>1. ask' = [r \in Visitors |-> ask'[r]]
      BY DEF Becomes
    <2> QED BY <1>2, <2>1
  <1> QED BY <1>1, <1>2, <1>3 DEF GateInv

LEMMA OthersKeep ==
    ASSUME GateConstants, GateInv, Decide \/ Assign \/ Erase PROVE GateInv'
  <1>1. account \in Accounts /\ session \in BOOLEAN
    BY DEF GateInv
  <1>2. CASE Decide
    <2>1. PICK s \in States : /\ Becomes([account EXCEPT !.state = s])
                              /\ session' = (session /\ s = "approved")
      BY <1>2 DEF Decide
    <2>2. [account EXCEPT !.state = s] \in Accounts
      BY <1>1 DEF Accounts
    <2>3. session' \in BOOLEAN
      BY <2>1, Zenon
    <2> QED BY <2>1, <2>2, <2>3, BecomesKeeps
  <1>3. CASE Assign
    <2>1. PICK roles \in SUBSET {"learner", "owner"} : Becomes([account EXCEPT !.roles = roles])
      BY <1>3 DEF Assign
    <2>2. [account EXCEPT !.roles = roles] \in Accounts
      BY <1>1 DEF Accounts
    <2> QED BY <1>1, <1>3, <2>1, <2>2, BecomesKeeps DEF Assign
  <1>4. CASE Erase
    <2>1. [state |-> "none", roles |-> {}] \in Accounts
      BY DEF Accounts, States
    <2> QED BY <1>4, <2>1, BecomesKeeps DEF Erase
  <1> QED BY <1>2, <1>3, <1>4

LEMMA GateInvInit == GateConstants /\ GateInit => GateInv
  <1> SUFFICES ASSUME GateConstants, GateInit PROVE GateInv
    OBVIOUS
  <1>1. session \in BOOLEAN
    <2>1. session = FALSE \/ session = (account.state = "approved")
      BY DEF GateInit
    <2> QED BY <2>1, Zenon
  <1> QED BY <1>1, NoRequestFits DEF GateInit, GateInv, GateConstants

LEMMA GateInvNext == GateConstants /\ GateInv /\ [GateNext]_gateVars => GateInv'
  <1> SUFFICES ASSUME GateConstants, GateInv, [GateNext]_gateVars PROVE GateInv'
    OBVIOUS
  <1>1. CASE UNCHANGED gateVars
    BY <1>1 DEF gateVars, GateInv
  <1> QED BY <1>1, OriginKeeps, ReceiptKeeps, LimitKeeps, SessionKeeps, VerifyKeeps,
             FindAccountKeeps, DenialKeeps, ChecksKeep, ActKeeps, OthersKeep DEF GateNext

LEMMA GatePromises ==
    GateInv => GateTypeOK /\ OnlyTheEntitled /\ DenialsLeaveATrace /\ OnlyTheStateIsShown
  <1> SUFFICES ASSUME GateInv
               PROVE  GateTypeOK /\ OnlyTheEntitled /\ DenialsLeaveATrace /\ OnlyTheStateIsShown
    OBVIOUS
  <1>1. GateTypeOK
    BY DEF GateInv, GateCall, GateTypeOK
  <1>2. OnlyTheEntitled
    BY GateParts DEF OnlyTheEntitled, GateFits, Acts, CookieFits, WasApproved
  <1>3. DenialsLeaveATrace
    BY GateParts DEF DenialsLeaveATrace, GateFits
  <1>4. OnlyTheStateIsShown
    BY GateParts DEF OnlyTheStateIsShown, GateFits, WasApproved
  <1> QED BY <1>1, <1>2, <1>3, <1>4

\* Whatever is decided about an account while requests of any number are under way: a request
\* does something only if the account had the right to it at some moment in between; a denial
\* does nothing and leaves one entry in the audit trail; and of an account that is not
\* approved only the state is shown (handleRequest, authorizeProject42Operation).
THEOREM RequestsAreEntitled ==
    ASSUME GateConstants
    PROVE  GateSpec => [](GateTypeOK /\ OnlyTheEntitled /\ DenialsLeaveATrace /\ OnlyTheStateIsShown)
  <1>1. GateInit => GateInv
    BY GateInvInit
  <1>2. GateInv /\ [GateNext]_gateVars => GateInv'
    BY GateInvNext
  <1> QED BY <1>1, <1>2, GatePromises, PTL DEF GateSpec

===============================================================================
