--------------------- MODULE IdentityProvisioningProofs ---------------------
(***************************************************************************)
(* Proofs about IdentityProvisioning, for every number of keys, calls,     *)
(* secret versions, requests and faults.                                   *)
(***************************************************************************)
EXTENDS IdentityProvisioning, TLAPS

-----------------------------------------------------------------------------
(* The inductive invariants *)

\* What validateIdentityProvisioningRecord asks of record x.
Contract(x) ==
    /\ x.state = "awaiting-authority" => x.gate = "pending"
    /\ x.state = "failed" <=> x.error # "none" /\ x.state # "recovering"
    /\ x.state = "retired" => x.revoked /\ x.secret # None

\* A call has a key.  It holds a record that keeps the contract,
\* and it is in the state that the step needs.
CallShape ==
    \A r \in Runs : run[r].pc # "idle" =>
        /\ run[r].key \in Keys
        /\ Contract(run[r].cur)
        /\ run[r].pc = "recover" => run[r].cur.state = "failed"
        /\ run[r].pc = "decide" => run[r].cur.state = "awaiting-authority"
        /\ run[r].pc \in {"latest", "start"} => ~ Exists(run[r].cur)
        /\ run[r].pc \notin {"latest", "start"} => Exists(run[r].cur)

ProvisioningInv == TypeOK /\ CallShape

\* Saves are numbered, a record that does not exist is blank, and only what may be
\* retried is recovered.
RecordsFit ==
    \A k \in Keys : /\ rec[k].updated <= now
                    /\ ~ Exists(rec[k]) => rec[k] = NoRec
                    /\ rec[k].state = "recovering" => rec[k].error # "final"

\* A call holds an unsettled record.  If updatedAt says that it is still the
\* stored one, then it is.
HeldIsOpen ==
    \A r \in Runs : run[r].pc # "idle" =>
        /\ ~ Settled(run[r].cur)
        /\ run[r].cur.updated <= now
        /\ Exists(run[r].cur) /\ Saves(run[r].key, run[r].cur) => rec[run[r].key] = run[r].cur

FinalInv == ProvisioningInv /\ RecordsFit /\ HeldIsOpen

\* Some gate was approved.
Approved == \E k \in Keys : rec[k].gate = "approved"

\* An approval that a call knows of is on record, a call that reached the adapter
\* of a gated plan has one, and a call that found the gate closed has none to lose.
GateKnown ==
    \A r \in Runs :
        /\ run[r].prev.gate = "approved" \/ run[r].cur.gate = "approved" => Approved
        /\ plan.gated /\ run[r].pc \in AdapterSteps => Approved
        /\ run[r].pc = "execute" /\ run[r].cur.gate = "approved" => run[r].prev.gate = "approved"
        /\ run[r].result = "awaiting-authority" => run[r].pc = "apply" /\ run[r].cur.gate # "approved"

GateInv == FinalInv /\ GateKnown /\ GateBeforeWrite

\* Every version that is named was generated.
Used(s) == s # None => sink[s] # "unused"

NamedIsUsed ==
    /\ Used(client.secret)
    /\ ~ client.exists => client.secret = None
    /\ \A k \in Keys : Used(rec[k].secret)
    /\ \A r \in Runs : Used(run[r].cur.secret) /\ Used(run[r].prev.secret) /\ Used(run[r].secret)

\* Which operations reach a step, that a rotation observes with its new version,
\* and that nobody has one before.
StepFits(c) ==
    /\ c.pc \in {"write", "reread"} => c.op \notin {"rotate", "validate"}
    /\ c.pc = "observe" /\ c.op = "rotate" /\ plan.confidential => c.secret # None
    /\ c.pc \notin {"observe", "revoke", "apply", "throw"} => c.secret = None

StepsFit == \A r \in Runs : StepFits(run[r])

\* Does the call have a new version, or is it about to revoke the old one?
Replacing(c) == (c.pc = "observe" /\ c.secret # None) \/ c.pc = "revoke"

\* Such a call knows that the provider does not accept the old version any more.
OldIsOut ==
    \A r \in Runs : Replacing(run[r]) /\ run[r].prev.secret # None
                        => client.secret # run[r].prev.secret

SecretInv == ProvisioningInv /\ NamedIsUsed /\ StepsFit /\ OldIsOut /\ CurrentSecretIsKept

-----------------------------------------------------------------------------
(* Types *)

Call == [pc : {"idle", "latest", "start", "recover", "decide", "execute",
               "throw", "apply"} \cup AdapterSteps,
         key : Keys \cup {None}, op : Operations \cup {None},
         cur : Record, prev : Record, secret : Secrets \cup {None},
         before : BOOLEAN, enabled : BOOLEAN, verified : BOOLEAN,
         result : {"none", "awaiting-authority", "validating", "disabled", "retired"}]

States == {"preflight", "awaiting-authority", "provisioning", "failed", "recovering",
           "ready", "disabled", "retired"}

LEMMA TransitionDomain == DOMAIN Transitions = States
  BY DEF Transitions, States

LEMMA RecordType ==
    Record = [state : {"none"} \cup States, op : Operations \cup {None}, updated : Nat,
              gate : {"none", "pending"} \cup Decisions, secret : Secrets \cup {None},
              revoked : BOOLEAN, error : {"none", "retryable", "final"}]
  BY TransitionDomain DEF Record

LEMMA BlankTypes == NoRec \in Record /\ Contract(NoRec) /\ Idle \in Call
  <1>1. NoRec \in Record /\ Contract(NoRec)
    BY RecordType DEF NoRec, Contract
  <1> QED BY <1>1 DEF Idle, Call

LEMMA TypeInvParts ==
    ASSUME ProvisioningInv
    PROVE  /\ plan \in [gated : BOOLEAN, confidential : BOOLEAN] /\ overlap \in BOOLEAN
           /\ now \in Nat /\ requests \in Nat /\ faults \in Nat
           /\ rec \in [Keys -> Record] /\ \A k \in Keys : Contract(rec[k])
           /\ client \in [exists : BOOLEAN, enabled : BOOLEAN, secret : Secrets \cup {None}]
           /\ sink \in [Secrets -> {"unused", "active", "revoked", "lost"}]
           /\ run \in [Runs -> Call]
  BY DEF ProvisioningInv, TypeOK, Contract, Call

\* What a call looks like that has a key, holds record x and is at step pc.
CallFits(c) ==
    c \in Call /\ (c.pc # "idle" =>
        /\ c.key \in Keys
        /\ Contract(c.cur)
        /\ c.pc = "recover" => c.cur.state = "failed"
        /\ c.pc = "decide" => c.cur.state = "awaiting-authority"
        /\ c.pc \in {"latest", "start"} => ~ Exists(c.cur)
        /\ c.pc \notin {"latest", "start"} => Exists(c.cur))

LEMMA CallsFit == ASSUME ProvisioningInv, NEW r \in Runs PROVE CallFits(run[r])
  BY TypeInvParts DEF ProvisioningInv, CallShape, CallFits

LEMMA IdleFits == CallFits(Idle)
  BY BlankTypes DEF CallFits, Idle

\* A step of one call keeps the invariant if the call fits afterwards and the
\* other variables keep their types.
LEMMA OneCallKeepsType ==
    ASSUME ProvisioningInv, NEW r \in Runs, NEW c, CallFits(c), run' = [run EXCEPT ![r] = c],
           plan' = plan, overlap' = overlap,
           now' \in Nat, requests' \in Nat, faults' \in Nat,
           rec' \in [Keys -> Record], \A k \in Keys : Contract(rec[k])',
           client' \in [exists : BOOLEAN, enabled : BOOLEAN, secret : Secrets \cup {None}],
           sink' \in [Secrets -> {"unused", "active", "revoked", "lost"}]
    PROVE  ProvisioningInv'
  <1>1. run' \in [Runs -> Call] /\ \A q \in Runs : CallFits(run'[q])
    BY TypeInvParts, CallsFit DEF CallFits
  <1>2. CallShape'
    BY <1>1 DEF CallFits, CallShape
  <1>3. TypeOK'
    BY <1>1, TypeInvParts DEF TypeOK, Contract, Call
  <1> QED BY <1>2, <1>3 DEF ProvisioningInv

\* How a call goes on from a save.
After(r, x, then) ==
    CASE then = "idle" -> Idle
      [] then = "resume" -> [run[r] EXCEPT !.pc = "execute", !.cur = x, !.prev = x]
      [] OTHER -> [run[r] EXCEPT !.pc = then, !.cur = x]

\* The save was refused,
Refused(r) == run' = [run EXCEPT ![r] = Idle] /\ rec' = rec /\ now' = now

\* or record x was stored at a new time.
Stored(r, x, then) ==
    /\ Saves(run[r].key, run[r].cur)
    /\ now' = x.updated /\ x.updated >= now
    /\ ~ Coarse => x.updated = now + 1
    /\ rec' = [rec EXCEPT ![run[r].key] = x]
    /\ run' = [run EXCEPT ![r] = After(r, x, then)]

At(next, t) == [next EXCEPT !.updated = t]

LEMMA SaveCases ==
    ASSUME NEW r \in Runs, NEW next \in Record, NEW then, now \in Nat, Save(r, next, then)
    PROVE  Refused(r) \/ \E t \in Nat : Stored(r, At(next, t), then)
  <1>1. CASE ~ Saves(run[r].key, run[r].cur)
    BY <1>1 DEF Save, Refused
  <1>2. CASE Saves(run[r].key, run[r].cur)
    <2>1. PICK t \in (IF Coarse THEN {now, now + 1} ELSE {now + 1}) :
             LET saved == [next EXCEPT !.updated = t]
             IN  /\ now' = t
                 /\ rec' = [rec EXCEPT ![run[r].key] = saved]
                 /\ run' = [run EXCEPT ![r] =
                      CASE then = "idle" -> Idle
                        [] then = "resume" -> [run[r] EXCEPT !.pc = "execute", !.cur = saved,
                                                             !.prev = saved]
                        [] OTHER -> [run[r] EXCEPT !.pc = then, !.cur = saved]]
      BY <1>2 DEF Save
    <2>2. t \in Nat /\ t >= now /\ (~ Coarse => t = now + 1)
      OBVIOUS
    <2>3. At(next, t).updated = t
      BY RecordType DEF At
    <2>4. Stored(r, At(next, t), then)
      BY <1>2, <2>1, <2>2, <2>3 DEF Stored, After, At
    <2> QED BY SMTT(30), <2>2, <2>4
  <1> QED BY <1>1, <1>2

\* A saved record keeps everything but its time.
LEMMA AtFields ==
    ASSUME NEW x \in Record, NEW t \in Nat
    PROVE  /\ At(x, t) \in Record /\ At(x, t).state = x.state /\ At(x, t).op = x.op
           /\ At(x, t).gate = x.gate /\ At(x, t).secret = x.secret /\ At(x, t).revoked = x.revoked
           /\ At(x, t).error = x.error /\ At(x, t).updated = t
           /\ Contract(x) => Contract(At(x, t))
           /\ Exists(x) => Exists(At(x, t))
  <1>1. /\ At(x, t) \in Record /\ At(x, t).state = x.state /\ At(x, t).op = x.op
        /\ At(x, t).gate = x.gate /\ At(x, t).secret = x.secret /\ At(x, t).revoked = x.revoked
        /\ At(x, t).error = x.error /\ At(x, t).updated = t
    BY RecordType DEF At
  <1> QED BY <1>1 DEF Contract, Exists

LEMMA AfterFits ==
    ASSUME NEW r \in Runs, CallFits(run[r]), run[r].pc # "idle",
           NEW x \in Record, Contract(x), Exists(x),
           NEW then \in {"idle", "resume", "execute", "find"}
    PROVE  CallFits(After(r, x, then))
  <1>1. CASE then = "idle"
    BY <1>1, IdleFits DEF After
  <1>2. CASE then = "resume"
    <2>1. After(r, x, then) = [run[r] EXCEPT !.pc = "execute", !.cur = x, !.prev = x]
      BY <1>2 DEF After
    <2> QED BY <2>1 DEF CallFits, Call, AdapterSteps
  <1>3. CASE then \in {"execute", "find"}
    <2>1. After(r, x, then) = [run[r] EXCEPT !.pc = then, !.cur = x]
      BY <1>3 DEF After
    <2> QED BY <1>3, <2>1 DEF CallFits, Call, AdapterSteps
  <1> QED BY <1>1, <1>2, <1>3

-----------------------------------------------------------------------------
(* What the steps have in common *)

\* Call r saves a record of the contract over the one it holds, and ends or goes
\* on.  It goes on with an operation that is not settled; only the record of a
\* gate found closed loses an approval; and no secret version is made up.
SaveBy(r, next, then) ==
    /\ run[r].pc # "idle" /\ Save(r, next, then)
    /\ next \in Record /\ Contract(next) /\ Exists(next)
    /\ then \in {"idle", "resume", "execute", "find"}
    /\ then # "idle" => /\ run[r].pc \in {"recover", "start", "decide", "execute"}
                        /\ ~ Settled(run[r].cur) => ~ Settled(next)
    /\ ~ Settled(run[r].cur) /\ next.state = "recovering" => next.error # "final"
    /\ then = "execute" => next.gate # "approved"
    /\ then = "find" => ~ plan.gated
    /\ Exists(run[r].cur) /\ run[r].cur.gate = "approved" /\ run[r].result # "awaiting-authority"
          => next.gate = "approved"
    /\ next.secret \in {None, run[r].cur.secret, run[r].prev.secret, run[r].secret}
    /\ UNCHANGED <<plan, overlap, client, sink, requests, faults>>

\* Call r, past its first save, becomes c without a save.
MoveBy(r, c) ==
    /\ run[r].pc \notin {"idle", "latest", "start"} /\ run' = [run EXCEPT ![r] = c]
    /\ c \in Call /\ c.key = run[r].key /\ c.op = run[r].op
    /\ c.cur = run[r].cur /\ c.prev = run[r].prev
    /\ c.pc \in AdapterSteps \cup {"apply", "throw"}
    /\ c.pc \in AdapterSteps =>
          run[r].pc \in AdapterSteps \/ (run[r].pc = "execute" /\ (plan.gated => GateOpen(r)))
    /\ c.result = "awaiting-authority" =>
          \/ run[r].result = "awaiting-authority" /\ run[r].pc # "apply"
          \/ c.pc = "apply" /\ run[r].pc = "execute" /\ ~ GateOpen(r)
    /\ StepFits(run[r]) => StepFits(c)
    /\ UNCHANGED <<plan, overlap, now, rec, requests>>

\* Meanwhile the provider and the secret manager stay, the client is written or
\* deleted, gets a new version, or an old one is revoked.
ProviderWrites(r, c) ==
    /\ run[r].pc = "write" /\ sink' = sink /\ c.secret = run[r].secret
    /\ \/ client' = NoClient
       \/ /\ client'.secret = IF client.exists THEN client.secret ELSE None
          /\ client'.exists
    /\ Replacing(c) => client' = NoClient

ProviderGenerates(r, c) ==
    \E s \in Secrets :
        /\ run[r].pc = "secret" /\ sink[s] = "unused" /\ client.exists
        /\ client'.exists = client.exists /\ client'.secret = s /\ c.secret = s
        /\ \E x \in {"active", "lost"} : sink' = [sink EXCEPT ![s] = x]

ProviderRevokes(r, c) ==
    /\ run[r].pc = "revoke" /\ c.pc = "apply" /\ c.secret = run[r].secret
    /\ sink' = [s \in Secrets |-> IF s = run[r].prev.secret /\ sink[s] = "active"
                                  THEN "revoked" ELSE sink[s]]
    /\ UNCHANGED client

ProviderStays(r, c) ==
    /\ UNCHANGED <<client, sink>>
    /\ c.secret = run[r].secret
    /\ StepFits(run[r]) /\ Replacing(c) => Replacing(run[r]) \/ ~ client.exists

\* The adapter's call makes one request.
AdapterBy(r, c) ==
    /\ MoveBy(r, c)
    /\ client' \in [exists : BOOLEAN, enabled : BOOLEAN, secret : Secrets \cup {None}]
    /\ sink' \in [Secrets -> {"unused", "active", "revoked", "lost"}] /\ faults' \in Nat
    /\ \/ ProviderStays(r, c) \/ ProviderWrites(r, c)
       \/ ProviderGenerates(r, c) \/ ProviderRevokes(r, c)

\* The call of r starts on the record of its key.
BeginBy(r, c) ==
    /\ run[r].pc = "idle" /\ run' = [run EXCEPT ![r] = c] /\ CallFits(c)
    /\ c.cur = rec[c.key] /\ c.prev \in {NoRec, rec[c.key]} /\ c.secret = None
    /\ RecordsFit => ~ Settled(c.cur)
    /\ c.pc \in {"latest", "recover", "execute", "decide"} /\ c.result = "none"
    /\ c.pc = "execute" => c.prev = c.cur
    /\ UNCHANGED <<plan, overlap, now, rec, client, sink, faults>> /\ requests' \in Nat

\* The call of r learns the client's latest record, or dies.
LearnBy(r, c) ==
    /\ run[r].pc = "latest" /\ run' = [run EXCEPT ![r] = c]
    /\ \E p \in Latest : c = [run[r] EXCEPT !.pc = "start", !.prev = p]
    /\ UNCHANGED <<plan, overlap, now, rec, client, sink, requests, faults>>

DieBy(r) ==
    /\ run' = [run EXCEPT ![r] = Idle] /\ faults' \in Nat
    /\ UNCHANGED <<plan, overlap, now, rec, client, sink, requests>>

LEMMA SaveByKeepsType ==
    ASSUME ProvisioningInv, NEW r \in Runs, NEW next, NEW then, SaveBy(r, next, then)
    PROVE  ProvisioningInv'
  <1> USE TypeInvParts DEF SaveBy
  <1>1. CASE Refused(r)
    BY <1>1, OneCallKeepsType, IdleFits DEF Refused
  <1>2. ASSUME NEW t \in Nat, Stored(r, At(next, t), then) PROVE ProvisioningInv'
    <2> DEFINE x == At(next, t)
               c == After(r, x, then)
    <2>1. x \in Record /\ Contract(x) /\ Exists(x)
      BY AtFields
    <2>1a. x.updated \in Nat
      BY <2>1, RecordType
    <2>2. CallFits(c)
      BY <2>1, AfterFits, CallsFit
    <2>3. /\ rec' = [rec EXCEPT ![run[r].key] = x] /\ run' = [run EXCEPT ![r] = c]
          /\ now' = x.updated
      BY <1>2 DEF Stored
    <2> HIDE DEF x, c
    <2>4. rec' \in [Keys -> Record] /\ \A k \in Keys : Contract(rec[k])'
      <3>1. rec' \in [Keys -> Record] /\ \A k \in Keys : rec'[k] = x \/ rec'[k] = rec[k]
        BY <2>1, <2>3
      <3> QED BY <2>1, <3>1 DEF Contract
    <2> QED BY <2>1a, <2>2, <2>3, <2>4, OneCallKeepsType
  <1> QED BY <1>1, <1>2, SaveCases


-----------------------------------------------------------------------------
(* Every step keeps the types *)

\* A step of one call on its own.
LEMMA CallOnlyKeepsType ==
    ASSUME ProvisioningInv, NEW r \in Runs, NEW c, CallFits(c), run' = [run EXCEPT ![r] = c],
           requests' \in Nat, faults' \in Nat,
           UNCHANGED <<plan, overlap, now, rec, client, sink>>
    PROVE  ProvisioningInv'
  BY OneCallKeepsType, TypeInvParts DEF Contract

\* A call that went past its first save and keeps its key, operation and record.
LEMMA MoveFits ==
    ASSUME NEW r \in Runs, CallFits(run[r]), run[r].pc \notin {"idle", "latest", "start"},
           NEW c \in Call, c.key = run[r].key, c.op = run[r].op, c.cur = run[r].cur,
           c.pc \notin {"recover", "decide", "latest", "start"}
    PROVE  CallFits(c)
  BY DEF CallFits

LEMMA AdapterByKeepsType ==
    ASSUME ProvisioningInv, NEW r \in Runs, NEW c, AdapterBy(r, c)
    PROVE  ProvisioningInv'
  <1>1. CallFits(c)
    BY MoveFits, CallsFit DEF AdapterBy, MoveBy, AdapterSteps
  <1> QED BY <1>1, OneCallKeepsType, TypeInvParts DEF AdapterBy, MoveBy

LEMMA BeginByKeepsType ==
    ASSUME ProvisioningInv, NEW r \in Runs, NEW c, BeginBy(r, c) PROVE ProvisioningInv'
  <1>1. faults' \in Nat
    BY TypeInvParts DEF BeginBy
  <1> QED BY <1>1, CallOnlyKeepsType DEF BeginBy

LEMMA LearnByKeepsType ==
    ASSUME ProvisioningInv, NEW r \in Runs, NEW c, LearnBy(r, c) PROVE ProvisioningInv'
  <1>1. PICK p \in Latest : c = [run[r] EXCEPT !.pc = "start", !.prev = p]
    BY DEF LearnBy
  <1>2. p \in Record
    BY TypeInvParts, BlankTypes DEF Latest
  <1>3. CallFits(run[r]) /\ run[r].pc = "latest"
    BY CallsFit DEF LearnBy
  <1>4. CallFits(c)
    BY <1>1, <1>2, <1>3 DEF CallFits, Call
  <1>5. requests' \in Nat /\ faults' \in Nat
    BY TypeInvParts DEF LearnBy
  <1> QED BY <1>4, <1>5, CallOnlyKeepsType DEF LearnBy

LEMMA DieByKeepsType ==
    ASSUME ProvisioningInv, NEW r \in Runs, DieBy(r) PROVE ProvisioningInv'
  <1>1. requests' \in Nat
    BY TypeInvParts DEF DieBy
  <1> QED BY <1>1, IdleFits, CallOnlyKeepsType DEF DieBy

-----------------------------------------------------------------------------
(* Every step is one of these *)

LEMMA BeginRunBegins ==
    ASSUME ProvisioningInv, NEW r \in Runs, NEW k \in Keys, NEW op \in Operations, BeginRun(r, k, op)
    PROVE  \E c : BeginBy(r, c)
  <1> DEFINE call == [Idle EXCEPT !.key = k, !.op = op, !.cur = rec[k]]
             c == IF ~ Exists(rec[k]) THEN [call EXCEPT !.pc = "latest"]
                  ELSE IF rec[k].state = "failed" THEN [call EXCEPT !.pc = "recover"]
                  ELSE [call EXCEPT !.pc = "execute", !.prev = rec[k]]
  <1>1. rec[k] \in Record /\ Contract(rec[k]) /\ NoRec \in Record
    BY TypeInvParts, BlankTypes
  <1>2. call \in Call /\ call.key = k /\ call.op = op /\ call.cur = rec[k] /\ call.pc = "idle"
        /\ call.prev = NoRec /\ call.secret = None /\ call.result = "none"
    BY <1>1, BlankTypes DEF Call, Idle
  <1>3. /\ run' = [run EXCEPT ![r] = c] /\ requests' = requests + 1
        /\ run[r].pc = "idle"
        /\ Exists(rec[k]) => ~ Returns(rec[k])
        /\ UNCHANGED <<plan, overlap, now, rec, client, sink, faults>>
    BY DEF BeginRun, call, MayBegin
  <1> HIDE DEF call
  <1>4. CallFits(c)
    BY <1>1, <1>2 DEF CallFits, Call, Exists
  <1>5. /\ c.key = k /\ c.cur = rec[k] /\ c.prev \in {NoRec, rec[k]} /\ c.secret = None
        /\ c.pc \in {"latest", "recover", "execute"} /\ c.result = "none"
        /\ c.pc = "execute" => c.prev = c.cur
    BY <1>2 DEF Call
  <1>6. RecordsFit => ~ Settled(rec[k])
    <2>1. CASE ~ Exists(rec[k])
      BY <2>1 DEF RecordsFit, Settled, NoRec
    <2>2. CASE Exists(rec[k])
      BY <1>1, <1>3, <2>2 DEF RecordsFit, Settled, Returns, Contract
    <2> QED BY <2>1, <2>2
  <1>7. requests' \in Nat
    BY <1>3, TypeInvParts
  <1> HIDE DEF c
  <1>8. BeginBy(r, c)
    BY <1>3, <1>4, <1>5, <1>6, <1>7 DEF BeginBy
  <1> QED BY <1>8

LEMMA BeginDecisionBegins ==
    ASSUME ProvisioningInv, NEW r \in Runs, NEW k \in Keys, BeginDecision(r, k)
    PROVE  \E c : BeginBy(r, c)
  <1> DEFINE c == [Idle EXCEPT !.pc = "decide", !.key = k, !.op = rec[k].op, !.cur = rec[k]]
  <1>1. rec[k] \in Record /\ Contract(rec[k]) /\ rec[k].state = "awaiting-authority"
        /\ NoRec \in Record
    BY TypeInvParts, BlankTypes DEF BeginDecision
  <1>2. rec[k].op \in Operations \cup {None}
    BY <1>1, RecordType
  <1>3. c \in Call /\ c.key = k /\ c.cur = rec[k] /\ c.pc = "decide"
        /\ c.prev = NoRec /\ c.secret = None /\ c.result = "none"
    BY <1>1, <1>2, BlankTypes DEF Call, Idle
  <1>4. /\ run' = [run EXCEPT ![r] = c] /\ requests' = requests + 1 /\ run[r].pc = "idle"
        /\ UNCHANGED <<plan, overlap, now, rec, client, sink, faults>>
    BY DEF BeginDecision, MayBegin
  <1> HIDE DEF c
  <1>5. CallFits(c) /\ ~ Settled(c.cur)
    BY <1>1, <1>3 DEF CallFits, Exists, Settled, Contract
  <1>6. requests' \in Nat
    BY <1>4, TypeInvParts
  <1>7. BeginBy(r, c)
    BY <1>3, <1>4, <1>5, <1>6 DEF BeginBy
  <1> QED BY <1>7

LEMMA ReadLatestLearns ==
    ASSUME NEW r \in Runs, ReadLatest(r) PROVE \E c : LearnBy(r, c)
  <1>1. PICK p \in Latest : run' = [run EXCEPT ![r].pc = "start", ![r].prev = p]
    BY DEF ReadLatest
  <1> DEFINE c == [run[r] EXCEPT !.pc = "start", !.prev = p]
  <1>2. run' = [run EXCEPT ![r] = c]
    BY <1>1
  <1>3. LearnBy(r, c)
    BY <1>2 DEF LearnBy, ReadLatest
  <1> QED BY <1>3

LEMMA StartSaves ==
    ASSUME ProvisioningInv, NEW r \in Runs, Start(r)
    PROVE  \E next, then : SaveBy(r, next, then)
  <1>1. CallFits(run[r]) /\ run[r].pc = "start"
    BY CallsFit DEF Start
  <1> DEFINE first == [NoRec EXCEPT !.op = run[r].op]
             refused == [first EXCEPT !.state = "failed", !.error = "final"]
             begun == [first EXCEPT !.state = "preflight",
                           !.secret = IF run[r].op = "create" THEN None ELSE run[r].prev.secret,
                           !.revoked = run[r].op # "create" /\ run[r].prev.revoked]
  <1>2. refused \in Record /\ begun \in Record
    <2>1. run[r].op \in Operations \cup {None} /\ run[r].prev \in Record
      BY <1>1 DEF CallFits, Call
    <2>2. first \in Record
      BY <2>1, RecordType, BlankTypes
    <2>3. (IF run[r].op = "create" THEN None ELSE run[r].prev.secret) \in Secrets \cup {None}
      BY <2>1, RecordType
    <2>4. (run[r].op # "create" /\ run[r].prev.revoked) \in BOOLEAN
      BY Zenon
    <2> HIDE DEF first
    <2> QED BY <2>2, <2>3, <2>4, RecordType DEF States
  <1>3. /\ refused.state = "failed" /\ refused.error = "final" /\ refused.secret = None
        /\ begun.state = "preflight" /\ begun.error = "none" /\ begun.gate = "none"
        /\ begun.secret \in {None, run[r].prev.secret}
    BY DEF NoRec
  <1>4. Save(r, refused, "idle") \/ Save(r, begun, "execute")
    BY DEF Start
  <1>5. UNCHANGED <<plan, overlap, client, sink, requests, faults>> /\ ~ Exists(run[r].cur)
    BY <1>1 DEF Start, CallFits
  <1> HIDE DEF refused, begun
  <1>6. /\ Contract(refused) /\ Exists(refused) /\ Contract(begun) /\ Exists(begun)
        /\ ~ Settled(begun)
    BY <1>3 DEF Contract, Exists, Settled
  <1>7. SaveBy(r, refused, "idle") \/ SaveBy(r, begun, "execute")
    BY <1>1, <1>2, <1>3, <1>4, <1>5, <1>6 DEF SaveBy
  <1> QED BY <1>7

\* Record x in another state and with another error.
Turned(x, state, error) == [x EXCEPT !.state = state, !.error = error]

LEMMA TurnedType ==
    ASSUME NEW x \in Record, NEW state \in States, NEW error \in {"none", "retryable", "final"}
    PROVE  /\ Turned(x, state, error) \in Record
           /\ Turned(x, state, error).state = state /\ Turned(x, state, error).error = error
           /\ Turned(x, state, error).gate = x.gate /\ Turned(x, state, error).secret = x.secret
           /\ Turned(x, state, error).revoked = x.revoked
           /\ Exists(Turned(x, state, error))
  BY RecordType DEF Turned, States, Exists

LEMMA RecoverSaves ==
    ASSUME ProvisioningInv, NEW r \in Runs, Recover(r)
    PROVE  \E next, then : SaveBy(r, next, then)
  <1> DEFINE next == [run[r].cur EXCEPT !.state = "recovering"]
  <1>1. run[r].cur \in Record /\ Contract(run[r].cur) /\ run[r].cur.state = "failed"
        /\ run[r].pc = "recover"
    BY CallsFit DEF Recover, CallFits, Call
  <1>2. next \in Record /\ next.state = "recovering" /\ next.error = run[r].cur.error
        /\ next.gate = run[r].cur.gate /\ next.secret = run[r].cur.secret
    BY <1>1, RecordType DEF States
  <1>3. Save(r, next, "resume") /\ UNCHANGED <<plan, overlap, client, sink, requests, faults>>
    BY DEF Recover
  <1> HIDE DEF next
  <1>4. /\ Contract(next) /\ Exists(next)
        /\ ~ Settled(run[r].cur) => ~ Settled(next) /\ next.error # "final"
    BY <1>1, <1>2 DEF Contract, Exists, Settled
  <1>5. SaveBy(r, next, "resume")
    BY <1>1, <1>2, <1>3, <1>4 DEF SaveBy
  <1> QED BY <1>5

LEMMA DecideSaves ==
    ASSUME ProvisioningInv, NEW r \in Runs, NEW decision \in Decisions, Decide(r, decision)
    PROVE  \E next, then : SaveBy(r, next, then)
  <1> DEFINE decided == [run[r].cur EXCEPT !.gate = decision]
             go == [decided EXCEPT !.state = "provisioning"]
             stop == [decided EXCEPT !.state = "failed",
                         !.error = IF decision = "denied" THEN "final" ELSE "retryable"]
  <1>1. run[r].cur \in Record /\ Contract(run[r].cur) /\ run[r].cur.state = "awaiting-authority"
        /\ run[r].pc = "decide"
    BY CallsFit DEF Decide, CallFits, Call
  <1>2. /\ go \in Record /\ go.state = "provisioning" /\ go.error = run[r].cur.error
        /\ stop \in Record /\ stop.state = "failed" /\ stop.error \in {"final", "retryable"}
        /\ go.secret = run[r].cur.secret /\ stop.secret = run[r].cur.secret
    BY <1>1, RecordType DEF States
  <1>3. Save(r, go, "resume") \/ Save(r, stop, "idle")
    BY DEF Decide
  <1>4. UNCHANGED <<plan, overlap, client, sink, requests, faults>>
    BY DEF Decide
  <1> HIDE DEF go, stop
  <1>5. /\ Contract(go) /\ Exists(go) /\ Contract(stop) /\ Exists(stop) /\ ~ Settled(go)
        /\ run[r].cur.gate # "approved"
    BY <1>1, <1>2 DEF Contract, Exists, Settled
  <1>6. SaveBy(r, go, "resume") \/ SaveBy(r, stop, "idle")
    BY <1>1, <1>2, <1>3, <1>4, <1>5 DEF SaveBy
  <1> QED BY <1>6

LEMMA RejectDecisionSaves ==
    ASSUME ProvisioningInv, NEW r \in Runs, RejectDecision(r)
    PROVE  \E next, then : SaveBy(r, next, then)
  <1>1. run[r].cur \in Record /\ Contract(run[r].cur) /\ run[r].cur.state = "awaiting-authority"
        /\ run[r].pc = "decide"
    BY CallsFit DEF RejectDecision, CallFits, Call
  <1>2. SaveBy(r, run[r].cur, "idle")
    BY <1>1 DEF RejectDecision, SaveBy, Exists
  <1> QED BY <1>2

LEMMA ExecuteSavesOrMoves ==
    ASSUME ProvisioningInv, NEW r \in Runs, Execute(r)
    PROVE  \/ \E next, then : SaveBy(r, next, then)
           \/ \E c : AdapterBy(r, c)
  <1>1. run[r].cur \in Record /\ Contract(run[r].cur) /\ run[r].pc = "execute" /\ run[r] \in Call
    BY CallsFit DEF Execute, CallFits, Call
  <1>2. CASE run[r].cur.state = "preflight" /\ ~ plan.gated
    <2> DEFINE next == [run[r].cur EXCEPT !.state = "provisioning"]
    <2>1. next \in Record /\ next.state = "provisioning" /\ next.error = run[r].cur.error
          /\ next.gate = run[r].cur.gate /\ next.secret = run[r].cur.secret
      BY <1>1, RecordType DEF States
    <2>2. Save(r, next, "find") /\ UNCHANGED <<plan, overlap, client, sink, requests, faults>>
      BY <1>2 DEF Execute
    <2> HIDE DEF next
    <2>3. Contract(next) /\ Exists(next) /\ (~ Settled(run[r].cur) => ~ Settled(next))
      BY <1>1, <1>2, <2>1 DEF Contract, Exists, Settled
    <2>4. SaveBy(r, next, "find")
      BY <1>1, <1>2, <2>1, <2>2, <2>3 DEF SaveBy
    <2> QED BY <2>4
  <1>3. CASE ~ (run[r].cur.state = "preflight" /\ ~ plan.gated)
    <2> DEFINE c == IF plan.gated /\ ~ GateOpen(r)
                    THEN [run[r] EXCEPT !.pc = "apply", !.result = "awaiting-authority"]
                    ELSE [run[r] EXCEPT !.pc = "find"]
    <2>1. /\ c \in Call /\ c.key = run[r].key /\ c.op = run[r].op /\ c.cur = run[r].cur
          /\ c.prev = run[r].prev /\ c.secret = run[r].secret
          /\ \/ plan.gated /\ ~ GateOpen(r) /\ c.pc = "apply"
             \/ (plan.gated => GateOpen(r)) /\ c.pc = "find" /\ c.result = run[r].result
      BY <1>1 DEF Call, AdapterSteps
    <2>2. /\ run' = [run EXCEPT ![r] = c]
          /\ UNCHANGED <<plan, overlap, now, rec, client, sink, requests, faults>>
      BY <1>3 DEF Execute
    <2> HIDE DEF c
    <2>3. MoveBy(r, c)
      BY <1>1, <2>1, <2>2 DEF MoveBy, AdapterSteps, StepFits
    <2>4. ProviderStays(r, c)
      BY <2>1, <2>2 DEF ProviderStays, Replacing
    <2>5. AdapterBy(r, c)
      BY <2>2, <2>3, <2>4, TypeInvParts DEF AdapterBy
    <2> QED BY <2>5
  <1> QED BY <1>2, <1>3

LEMMA FindMoves ==
    ASSUME ProvisioningInv, NEW r \in Runs, Find(r) PROVE \E c : AdapterBy(r, c)
  <1> DEFINE pc == IF ~ client.exists
                   THEN CASE run[r].op = "create" -> "write"
                          [] run[r].op = "retire" -> "revoke"
                          [] OTHER -> "throw"
                   ELSE CASE run[r].op = "create" /\ ~ Exists(run[r].prev) -> "throw"
                          [] run[r].op = "validate" -> "observe"
                          [] run[r].op = "rotate" -> IF ~ plan.confidential THEN "observe"
                                                     ELSE IF Active(run[r].prev) THEN "secret"
                                                     ELSE "throw"
                          [] OTHER -> "write"
             c == [run[r] EXCEPT !.before = client.exists, !.enabled = client.enabled, !.pc = pc]
  <1>1. run[r] \in Call /\ client.exists \in BOOLEAN /\ client.enabled \in BOOLEAN
    BY TypeInvParts
  <1>2. run' = [run EXCEPT ![r] = c] /\ UNCHANGED Reads /\ run[r].pc = "find"
    BY DEF Find
  <1>3. /\ pc \in {"write", "revoke", "throw", "observe", "secret"}
        /\ pc = "write" => run[r].op \notin {"rotate", "validate"}
        /\ pc = "observe" => run[r].op = "validate" \/ ~ plan.confidential
        /\ pc = "revoke" => ~ client.exists
    OBVIOUS
  <1> HIDE DEF pc
  <1>4. /\ c \in Call /\ c.key = run[r].key /\ c.op = run[r].op /\ c.cur = run[r].cur /\ c.pc = pc
        /\ c.prev = run[r].prev /\ c.secret = run[r].secret /\ c.result = run[r].result
    BY ZenonT(40), <1>1, <1>3 DEF Call, AdapterSteps
  <1> HIDE DEF c
  <1>5. StepFits(run[r]) => run[r].secret = None /\ StepFits(c)
    BY <1>2, <1>3, <1>4 DEF StepFits
  <1>6. MoveBy(r, c)
    BY <1>2, <1>3, <1>4, <1>5 DEF MoveBy, AdapterSteps, Reads
  <1>7. ProviderStays(r, c)
    BY <1>2, <1>3, <1>4, <1>5 DEF ProviderStays, Replacing, Reads
  <1>8. AdapterBy(r, c)
    BY <1>2, <1>6, <1>7, TypeInvParts DEF AdapterBy, Reads
  <1> QED BY <1>8

LEMMA RereadMoves ==
    ASSUME ProvisioningInv, NEW r \in Runs, Reread(r) PROVE \E c : AdapterBy(r, c)
  <1> DEFINE pc == IF ~ client.exists THEN "throw"
                   ELSE CASE run[r].op = "create" /\ plan.confidential -> "secret"
                          [] run[r].op = "reconcile" /\ plan.confidential
                               /\ run[r].prev.secret = None -> "throw"
                          [] OTHER -> "observe"
             c == [run[r] EXCEPT !.enabled = client.enabled, !.pc = pc]
  <1>1. run[r] \in Call /\ client.enabled \in BOOLEAN
    BY TypeInvParts
  <1>2. run' = [run EXCEPT ![r] = c] /\ UNCHANGED Reads /\ run[r].pc = "reread"
    BY DEF Reread
  <1>3. pc \in {"throw", "observe", "secret"}
    OBVIOUS
  <1> HIDE DEF pc
  <1>4. /\ c \in Call /\ c.key = run[r].key /\ c.op = run[r].op /\ c.cur = run[r].cur /\ c.pc = pc
        /\ c.prev = run[r].prev /\ c.secret = run[r].secret /\ c.result = run[r].result
    BY <1>1, <1>3 DEF Call, AdapterSteps
  <1> HIDE DEF c
  <1>5. StepFits(run[r]) => run[r].secret = None /\ StepFits(c)
    BY <1>2, <1>3, <1>4 DEF StepFits
  <1>6. MoveBy(r, c)
    BY <1>2, <1>3, <1>4, <1>5 DEF MoveBy, AdapterSteps, Reads
  <1>7. ProviderStays(r, c)
    BY <1>2, <1>3, <1>4, <1>5 DEF ProviderStays, Replacing, Reads
  <1>8. AdapterBy(r, c)
    BY <1>2, <1>6, <1>7, TypeInvParts DEF AdapterBy, Reads
  <1> QED BY <1>8

LEMMA ObserveMoves ==
    ASSUME ProvisioningInv, NEW r \in Runs, NEW intact \in BOOLEAN, Observe(r, intact)
    PROVE  \E c : AdapterBy(r, c)
  <1> DEFINE verified == Verified(r) /\ intact
             rotated == run[r].op = "rotate" /\ plan.confidential
             result == IF run[r].op = "disable" THEN "disabled" ELSE "validating"
             pc == IF \/ plan.confidential /\ ~ client.exists
                      \/ rotated /\ ~ (verified /\ run[r].enabled)
                   THEN "throw" ELSE IF rotated THEN "revoke" ELSE "apply"
             c == [run[r] EXCEPT !.verified = verified, !.result = result, !.pc = pc]
  <1>1. run[r] \in Call
    BY TypeInvParts
  <1>2. run' = [run EXCEPT ![r] = c] /\ UNCHANGED Reads /\ run[r].pc = "observe"
    BY DEF Observe
  <1>3. /\ pc \in {"throw", "revoke", "apply"} /\ result \in {"disabled", "validating"}
        /\ pc = "revoke" => run[r].op = "rotate" /\ plan.confidential
    OBVIOUS
  <1>4. verified \in BOOLEAN
    BY Zenon
  <1> HIDE DEF pc, result, verified
  <1>5. /\ c.key = run[r].key /\ c.op = run[r].op /\ c.cur = run[r].cur /\ c.pc = pc
        /\ c.prev = run[r].prev /\ c.secret = run[r].secret /\ c.result = result
    BY <1>1 DEF Call
  <1>6. c \in Call
    BY ZenonT(40), <1>1, <1>3, <1>4 DEF Call, AdapterSteps
  <1> HIDE DEF c
  <1>7. StepFits(c) /\ (StepFits(run[r]) /\ c.pc = "revoke" => Replacing(run[r]))
    BY <1>2, <1>3, <1>5 DEF StepFits, Replacing
  <1>8. MoveBy(r, c)
    BY <1>2, <1>3, <1>5, <1>6, <1>7 DEF MoveBy, AdapterSteps, Reads
  <1>9. ProviderStays(r, c)
    BY <1>2, <1>3, <1>5, <1>7 DEF ProviderStays, Replacing, Reads
  <1>10. AdapterBy(r, c)
    BY <1>2, <1>8, <1>9, TypeInvParts DEF AdapterBy, Reads
  <1> QED BY <1>10

\* A request that fails, or finds the client come or gone.
LEMMA GivesUpMoves ==
    ASSUME ProvisioningInv, NEW r \in Runs, Goto(r, "throw"), faults' \in Nat,
           run[r].pc \in AdapterSteps \cup {"apply"},
           run[r].result = "awaiting-authority" => run[r].pc # "apply",
           UNCHANGED <<plan, overlap, now, rec, client, sink, requests>>
    PROVE  \E c : AdapterBy(r, c)
  <1> DEFINE c == [run[r] EXCEPT !.pc = "throw"]
  <1>1. run[r] \in Call /\ run' = [run EXCEPT ![r] = c]
    BY TypeInvParts DEF Goto
  <1>2. /\ c \in Call /\ c.key = run[r].key /\ c.op = run[r].op /\ c.cur = run[r].cur
        /\ c.prev = run[r].prev /\ c.secret = run[r].secret /\ c.result = run[r].result
        /\ c.pc = "throw"
    BY <1>1 DEF Call
  <1> HIDE DEF c
  <1>3. MoveBy(r, c)
    BY <1>1, <1>2 DEF MoveBy, AdapterSteps, StepFits
  <1>4. ProviderStays(r, c)
    BY <1>2 DEF ProviderStays, Replacing
  <1>5. AdapterBy(r, c)
    BY <1>3, <1>4, TypeInvParts DEF AdapterBy
  <1> QED BY <1>5

LEMMA RequestFailsMoves ==
    ASSUME ProvisioningInv, NEW r \in Runs, RequestFails(r) PROVE \E c : AdapterBy(r, c)
  <1>1. faults' \in Nat
    BY TypeInvParts DEF RequestFails
  <1> QED BY <1>1, GivesUpMoves DEF RequestFails

LEMMA WriteMoves ==
    ASSUME ProvisioningInv, NEW r \in Runs, Write(r) PROVE \E c : AdapterBy(r, c)
  <1> DEFINE ClientType == [exists : BOOLEAN, enabled : BOOLEAN, secret : Secrets \cup {None}]
             retired == run[r].op = "retire"
             c == [run[r] EXCEPT !.pc = IF retired THEN "revoke" ELSE "reread"]
  <1>1. /\ run[r] \in Call /\ client \in ClientType /\ NoClient \in ClientType
        /\ run[r].pc = "write" /\ faults' \in Nat
        /\ UNCHANGED <<plan, overlap, now, rec, sink, requests, faults>>
    BY TypeInvParts DEF NoClient, Write
  <1>2. CASE client.exists # run[r].before
    BY <1>1, <1>2, GivesUpMoves DEF Write, AdapterSteps
  <1>3. CASE client.exists = run[r].before
    <2>1. /\ run' = [run EXCEPT ![r] = c]
          /\ client' = IF retired THEN NoClient
                       ELSE IF client.exists THEN [client EXCEPT !.enabled = (run[r].op # "disable")]
                       ELSE [NoClient EXCEPT !.exists = TRUE, !.enabled = TRUE]
      BY <1>3 DEF Write, Goto
    <2>2. /\ client' \in ClientType
          /\ client' = NoClient \/ (/\ client'.secret = IF client.exists THEN client.secret ELSE None
                                    /\ client'.exists)
          /\ retired => client' = NoClient
      <3>1. [NoClient EXCEPT !.exists = TRUE, !.enabled = TRUE] \in ClientType
        BY <1>1
      <3>2. ASSUME NEW b \in BOOLEAN PROVE [client EXCEPT !.enabled = b] \in ClientType
        BY <1>1
      <3>3. (run[r].op # "disable") \in BOOLEAN
        OBVIOUS
      <3>4. client' \in ClientType
        <4> HIDE DEF ClientType
        <4> QED BY <1>1, <2>1, <3>1, <3>2, <3>3
      <3>5. CASE retired
        BY <2>1, <3>4, <3>5
      <3>6. CASE ~ retired /\ client.exists
        BY <1>1, <2>1, <3>4, <3>6
      <3>7. CASE ~ retired /\ ~ client.exists
        BY <2>1, <3>4, <3>7 DEF NoClient
      <3> QED BY <3>5, <3>6, <3>7
    <2>3. /\ c \in Call /\ c.key = run[r].key /\ c.op = run[r].op /\ c.cur = run[r].cur
          /\ c.prev = run[r].prev /\ c.secret = run[r].secret /\ c.result = run[r].result
          /\ c.pc = IF retired THEN "revoke" ELSE "reread"
      BY <1>1 DEF Call, AdapterSteps
    <2> HIDE DEF c, ClientType
    <2>4. StepFits(run[r]) => StepFits(c)
      BY <1>1, <2>3 DEF StepFits
    <2>5. MoveBy(r, c)
      BY <1>1, <2>1, <2>3, <2>4 DEF MoveBy, AdapterSteps
    <2>6. ProviderWrites(r, c)
      BY <1>1, <2>2, <2>3 DEF ProviderWrites, Replacing
    <2>7. AdapterBy(r, c)
      BY <1>1, <2>2, <2>5, <2>6, TypeInvParts DEF AdapterBy, ClientType
    <2> QED BY <2>7
  <1> QED BY <1>2, <1>3

LEMMA GenerateSecretMoves ==
    ASSUME ProvisioningInv, NEW r \in Runs, NEW s \in Secrets, NEW stored \in BOOLEAN,
           GenerateSecret(r, s, stored)
    PROVE  \E c : AdapterBy(r, c)
  <1> DEFINE c == [run[r] EXCEPT !.secret = s, !.pc = IF stored THEN "observe" ELSE "throw"]
  <1>1. /\ run[r] \in Call /\ run[r].pc = "secret" /\ sink[s] = "unused" /\ s # None
        /\ UNCHANGED <<plan, overlap, now, rec, requests>>
    BY TypeInvParts, ProvisioningConstants DEF GenerateSecret, Secrets
  <1>2. CASE client.exists
    <2>1. /\ run' = [run EXCEPT ![r] = c] /\ client' = [client EXCEPT !.secret = s]
          /\ sink' = [sink EXCEPT ![s] = IF stored THEN "active" ELSE "lost"]
          /\ faults' = IF stored THEN faults ELSE faults + 1
      BY <1>2 DEF GenerateSecret
    <2>2. /\ c \in Call /\ c.key = run[r].key /\ c.op = run[r].op /\ c.cur = run[r].cur
          /\ c.prev = run[r].prev /\ c.secret = s /\ c.result = run[r].result
          /\ c.pc \in {"observe", "throw"}
      BY <1>1 DEF Call, AdapterSteps
    <2> HIDE DEF c
    <2>3. /\ client' \in [exists : BOOLEAN, enabled : BOOLEAN, secret : Secrets \cup {None}]
          /\ sink' \in [Secrets -> {"unused", "active", "revoked", "lost"}]
          /\ faults' \in Nat /\ client'.exists = client.exists /\ client'.secret = s
      BY <2>1, TypeInvParts
    <2>4. MoveBy(r, c)
      BY <1>1, <2>1, <2>2 DEF MoveBy, AdapterSteps, StepFits
    <2>5. ProviderGenerates(r, c)
      BY <1>1, <1>2, <2>1, <2>2, <2>3 DEF ProviderGenerates
    <2>6. AdapterBy(r, c)
      BY <2>3, <2>4, <2>5 DEF AdapterBy
    <2> QED BY <2>6
  <1>3. CASE ~ client.exists
    <2>1. Goto(r, "throw") /\ UNCHANGED <<client, sink, faults>> /\ faults' \in Nat
      BY <1>3, TypeInvParts DEF GenerateSecret
    <2> QED BY <1>1, <2>1, GivesUpMoves DEF AdapterSteps
  <1> QED BY <1>2, <1>3

LEMMA RevokeMoves ==
    ASSUME ProvisioningInv, NEW r \in Runs, Revoke(r) PROVE \E c : AdapterBy(r, c)
  <1> DEFINE c == [run[r] EXCEPT !.pc = "apply",
                       !.result = IF run[r].op = "retire" THEN "retired" ELSE run[r].result]
  <1>1. /\ run[r] \in Call /\ run[r].pc = "revoke" /\ run' = [run EXCEPT ![r] = c]
        /\ sink' = [s \in Secrets |-> IF s = run[r].prev.secret /\ sink[s] = "active"
                                      THEN "revoked" ELSE sink[s]]
        /\ UNCHANGED <<plan, overlap, now, rec, client, requests, faults>>
    BY TypeInvParts DEF Revoke, Superseded
  <1>2. /\ c \in Call /\ c.key = run[r].key /\ c.op = run[r].op /\ c.cur = run[r].cur
        /\ c.prev = run[r].prev /\ c.secret = run[r].secret /\ c.pc = "apply"
        /\ c.result \in {"retired", run[r].result}
    BY <1>1 DEF Call
  <1>3. sink' \in [Secrets -> {"unused", "active", "revoked", "lost"}]
    BY <1>1, TypeInvParts
  <1> HIDE DEF c
  <1>4. MoveBy(r, c)
    BY <1>1, <1>2 DEF MoveBy, AdapterSteps, StepFits
  <1>5. ProviderRevokes(r, c)
    BY <1>1, <1>2 DEF ProviderRevokes
  <1>6. AdapterBy(r, c)
    BY <1>1, <1>3, <1>4, <1>5, TypeInvParts DEF AdapterBy
  <1> QED BY <1>6

LEMMA ThrowSaves ==
    ASSUME ProvisioningInv, NEW r \in Runs, Throw(r)
    PROVE  \E next, then : SaveBy(r, next, then)
  <1> DEFINE next == Turned(run[r].cur, "failed", "retryable")
  <1>1. /\ run[r] \in Call /\ run[r].pc = "throw" /\ Save(r, next, "idle")
        /\ UNCHANGED <<plan, overlap, client, sink, requests, faults>>
    BY TypeInvParts DEF Throw, Turned
  <1>2. /\ next \in Record /\ next.state = "failed" /\ next.error = "retryable" /\ Exists(next)
        /\ next.gate = run[r].cur.gate /\ next.secret = run[r].cur.secret
    BY <1>1, TurnedType DEF Call, States
  <1> HIDE DEF next
  <1>3. Contract(next)
    BY <1>2 DEF Contract
  <1>4. SaveBy(r, next, "idle")
    BY <1>1, <1>2, <1>3 DEF SaveBy
  <1> QED BY <1>4

\* What may be saved of a result: a record of the contract that keeps an approval
\* and names no new version but the call's own.
Follows(r, x) ==
    /\ x \in Record /\ Contract(x) /\ Exists(x) /\ x.state # "recovering"
    /\ run[r].cur.gate = "approved" /\ run[r].result # "awaiting-authority" => x.gate = "approved"
    /\ x.secret \in {run[r].cur.secret, run[r].prev.secret, run[r].secret}

LEMMA AppliedFollows ==
    ASSUME NEW r \in Runs, run[r] \in Call, Contract(run[r].cur), Exists(run[r].cur)
    PROVE  Follows(r, Applied(r))
  <1> DEFINE cur == run[r].cur
             next == [cur EXCEPT !.state = run[r].result, !.error = "none",
                        !.secret = SecretAfter(r),
                        !.revoked = run[r].result = "retired" \/ (run[r].secret = None /\ cur.revoked),
                        !.gate = IF cur.gate = "approved" THEN "approved" ELSE "none"]
             final == [cur EXCEPT !.state = "failed", !.error = "final"]
             pending == [next EXCEPT !.gate = "pending"]
             ready == [next EXCEPT !.state = "ready"]
             retry == [next EXCEPT !.state = "failed", !.error = "retryable"]
  <1>0. Applied(r) =
          IF run[r].result \notin Transitions[cur.state] THEN final
          ELSE CASE run[r].result = "awaiting-authority" -> pending
                 [] run[r].result = "disabled" -> next
                 [] run[r].result = "retired" -> IF RetiredIsValid(next) THEN next ELSE final
                 [] OTHER -> IF Ready(r, next) THEN ready ELSE retry
    BY DEF Applied
  <1> HIDE DEF next
  <1>1. final \in Record /\ final.state = "failed" /\ final.error = "final"
        /\ final.gate = cur.gate /\ final.secret = cur.secret
    BY RecordType DEF Call, States
  <1>2. CASE run[r].result \notin Transitions[cur.state]
    <2> HIDE DEF final, pending, ready, retry
    <2>1. Applied(r) = final
      BY <1>0, <1>2
    <2> QED BY <1>1, <2>1 DEF Follows, Contract, Exists
  <1>3. CASE run[r].result \in Transitions[cur.state]
    <2>1. cur \in Record /\ run[r].prev \in Record
      BY DEF Call
    <2>2. cur.state \in States
      BY <2>1, RecordType DEF Exists
    <2>3. run[r].result # "none"
      BY <1>3, <2>2 DEF Transitions, States
    <2>4. /\ SecretAfter(r) \in Secrets \cup {None}
          /\ SecretAfter(r) \in {cur.secret, run[r].prev.secret, run[r].secret}
      BY <2>1, RecordType DEF SecretAfter, Call
    <2>5. (run[r].result = "retired" \/ (run[r].secret = None /\ cur.revoked)) \in BOOLEAN
      BY Zenon
    <2> DEFINE revoked == run[r].result = "retired" \/ (run[r].secret = None /\ cur.revoked)
               Bare(state, error, gate) ==
                 [cur EXCEPT !.state = state, !.error = error, !.secret = SecretAfter(r),
                             !.revoked = revoked, !.gate = gate]
    <2> HIDE DEF revoked
    <2>6. ASSUME NEW state \in States, NEW error \in {"none", "retryable", "final"},
                 NEW gate \in {"none", "pending"} \cup Decisions
          PROVE  LET x == Bare(state, error, gate)
                 IN  /\ x \in Record /\ x.state = state /\ x.error = error /\ x.gate = gate
                     /\ x.secret = SecretAfter(r) /\ x.revoked = revoked
      <3>1. revoked \in BOOLEAN
        BY <2>5 DEF revoked
      <3> QED BY ZenonT(40), <2>1, <2>4, <3>1, RecordType DEF States
    <2> DEFINE gate == IF cur.gate = "approved" THEN "approved" ELSE "none"
    <2>7. gate \in {"none", "pending"} \cup Decisions
      BY DEF Decisions
    <2>8. next = Bare(run[r].result, "none", gate)
      BY DEF revoked, next
    <2>9. CASE run[r].result = "awaiting-authority"
      <3>1. Applied(r) = Bare("awaiting-authority", "none", "pending")
        <4>1. Applied(r) = pending
          BY <1>0, <1>3, <2>9
        <4>2. pending = Bare("awaiting-authority", "none", "pending")
          BY <2>1, <2>8, <2>9, RecordType
        <4> QED BY <4>1, <4>2
      <3> HIDE DEF Bare
      <3> QED BY <2>4, <2>6, <2>9, <3>1 DEF Follows, States, Contract, Exists
    <2>10. CASE run[r].result = "disabled"
      <3>1. Applied(r) = Bare("disabled", "none", gate)
        BY <1>0, <1>3, <2>8, <2>10
      <3> HIDE DEF Bare
      <3> QED BY <2>4, <2>6, <2>7, <3>1 DEF Follows, States, Contract, Exists
    <2>11. CASE run[r].result = "retired"
      <3>1. Applied(r) = IF RetiredIsValid(next) THEN next ELSE final
        BY <1>0, <1>3, <2>11
      <3>2. CASE RetiredIsValid(next)
        <4>1. Applied(r) = Bare("retired", "none", gate) /\ RetiredIsValid(Applied(r))
          BY <2>8, <2>11, <3>1, <3>2
        <4> HIDE DEF Bare
        <4> QED BY <2>4, <2>6, <2>7, <4>1 DEF Follows, States, Contract, Exists, RetiredIsValid
      <3>3. CASE ~ RetiredIsValid(next)
        <4>1. Applied(r) = final
          BY <3>1, <3>3
        <4> HIDE DEF final
        <4> QED BY <1>1, <4>1 DEF Follows, Contract, Exists
      <3> QED BY <3>2, <3>3
    <2>12. CASE run[r].result = "validating"
      <3>1. Applied(r) = ready \/ Applied(r) = retry
        BY <1>0, <1>3, <2>12
      <3>2. ready = Bare("ready", "none", gate) /\ retry = Bare("failed", "retryable", gate)
        BY <2>8, <2>1, RecordType
      <3> HIDE DEF Bare, ready, retry
      <3> QED BY <2>4, <2>6, <2>7, <3>1, <3>2 DEF Follows, States, Contract, Exists
    <2> QED BY <2>3, <2>9, <2>10, <2>11, <2>12 DEF Call
  <1> QED BY <1>2, <1>3

LEMMA ApplySaves ==
    ASSUME ProvisioningInv, NEW r \in Runs, Apply(r)
    PROVE  \E next, then : SaveBy(r, next, then)
  <1>1. /\ run[r] \in Call /\ run[r].pc = "apply" /\ Contract(run[r].cur) /\ Exists(run[r].cur)
    BY CallsFit DEF CallFits, Apply
  <1>2. Follows(r, Applied(r))
    BY <1>1, AppliedFollows
  <1>3. Save(r, Applied(r), "idle") /\ UNCHANGED <<plan, overlap, client, sink, requests, faults>>
    BY DEF Apply
  <1>4. SaveBy(r, Applied(r), "idle")
    BY <1>1, <1>2, <1>3 DEF SaveBy, Follows
  <1> QED BY <1>4

LEMMA CrashDies == ASSUME ProvisioningInv, NEW r \in Runs, Crash(r) PROVE DieBy(r)
  BY TypeInvParts DEF Crash, DieBy

\* What call r does in a step.
StepBy(r) ==
    \/ \E next, then : SaveBy(r, next, then)
    \/ \E c : AdapterBy(r, c)
    \/ \E c : BeginBy(r, c)
    \/ \E c : LearnBy(r, c)
    \/ DieBy(r)

LEMMA NextCases == ASSUME ProvisioningInv, Next PROVE \E r \in Runs : StepBy(r)
  <1>1. PICK r \in Runs :
           \/ \E k \in Keys, op \in Operations : BeginRun(r, k, op)
           \/ \E k \in Keys : BeginDecision(r, k)
           \/ RunStep(r)
           \/ RequestFails(r)
           \/ Crash(r)
    BY DEF Next
  <1>2. CASE RunStep(r)
    <2>1. CASE Recover(r) \/ Start(r) \/ RejectDecision(r) \/ Throw(r) \/ Apply(r)
               \/ \E decision \in Decisions : Decide(r, decision)
      <3>1. \E next, then : SaveBy(r, next, then)
        BY <2>1, RecoverSaves, StartSaves, RejectDecisionSaves, ThrowSaves, ApplySaves, DecideSaves
      <3> QED BY <3>1 DEF StepBy
    <2>2. CASE Find(r) \/ Write(r) \/ Reread(r) \/ Revoke(r)
               \/ (\E intact \in BOOLEAN : Observe(r, intact))
               \/ \E s \in Secrets, stored \in BOOLEAN : GenerateSecret(r, s, stored)
      <3>1. \E c : AdapterBy(r, c)
        BY <2>2, FindMoves, WriteMoves, RereadMoves, RevokeMoves, ObserveMoves, GenerateSecretMoves
      <3> QED BY <3>1 DEF StepBy
    <2>3. CASE ReadLatest(r)
      BY <2>3, ReadLatestLearns DEF StepBy
    <2>4. CASE Execute(r)
      BY <2>4, ExecuteSavesOrMoves DEF StepBy
    <2> QED BY <1>2, <2>1, <2>2, <2>3, <2>4 DEF RunStep
  <1>3. CASE (\E k \in Keys, op \in Operations : BeginRun(r, k, op))
             \/ \E k \in Keys : BeginDecision(r, k)
    <2>1. \E c : BeginBy(r, c)
      BY <1>3, BeginRunBegins, BeginDecisionBegins
    <2> QED BY <2>1 DEF StepBy
  <1>4. CASE RequestFails(r)
    BY <1>4, RequestFailsMoves DEF StepBy
  <1>5. CASE Crash(r)
    BY <1>5, CrashDies DEF StepBy
  <1> QED BY <1>1, <1>2, <1>3, <1>4, <1>5

-----------------------------------------------------------------------------
(* The record contract *)

LEMMA ProvisioningInvInit == Init => ProvisioningInv
  <1> SUFFICES ASSUME Init PROVE ProvisioningInv
    OBVIOUS
  <1>1. NoRec \in Record /\ Contract(NoRec) /\ Idle \in Call /\ NoRec.state = "none"
    BY BlankTypes DEF NoRec
  <1>2. /\ rec \in [Keys -> Record] /\ \A k \in Keys : Contract(rec[k])
        /\ run \in [Runs -> Call] /\ \A r \in Runs : run[r].pc = "idle"
    BY <1>1 DEF Init, Idle
  <1>3. TypeOK
    BY <1>2, ProvisioningConstants DEF TypeOK, Init, Contract, Call, NoClient
  <1> QED BY <1>2, <1>3 DEF ProvisioningInv, CallShape

LEMMA ProvisioningInvNext == ProvisioningInv /\ [Next]_vars => ProvisioningInv'
  <1> SUFFICES ASSUME ProvisioningInv, [Next]_vars PROVE ProvisioningInv'
    OBVIOUS
  <1>1. CASE UNCHANGED vars
    BY <1>1 DEF vars, ProvisioningInv, TypeOK, CallShape
  <1>2. ASSUME NEW r \in Runs, StepBy(r) PROVE ProvisioningInv'
    BY <1>2, SaveByKeepsType, AdapterByKeepsType, BeginByKeepsType, LearnByKeepsType,
       DieByKeepsType DEF StepBy
  <1> QED BY <1>1, <1>2, NextCases

\* Every stored record keeps the contract of validateIdentityProvisioningRecord,
\* whatever calls, decisions, failures and crashes overlap.
THEOREM RecordsKeepContract == Spec => []TypeOK
  <1>1. ProvisioningInv => TypeOK
    BY DEF ProvisioningInv
  <1> QED BY <1>1, ProvisioningInvInit, ProvisioningInvNext, PTL DEF Spec

-----------------------------------------------------------------------------
(* Outcomes are final *)

\* What the calls of an unchanged store hold.
LEMMA HeldIsKept ==
    ASSUME HeldIsOpen, NEW r \in Runs, run \in [Runs -> Call], NEW c,
           run' = [run EXCEPT ![r] = c], UNCHANGED <<now, rec>>,
           c.pc # "idle" => /\ ~ Settled(c.cur) /\ c.cur.updated <= now
                            /\ Exists(c.cur) /\ Saves(c.key, c.cur) => rec[c.key] = c.cur
    PROVE  HeldIsOpen'
  <1> SUFFICES ASSUME NEW q \in Runs, run'[q].pc # "idle"
               PROVE  /\ ~ Settled(run'[q].cur) /\ run'[q].cur.updated <= now'
                      /\ Exists(run'[q].cur) /\ Saves(run[q].key, run[q].cur)'
                            => rec'[run'[q].key] = run'[q].cur
    BY DEF HeldIsOpen
  <1>1. CASE q = r
    BY <1>1 DEF Saves
  <1>2. CASE q # r
    BY <1>2 DEF HeldIsOpen, Saves
  <1> QED BY <1>1, <1>2

\* Times are never given out twice, so that a save which succeeds replaces the
\* record that its call holds, and that one is not settled.
LEMMA SaveByKeepsFinal ==
    ASSUME FinalInv, ~ Coarse, NEW r \in Runs, NEW next, NEW then, SaveBy(r, next, then)
    PROVE  /\ RecordsFit' /\ HeldIsOpen'
           /\ \A k \in Keys : Settled(rec[k]) => rec'[k] = rec[k]
  <1>1. /\ ProvisioningInv /\ RecordsFit /\ HeldIsOpen
        /\ next \in Record /\ Save(r, next, then) /\ run[r].pc # "idle"
        /\ now \in Nat /\ rec \in [Keys -> Record] /\ run \in [Runs -> Call]
    BY TypeInvParts DEF FinalInv, SaveBy
  <1>2. CASE Refused(r)
    <2>1. run' = [run EXCEPT ![r] = Idle] /\ UNCHANGED <<now, rec>> /\ Idle.pc = "idle"
      BY <1>2 DEF Refused, Idle
    <2>2. HeldIsOpen'
      BY <1>1, <2>1, HeldIsKept
    <2> QED BY <1>1, <2>1, <2>2 DEF RecordsFit, Exists
  <1>3. ASSUME NEW t \in Nat, Stored(r, At(next, t), then)
        PROVE  /\ RecordsFit' /\ HeldIsOpen'
               /\ \A k \in Keys : Settled(rec[k]) => rec'[k] = rec[k]
    <2> DEFINE x == At(next, t)
               k0 == run[r].key
               c == After(r, x, then)
    <2>1. /\ x \in Record /\ x.state = next.state /\ x.error = next.error /\ x.updated = t
          /\ Exists(x)
      BY <1>1, AtFields DEF SaveBy
    <2>2. /\ Saves(k0, run[r].cur) /\ now' = t /\ t = now + 1
          /\ rec' = [rec EXCEPT ![k0] = x] /\ run' = [run EXCEPT ![r] = c]
      BY <1>3, <2>1 DEF Stored
    <2>3. k0 \in Keys /\ ~ Settled(run[r].cur) /\ run[r] \in Call
      BY <1>1, CallsFit DEF HeldIsOpen, CallFits
    <2>4. \/ then = "idle" /\ c = Idle
          \/ /\ then # "idle" /\ c.cur = x /\ c.key = k0
      <3>1. CASE then = "idle"
        BY <3>1 DEF After
      <3>2. CASE then = "resume"
        BY <2>3, <3>2 DEF After, Call
      <3>3. CASE then \in {"execute", "find"}
        <4>1. c = [run[r] EXCEPT !.pc = then, !.cur = x]
          BY <3>3 DEF After
        <4> QED BY <2>3, <3>3, <4>1 DEF Call
      <3> QED BY <3>1, <3>2, <3>3 DEF SaveBy
    <2>5. /\ then # "idle" => ~ Settled(x)
          /\ x.state = "recovering" => x.error # "final"
      BY <2>1, <2>3 DEF SaveBy, Settled
    <2> HIDE DEF x, c
    <2>6. RecordsFit'
      <3>1. x.updated <= now' /\ Exists(x) /\ (x.state = "recovering" => x.error # "final")
        BY <2>1, <2>2, <2>5
      <3>2. ASSUME NEW k \in Keys, k # k0
            PROVE  rec'[k] = rec[k] /\ rec[k].updated <= now'
        <4>1. rec[k].updated \in Nat /\ rec[k].updated <= now
          BY <1>1, RecordType DEF RecordsFit
        <4> QED BY <1>1, <2>2, <3>2, <4>1
      <3>3. rec'[k0] = x
        BY <1>1, <2>2, <2>3
      <3> QED BY <1>1, <3>1, <3>2, <3>3 DEF RecordsFit, Exists
    <2>7. ~ Settled(rec[k0])
      <3>1. CASE Exists(run[r].cur)
        BY <1>1, <2>2, <2>3, <3>1 DEF HeldIsOpen
      <3>2. CASE ~ Exists(run[r].cur)
        <4>1. rec[k0] = NoRec
          BY <1>1, <2>2, <2>3, <3>2 DEF Saves, RecordsFit
        <4> QED BY <4>1 DEF Settled, NoRec
      <3> QED BY <3>1, <3>2
    <2>8. HeldIsOpen'
      <3> SUFFICES ASSUME NEW q \in Runs, run'[q].pc # "idle"
                   PROVE  /\ ~ Settled(run'[q].cur) /\ run'[q].cur.updated <= now'
                          /\ Exists(run'[q].cur) /\ Saves(run[q].key, run[q].cur)'
                                => rec'[run'[q].key] = run'[q].cur
        BY DEF HeldIsOpen
      <3>1. CASE q = r
        <4>1. run'[q] = c /\ then # "idle"
          BY <1>1, <2>2, <2>4, <3>1 DEF Idle
        <4>2. run'[q].cur = x /\ run'[q].key = k0 /\ rec'[k0] = x
          BY <1>1, <2>2, <2>3, <2>4, <4>1
        <4> QED BY <2>1, <2>2, <2>5, <4>1, <4>2
      <3>2. CASE q # r
        <4>1. run'[q] = run[q] /\ run[q].pc # "idle"
          BY <1>1, <2>2, <3>2
        <4>2. ~ Settled(run[q].cur) /\ run[q].cur.updated \in Nat /\ run[q].cur.updated <= now
          BY <1>1, <4>1, RecordType DEF HeldIsOpen, Call
        <4>3. CASE run[q].key = k0
          <5>1. rec'[k0].updated = now + 1
            BY <1>1, <2>1, <2>2, <2>3
          <5> QED BY <1>1, <2>2, <4>1, <4>2, <4>3, <5>1 DEF Saves
        <4>4. CASE run[q].key # k0
          <5>1. run[q].key \in Keys
            BY <1>1, <4>1, CallsFit DEF CallFits
          <5>2. rec'[run[q].key] = rec[run[q].key]
            BY <1>1, <2>2, <4>4, <5>1
          <5>3. run'[q].cur.updated <= now'
            BY <1>1, <2>2, <4>1, <4>2
          <5> QED BY <1>1, <4>1, <4>2, <5>2, <5>3 DEF Saves, HeldIsOpen
        <4> QED BY <4>3, <4>4
      <3> QED BY <3>1, <3>2
    <2>9. \A k \in Keys : Settled(rec[k]) => rec'[k] = rec[k]
      BY <1>1, <2>2, <2>7
    <2> QED BY <2>6, <2>8, <2>9
  <1> QED BY <1>1, <1>2, <1>3, SaveCases

LEMMA StepKeepsFinal ==
    ASSUME FinalInv, ~ Coarse, NEW r \in Runs, StepBy(r)
    PROVE  /\ RecordsFit' /\ HeldIsOpen'
           /\ \A k \in Keys : Settled(rec[k]) => rec'[k] = rec[k]
  <1>1. ProvisioningInv /\ RecordsFit /\ HeldIsOpen /\ run \in [Runs -> Call]
    BY TypeInvParts DEF FinalInv
  <1>2. ASSUME UNCHANGED <<now, rec>>
        PROVE  RecordsFit' /\ \A k \in Keys : Settled(rec[k]) => rec'[k] = rec[k]
    BY <1>1, <1>2 DEF RecordsFit, Exists
  <1>3. ASSUME NEW next, NEW then, SaveBy(r, next, then)
        PROVE  /\ RecordsFit' /\ HeldIsOpen'
               /\ \A k \in Keys : Settled(rec[k]) => rec'[k] = rec[k]
    BY <1>3, SaveByKeepsFinal
  <1>4. ASSUME NEW c, AdapterBy(r, c) PROVE HeldIsOpen' /\ UNCHANGED <<now, rec>>
    <2>1. /\ run' = [run EXCEPT ![r] = c] /\ UNCHANGED <<now, rec>> /\ run[r].pc # "idle"
          /\ c.cur = run[r].cur /\ c.key = run[r].key
      BY <1>4 DEF AdapterBy, MoveBy
    <2>2. /\ ~ Settled(c.cur) /\ c.cur.updated <= now
          /\ Exists(c.cur) /\ Saves(c.key, c.cur) => rec[c.key] = c.cur
      BY <1>1, <2>1 DEF HeldIsOpen
    <2> QED BY <1>1, <2>1, <2>2, HeldIsKept
  <1>5. ASSUME NEW c, BeginBy(r, c) PROVE HeldIsOpen' /\ UNCHANGED <<now, rec>>
    <2>1. /\ run' = [run EXCEPT ![r] = c] /\ UNCHANGED <<now, rec>>
          /\ c.cur = rec[c.key] /\ c.key \in Keys /\ ~ Settled(c.cur)
      BY <1>1, <1>5 DEF BeginBy, CallFits
    <2>2. c.cur.updated <= now
      BY <1>1, <2>1 DEF RecordsFit
    <2> QED BY <1>1, <2>1, <2>2, HeldIsKept
  <1>6. ASSUME NEW c, LearnBy(r, c) PROVE HeldIsOpen' /\ UNCHANGED <<now, rec>>
    <2>1. PICK p \in Latest : c = [run[r] EXCEPT !.pc = "start", !.prev = p]
      BY <1>6 DEF LearnBy
    <2>2. /\ run' = [run EXCEPT ![r] = c] /\ UNCHANGED <<now, rec>> /\ run[r].pc # "idle"
          /\ c.cur = run[r].cur /\ c.key = run[r].key
      BY <1>1, <1>6, <2>1 DEF LearnBy, Call
    <2>3. /\ ~ Settled(c.cur) /\ c.cur.updated <= now
          /\ Exists(c.cur) /\ Saves(c.key, c.cur) => rec[c.key] = c.cur
      BY <1>1, <2>2 DEF HeldIsOpen
    <2> QED BY <1>1, <2>2, <2>3, HeldIsKept
  <1>7. ASSUME DieBy(r) PROVE HeldIsOpen' /\ UNCHANGED <<now, rec>>
    <2>1. run' = [run EXCEPT ![r] = Idle] /\ UNCHANGED <<now, rec>> /\ Idle.pc = "idle"
      BY <1>7 DEF DieBy, Idle
    <2> QED BY <1>1, <2>1, HeldIsKept
  <1> QED BY <1>2, <1>3, <1>4, <1>5, <1>6, <1>7 DEF StepBy

LEMMA FinalInvInit == Init => FinalInv
  <1> SUFFICES ASSUME Init PROVE FinalInv
    OBVIOUS
  <1>1. RecordsFit
    BY DEF Init, RecordsFit, NoRec, Exists
  <1>2. HeldIsOpen
    BY DEF Init, HeldIsOpen, Idle
  <1> QED BY <1>1, <1>2, ProvisioningInvInit DEF FinalInv

LEMMA FinalInvNext ==
    ASSUME FinalInv, ~ Coarse, [Next]_vars
    PROVE  FinalInv' /\ \A k \in Keys : Settled(rec[k]) => rec'[k] = rec[k]
  <1>1. ProvisioningInv'
    BY ProvisioningInvNext DEF FinalInv
  <1>2. CASE UNCHANGED vars
    BY <1>1, <1>2 DEF vars, FinalInv, RecordsFit, HeldIsOpen, Saves, Exists
  <1>3. CASE Next
    <2>1. PICK r \in Runs : StepBy(r)
      BY <1>3, NextCases DEF FinalInv
    <2> QED BY <1>1, <2>1, StepKeepsFinal DEF FinalInv
  <1> QED BY <1>2, <1>3

\* The outcome of an idempotency key is final, if two saves never share a time:
\* a slower call of the same key, a late decision or a retry never changes a
\* completed or refused operation.
THEOREM SettledOutcomesAreFinal == ASSUME ~ Coarse PROVE Spec => OutcomesAreFinal
  <1>1. Spec => []FinalInv
    <2>1. FinalInv /\ [Next]_vars => FinalInv'
      BY FinalInvNext
    <2> QED BY <2>1, FinalInvInit, PTL DEF Spec
  <1>2. FinalInv /\ [Next]_vars => [\A k \in Keys : Settled(rec[k]) => rec'[k] = rec[k]]_rec
    BY FinalInvNext
  <1> QED BY <1>1, <1>2, PTL DEF Spec, OutcomesAreFinal

-----------------------------------------------------------------------------
(* The gate comes before the write *)

LEMMA ApprovalsStay ==
    ASSUME UNCHANGED rec, Approved PROVE Approved'
  BY DEF Approved

\* A save never takes an approval off the record it replaces, because the call
\* that saves holds that record and knows of the approval.
LEMMA SaveByKeepsGate ==
    ASSUME GateInv, NEW r \in Runs, NEW next, NEW then, SaveBy(r, next, then)
    PROVE  GateKnown' /\ GateBeforeWrite'
  <1>1. /\ ProvisioningInv /\ RecordsFit /\ HeldIsOpen /\ GateKnown /\ GateBeforeWrite
        /\ next \in Record /\ Save(r, next, then) /\ run[r].pc # "idle" /\ run[r] \in Call
        /\ now \in Nat /\ rec \in [Keys -> Record] /\ run \in [Runs -> Call]
        /\ UNCHANGED <<plan, client>>
    BY TypeInvParts DEF GateInv, FinalInv, SaveBy
  <1>2. CASE Refused(r)
    <2>1. /\ \A q \in Runs : run'[q] = IF q = r THEN Idle ELSE run[q]
          /\ Approved' <=> Approved
      BY <1>1, <1>2 DEF Refused, Approved
    <2>2. Idle.prev.gate = "none" /\ Idle.cur.gate = "none" /\ Idle.pc = "idle" /\ Idle.result = "none"
      BY DEF Idle, NoRec
    <2>3. GateKnown'
      BY <1>1, <2>1, <2>2 DEF GateKnown, AdapterSteps
    <2>4. GateBeforeWrite'
      BY <1>1, <2>1 DEF GateBeforeWrite, Approved
    <2> QED BY <2>3, <2>4
  <1>3. ASSUME NEW t \in Nat, Stored(r, At(next, t), then) PROVE GateKnown' /\ GateBeforeWrite'
    <2> DEFINE x == At(next, t)
               k0 == run[r].key
               c == After(r, x, then)
    <2>1. x \in Record /\ x.gate = next.gate
      BY <1>1, AtFields
    <2>2. /\ Saves(k0, run[r].cur) /\ rec' = [rec EXCEPT ![k0] = x]
          /\ run' = [run EXCEPT ![r] = c]
      BY <1>3 DEF Stored
    <2>3. k0 \in Keys
      BY <1>1, CallsFit DEF CallFits
    <2>4. \/ then = "idle" /\ c = Idle
          \/ then = "resume" /\ c.cur = x /\ c.prev = x /\ c.pc = "execute" /\ c.result = run[r].result
          \/ /\ then \in {"execute", "find"} /\ c.cur = x /\ c.prev = run[r].prev /\ c.pc = then
             /\ c.result = run[r].result
      <3>1. CASE then = "idle"
        BY <3>1 DEF After
      <3>2. CASE then = "resume"
        <4>1. c = [run[r] EXCEPT !.pc = "execute", !.cur = x, !.prev = x]
          BY <3>2 DEF After
        <4> QED BY <1>1, <3>2, <4>1 DEF Call
      <3>3. CASE then \in {"execute", "find"}
        <4>1. c = [run[r] EXCEPT !.pc = then, !.cur = x]
          BY <3>3 DEF After
        <4> QED BY <1>1, <3>3, <4>1 DEF Call
      <3> QED BY <3>1, <3>2, <3>3 DEF SaveBy
    <2> HIDE DEF x, c
    <2>5. rec[k0].gate = "approved" => x.gate = "approved"
      <3> SUFFICES ASSUME rec[k0].gate = "approved" PROVE x.gate = "approved"
        OBVIOUS
      <3>1. Exists(rec[k0])
        BY <1>1, <2>3 DEF RecordsFit, NoRec
      <3>2. Exists(run[r].cur) /\ rec[k0] = run[r].cur
        BY <1>1, <2>2, <3>1 DEF Saves, HeldIsOpen
      <3>3. run[r].result # "awaiting-authority"
        BY <1>1, <3>2 DEF GateKnown
      <3> QED BY <2>1, <3>2, <3>3 DEF SaveBy
    <2>6. /\ Approved => Approved'
          /\ x.gate = "approved" => Approved'
      <3>1. rec'[k0] = x /\ \A k \in Keys : k # k0 => rec'[k] = rec[k]
        BY <1>1, <2>2, <2>3
      <3> QED BY <2>3, <2>5, <3>1 DEF Approved
    <2>7. GateKnown'
      <3> SUFFICES ASSUME NEW q \in Runs
                   PROVE  /\ run'[q].prev.gate = "approved" \/ run'[q].cur.gate = "approved" => Approved'
                          /\ plan.gated /\ run'[q].pc \in AdapterSteps => Approved'
                          /\ run'[q].pc = "execute" /\ run'[q].cur.gate = "approved"
                                => run'[q].prev.gate = "approved"
                          /\ run'[q].result = "awaiting-authority"
                                => run'[q].pc = "apply" /\ run'[q].cur.gate # "approved"
        BY <1>1 DEF GateKnown, AdapterSteps
      <3>1. CASE q # r
        <4>1. run'[q] = run[q]
          BY <1>1, <2>2, <3>1
        <4> QED BY <1>1, <2>6, <4>1 DEF GateKnown
      <3>2. CASE q = r /\ then = "idle"
        <4>1. run'[q] = Idle
          BY <1>1, <2>2, <2>4, <3>2
        <4> QED BY <4>1 DEF Idle, NoRec, AdapterSteps
      <3>3. CASE q = r /\ then # "idle"
        <4>1. run'[q] = c
          BY <1>1, <2>2, <3>3
        <4>2. run[r].result # "awaiting-authority"
          BY <1>1, <3>3 DEF SaveBy, GateKnown
        <4>3. /\ then = "execute" => x.gate # "approved"
              /\ then = "find" => ~ plan.gated
          BY <2>1 DEF SaveBy
        <4>4. run[r].prev.gate = "approved" => Approved'
          BY <1>1, <2>6 DEF GateKnown
        <4> QED BY <2>4, <2>6, <3>3, <4>1, <4>2, <4>3, <4>4 DEF AdapterSteps
      <3> QED BY <3>1, <3>2, <3>3
    <2>8. GateBeforeWrite'
      <3>1. GateBeforeWrite <=> (plan.gated /\ client.exists => Approved)
        BY DEF GateBeforeWrite, Approved
      <3>2. GateBeforeWrite' <=> (plan'.gated /\ client'.exists => Approved')
        BY DEF GateBeforeWrite, Approved
      <3> QED BY <1>1, <2>6, <3>1, <3>2
    <2> QED BY <2>7, <2>8
  <1> QED BY <1>1, <1>2, <1>3, SaveCases

\* A call on its own knows the gate if it knew it before.
LEMMA GateKnownIsKept ==
    ASSUME GateKnown, NEW r \in Runs, run \in [Runs -> Call], NEW c,
           run' = [run EXCEPT ![r] = c], UNCHANGED <<plan, rec>>,
           c.prev.gate = "approved" \/ c.cur.gate = "approved" => Approved,
           plan.gated /\ c.pc \in AdapterSteps => Approved,
           c.pc = "execute" /\ c.cur.gate = "approved" => c.prev.gate = "approved",
           c.result = "awaiting-authority" => c.pc = "apply" /\ c.cur.gate # "approved"
    PROVE  GateKnown'
  <1>1. Approved' <=> Approved
    BY DEF Approved
  <1>2. \A q \in Runs : run'[q] = IF q = r THEN c ELSE run[q]
    OBVIOUS
  <1> QED BY <1>1, <1>2 DEF GateKnown, AdapterSteps

LEMMA AdapterByKeepsGate ==
    ASSUME GateInv, NEW r \in Runs, NEW c, AdapterBy(r, c)
    PROVE  GateKnown' /\ GateBeforeWrite'
  <1>1. GateKnown /\ GateBeforeWrite /\ run \in [Runs -> Call]
    BY TypeInvParts DEF GateInv, FinalInv
  <1>2. /\ run' = [run EXCEPT ![r] = c] /\ UNCHANGED <<plan, rec>>
        /\ c.cur = run[r].cur /\ c.prev = run[r].prev /\ c.pc \in AdapterSteps \cup {"apply", "throw"}
    BY DEF AdapterBy, MoveBy
  <1>3. plan.gated /\ c.pc \in AdapterSteps => Approved
    BY <1>1 DEF AdapterBy, MoveBy, GateKnown, GateOpen
  <1>4. c.result = "awaiting-authority" => c.pc = "apply" /\ c.cur.gate # "approved"
    BY <1>1, <1>2 DEF AdapterBy, MoveBy, GateKnown, GateOpen
  <1>5. GateKnown'
    <2>1. /\ c.pc # "execute"
          /\ c.prev.gate = "approved" \/ c.cur.gate = "approved" => Approved
      BY <1>1, <1>2 DEF GateKnown, AdapterSteps
    <2> QED BY <1>1, <1>2, <1>3, <1>4, <2>1, GateKnownIsKept
  <1>6. client'.exists => client.exists \/ run[r].pc = "write"
    BY DEF AdapterBy, ProviderStays, ProviderWrites, ProviderGenerates, ProviderRevokes
  <1>7. plan.gated /\ client'.exists => Approved
    BY <1>1, <1>6 DEF GateBeforeWrite, Approved, GateKnown, AdapterSteps
  <1>8. GateBeforeWrite'
    BY <1>2, <1>7 DEF GateBeforeWrite, Approved
  <1> QED BY <1>5, <1>8

LEMMA StepKeepsGate ==
    ASSUME GateInv, NEW r \in Runs, StepBy(r)
    PROVE  GateKnown' /\ GateBeforeWrite'
  <1>1. /\ ProvisioningInv /\ GateKnown /\ GateBeforeWrite /\ run \in [Runs -> Call]
    BY TypeInvParts DEF GateInv, FinalInv
  <1>2. ASSUME UNCHANGED <<plan, client, rec>> PROVE GateBeforeWrite'
    BY <1>1, <1>2 DEF GateBeforeWrite
  <1>3. NoRec.gate = "none"
    BY DEF NoRec
  <1>4. ASSUME NEW c, BeginBy(r, c) PROVE GateKnown' /\ GateBeforeWrite'
    <2>1. /\ run' = [run EXCEPT ![r] = c] /\ UNCHANGED <<plan, client, rec>>
          /\ c.cur = rec[c.key] /\ c.key \in Keys /\ c.prev \in {NoRec, rec[c.key]}
          /\ c.pc \in {"latest", "recover", "execute", "decide"} /\ c.result = "none"
          /\ c.pc = "execute" => c.prev = c.cur
      BY <1>4 DEF BeginBy, CallFits
    <2>2. /\ c.prev.gate = "approved" \/ c.cur.gate = "approved" => Approved
          /\ c.pc \notin AdapterSteps
      BY <1>3, <2>1 DEF Approved, AdapterSteps
    <2>3. GateKnown'
      BY <1>1, <2>1, <2>2, GateKnownIsKept
    <2> QED BY <1>2, <2>1, <2>3
  <1>5. ASSUME NEW c, LearnBy(r, c) PROVE GateKnown' /\ GateBeforeWrite'
    <2>1. PICK p \in Latest : c = [run[r] EXCEPT !.pc = "start", !.prev = p]
      BY <1>5 DEF LearnBy
    <2>2. /\ run' = [run EXCEPT ![r] = c] /\ UNCHANGED <<plan, client, rec>>
          /\ c.cur = run[r].cur /\ c.prev = p /\ c.pc = "start" /\ c.result = run[r].result
          /\ run[r].pc = "latest"
      BY <1>1, <1>5, <2>1 DEF LearnBy, Call
    <2>3. p = NoRec \/ \E k \in Keys : p = rec[k]
      BY DEF Latest
    <2>4. c.prev.gate = "approved" \/ c.cur.gate = "approved" => Approved
      BY <1>1, <1>3, <2>2, <2>3 DEF Approved, GateKnown
    <2>5. c.result # "awaiting-authority" /\ c.pc \notin AdapterSteps
      BY <1>1, <2>2 DEF GateKnown, AdapterSteps
    <2>6. GateKnown'
      BY <1>1, <2>2, <2>4, <2>5, GateKnownIsKept
    <2> QED BY <1>2, <2>2, <2>6
  <1>6. ASSUME DieBy(r) PROVE GateKnown' /\ GateBeforeWrite'
    <2>1. run' = [run EXCEPT ![r] = Idle] /\ UNCHANGED <<plan, client, rec>>
      BY <1>6 DEF DieBy
    <2>2. /\ Idle.prev.gate = "none" /\ Idle.cur.gate = "none" /\ Idle.pc \notin AdapterSteps
          /\ Idle.result = "none"
      BY DEF Idle, NoRec, AdapterSteps
    <2>3. GateKnown'
      BY <1>1, <2>1, <2>2, GateKnownIsKept
    <2> QED BY <1>2, <2>1, <2>3
  <1> QED BY <1>4, <1>5, <1>6, SaveByKeepsGate, AdapterByKeepsGate DEF StepBy

LEMMA GateInvInit == Init => GateInv
  <1> SUFFICES ASSUME Init PROVE GateInv
    OBVIOUS
  <1>1. GateKnown
    BY DEF Init, GateKnown, Idle, NoRec, AdapterSteps
  <1>2. GateBeforeWrite
    BY DEF Init, GateBeforeWrite, NoClient
  <1> QED BY <1>1, <1>2, FinalInvInit DEF GateInv

LEMMA GateInvNext == ASSUME GateInv, ~ Coarse, [Next]_vars PROVE GateInv'
  <1>1. FinalInv'
    BY FinalInvNext DEF GateInv
  <1>2. CASE UNCHANGED vars
    BY <1>1, <1>2 DEF vars, GateInv, GateKnown, GateBeforeWrite, Approved, AdapterSteps
  <1>3. CASE Next
    <2>1. PICK r \in Runs : StepBy(r)
      BY <1>3, NextCases DEF GateInv, FinalInv
    <2> QED BY <1>1, <2>1, StepKeepsGate DEF GateInv
  <1> QED BY <1>2, <1>3

\* Under a gated plan the provider holds a client only behind an approved gate, if
\* two saves never share a time.
THEOREM GatesPrecedeWrites == ASSUME ~ Coarse PROVE Spec => []GateBeforeWrite
  <1>1. GateInv /\ [Next]_vars => GateInv'
    BY GateInvNext
  <1>2. GateInv => GateBeforeWrite
    BY DEF GateInv
  <1> QED BY <1>1, <1>2, GateInvInit, PTL DEF Spec

-----------------------------------------------------------------------------
(* The current secret is kept *)

\* What SecretInv says of call c.
NamesUsed(c) == Used(c.cur.secret) /\ Used(c.prev.secret) /\ Used(c.secret)

SecretFits(c) ==
    /\ StepFits(c)
    /\ Replacing(c) /\ c.prev.secret # None => client.secret # c.prev.secret

LEMMA SecretInvParts ==
    ASSUME SecretInv, NEW r \in Runs PROVE NamesUsed(run[r]) /\ SecretFits(run[r])
  BY DEF SecretInv, NamedIsUsed, StepsFit, OldIsOut, NamesUsed, SecretFits

\* A step that leaves the provider and the secret manager alone.
LEMMA CallKeepsSecret ==
    ASSUME SecretInv, NEW r \in Runs, NEW c, run' = [run EXCEPT ![r] = c],
           UNCHANGED <<plan, client, sink>>, \A k \in Keys : Used(rec'[k].secret),
           NamesUsed(c), SecretFits(c)
    PROVE  NamedIsUsed' /\ StepsFit' /\ OldIsOut' /\ CurrentSecretIsKept'
  <1>1. run \in [Runs -> Call]
    BY TypeInvParts DEF SecretInv
  <1>2. \A q \in Runs : NamesUsed(run'[q]) /\ SecretFits(run'[q])
    BY <1>1, SecretInvParts
  <1>3. NamedIsUsed'
    BY <1>2 DEF SecretInv, NamedIsUsed, NamesUsed, Used
  <1>4. StepsFit' /\ OldIsOut'
    BY <1>2 DEF SecretFits, StepsFit, OldIsOut, StepFits, Replacing
  <1>5. CurrentSecretIsKept'
    BY DEF SecretInv, CurrentSecretIsKept
  <1> QED BY <1>3, <1>4, <1>5

LEMMA IdleKeepsSecret == NamesUsed(Idle) /\ SecretFits(Idle)
  BY DEF Idle, NoRec, NamesUsed, SecretFits, Used, StepFits, Replacing

LEMMA SaveByKeepsSecret ==
    ASSUME SecretInv, NEW r \in Runs, NEW next, NEW then, SaveBy(r, next, then)
    PROVE  NamedIsUsed' /\ StepsFit' /\ OldIsOut' /\ CurrentSecretIsKept'
  <1>1. /\ ProvisioningInv /\ next \in Record /\ Save(r, next, then) /\ run[r].pc # "idle"
        /\ run[r] \in Call /\ now \in Nat /\ rec \in [Keys -> Record]
        /\ UNCHANGED <<plan, client, sink>>
    BY TypeInvParts DEF SecretInv, SaveBy
  <1>2. NamesUsed(run[r]) /\ SecretFits(run[r]) /\ \A k \in Keys : Used(rec[k].secret)
    BY SecretInvParts DEF SecretInv, NamedIsUsed
  <1>3. CASE Refused(r)
    BY <1>1, <1>2, <1>3, IdleKeepsSecret, CallKeepsSecret DEF Refused
  <1>4. ASSUME NEW t \in Nat, Stored(r, At(next, t), then)
        PROVE  NamedIsUsed' /\ StepsFit' /\ OldIsOut' /\ CurrentSecretIsKept'
    <2> DEFINE x == At(next, t)
               c == After(r, x, then)
    <2>1. rec' = [rec EXCEPT ![run[r].key] = x] /\ run' = [run EXCEPT ![r] = c]
      BY <1>4 DEF Stored
    <2>2. Used(x.secret)
      <3>1. x.secret = next.secret
        BY <1>1, AtFields
      <3> QED BY <1>2, <3>1 DEF SaveBy, NamesUsed, Used
    <2>3. \/ then = "idle" /\ c = Idle
          \/ /\ then # "idle" /\ c.pc \in {"execute", "find"} /\ c.cur = x
             /\ c.prev \in {x, run[r].prev} /\ c.secret = run[r].secret
      <3>1. CASE then = "idle"
        BY <3>1 DEF After
      <3>2. CASE then = "resume"
        <4>1. c = [run[r] EXCEPT !.pc = "execute", !.cur = x, !.prev = x]
          BY <3>2 DEF After
        <4> QED BY <1>1, <3>2, <4>1 DEF Call
      <3>3. CASE then \in {"execute", "find"}
        <4>1. c = [run[r] EXCEPT !.pc = then, !.cur = x]
          BY <3>3 DEF After
        <4> QED BY <1>1, <3>3, <4>1 DEF Call
      <3> QED BY <3>1, <3>2, <3>3 DEF SaveBy
    <2> HIDE DEF x, c
    <2>4. \A k \in Keys : Used(rec'[k].secret)
      <3>1. \A k \in Keys : rec'[k] = x \/ rec'[k] = rec[k]
        BY <1>1, <2>1
      <3> QED BY <1>2, <2>2, <3>1 DEF Used
    <2>5. NamesUsed(c) /\ SecretFits(c)
      <3>1. CASE then = "idle" /\ c = Idle
        BY <3>1, IdleKeepsSecret
      <3>2. CASE /\ then # "idle" /\ c.pc \in {"execute", "find"} /\ c.cur = x
                 /\ c.prev \in {x, run[r].prev} /\ c.secret = run[r].secret
        <4>1. run[r].secret = None
          BY <1>2, <3>2 DEF SaveBy, SecretFits, StepFits
        <4> QED BY <1>2, <2>2, <3>2, <4>1
                DEF NamesUsed, SecretFits, Used, StepFits, Replacing
      <3> QED BY <2>3, <3>1, <3>2
    <2> QED BY <1>1, <2>1, <2>4, <2>5, CallKeepsSecret
  <1> QED BY <1>1, <1>3, <1>4, SaveCases

\* The adapter leaves every version that was generated so, and a version it
\* generates has no earlier name.
LEMMA AdapterByKeepsSecret ==
    ASSUME SecretInv, NEW r \in Runs, NEW c, AdapterBy(r, c)
    PROVE  NamedIsUsed' /\ StepsFit' /\ OldIsOut' /\ CurrentSecretIsKept'
  <1>1. /\ run \in [Runs -> Call] /\ rec \in [Keys -> Record] /\ run[r] \in Call
        /\ client.secret \in Secrets \cup {None} /\ sink \in [Secrets -> {"unused", "active", "revoked", "lost"}]
        /\ run' = [run EXCEPT ![r] = c] /\ UNCHANGED <<plan, rec>>
        /\ c.cur = run[r].cur /\ c.prev = run[r].prev /\ c \in Call
    BY TypeInvParts DEF SecretInv, AdapterBy, MoveBy
  <1>2. NamesUsed(run[r]) /\ SecretFits(run[r]) /\ StepFits(c)
        /\ \A k \in Keys : Used(rec[k].secret)
    BY SecretInvParts DEF SecretInv, NamedIsUsed, AdapterBy, MoveBy, SecretFits
  <1>3. /\ Used(client.secret) /\ (~ client.exists => client.secret = None)
        /\ CurrentSecretIsKept
    BY DEF SecretInv, NamedIsUsed
  <1>4. StepsFit'
    BY <1>1, <1>2 DEF SecretInv, StepsFit, StepFits
  <1>5. CASE ProviderStays(r, c)
    <2>1. Replacing(c) /\ c.prev.secret # None => client.secret # c.prev.secret
      BY <1>1, <1>2, <1>3, <1>5 DEF ProviderStays, SecretFits
    <2>2. NamesUsed(c) /\ SecretFits(c)
      BY <1>1, <1>2, <1>5, <2>1 DEF ProviderStays, NamesUsed, SecretFits
    <2> QED BY <1>1, <1>2, <1>5, <2>2, CallKeepsSecret DEF ProviderStays
  <1>6. ASSUME \A s \in Secrets : sink[s] # "unused" => sink'[s] # "unused",
               Used(c.secret)', Used(client.secret)', ~ client'.exists => client'.secret = None
        PROVE  NamedIsUsed'
    <2>1. ASSUME NEW s \in Secrets \cup {None}, Used(s) PROVE Used(s)'
      BY <1>6, <2>1 DEF Used
    <2>2. \A k \in Keys : Used(rec[k].secret)'
      <3>1. \A k \in Keys : rec[k].secret \in Secrets \cup {None}
        BY <1>1, RecordType
      <3>2. \A k \in Keys : Used(rec[k].secret)'
        <4> TAKE k \in Keys
        <4>1. rec[k].secret \in Secrets \cup {None} /\ Used(rec[k].secret) /\ rec'[k] = rec[k]
          BY <1>1, <1>2, <3>1
        <4> QED BY <1>6, <4>1 DEF Used
      <3> QED BY <3>2
    <2>3. ASSUME NEW q \in Runs
          PROVE  /\ Used(run[q].cur.secret)' /\ Used(run[q].prev.secret)' /\ Used(run[q].secret)'
      <3>1. NamesUsed(run[q]) /\ run[q] \in Call
        BY <1>1, SecretInvParts
      <3>2. /\ run[q].cur.secret \in Secrets \cup {None} /\ run[q].prev.secret \in Secrets \cup {None}
            /\ run[q].secret \in Secrets \cup {None}
        BY <3>1, RecordType DEF Call
      <3>3. /\ run'[q].cur = run[q].cur /\ run'[q].prev = run[q].prev
            /\ run'[q].secret = IF q = r THEN c.secret ELSE run[q].secret
        BY <1>1
      <3> QED BY <1>6, <3>1, <3>2, <3>3 DEF NamesUsed, Used
    <2> QED BY <1>6, <2>2, <2>3 DEF NamedIsUsed
  <1>7. CASE ProviderWrites(r, c)
    <2>1. /\ client' = NoClient \/ (client'.secret = client.secret /\ client'.exists)
          /\ sink' = sink /\ c.secret = run[r].secret /\ Replacing(c) => client' = NoClient
          /\ run[r].pc = "write"
      BY <1>3, <1>7 DEF ProviderWrites
    <2>2. client'.secret \in {None, client.secret} /\ (~ client'.exists => client'.secret = None)
      BY <2>1 DEF NoClient
    <2>3. NamedIsUsed'
      <3>1. Used(c.secret)' /\ Used(client.secret)'
        BY <1>2, <1>3, <1>7, <2>2 DEF Used, NamesUsed, ProviderWrites
      <3> QED BY <1>6, <1>7, <2>2, <3>1 DEF ProviderWrites
    <2>4. OldIsOut'
      <3> SUFFICES ASSUME NEW q \in Runs, Replacing(run'[q]), run'[q].prev.secret # None
                   PROVE  client'.secret # run'[q].prev.secret
        BY DEF OldIsOut, Replacing
      <3>1. CASE q = r
        <4>1. client' = NoClient
          BY <1>1, <1>7, <3>1 DEF ProviderWrites
        <4> QED BY <4>1 DEF NoClient
      <3>2. CASE q # r
        <4>1. run'[q] = run[q]
          BY <1>1, <3>2
        <4> QED BY <2>2, <4>1, SecretInvParts DEF SecretFits
      <3> QED BY <3>1, <3>2
    <2>5. CurrentSecretIsKept'
      BY <1>3, <1>7, <2>1 DEF CurrentSecretIsKept, NoClient, ProviderWrites
    <2> QED BY <1>4, <2>3, <2>4, <2>5
  <1>8. CASE ProviderGenerates(r, c)
    <2>1. PICK s \in Secrets :
            /\ run[r].pc = "secret" /\ sink[s] = "unused" /\ client.exists
            /\ client'.exists = client.exists /\ client'.secret = s /\ c.secret = s
            /\ \E x \in {"active", "lost"} : sink' = [sink EXCEPT ![s] = x]
      BY <1>8 DEF ProviderGenerates
    <2>2. /\ sink'[s] \in {"active", "lost"}
          /\ \A o \in Secrets : o # s => sink'[o] = sink[o]
      BY <1>1, <2>1
    <2>3. NamedIsUsed'
      <3>1. Used(c.secret)' /\ Used(client.secret)'
        BY <2>1, <2>2 DEF Used
      <3> QED BY <1>6, <2>1, <2>2, <3>1
    <2>4. OldIsOut'
      <3> SUFFICES ASSUME NEW q \in Runs, run'[q].prev.secret # None
                   PROVE  client'.secret # run'[q].prev.secret
        BY DEF OldIsOut
      <3>1. run'[q].prev = run[q].prev
        BY <1>1
      <3>2. Used(run[q].prev.secret)
        BY SecretInvParts DEF NamesUsed
      <3> QED BY <2>1, <3>1, <3>2 DEF Used
    <2>5. CurrentSecretIsKept'
      BY <2>1, <2>2 DEF CurrentSecretIsKept
    <2> QED BY <1>4, <2>3, <2>4, <2>5
  <1>9. CASE ProviderRevokes(r, c)
    <2>1. /\ run[r].pc = "revoke" /\ c.pc = "apply" /\ c.secret = run[r].secret
          /\ sink' = [s \in Secrets |-> IF s = run[r].prev.secret /\ sink[s] = "active"
                                        THEN "revoked" ELSE sink[s]]
          /\ client' = client
      BY <1>9 DEF ProviderRevokes
    <2>2. \A s \in Secrets : /\ sink[s] # "unused" => sink'[s] # "unused"
                             /\ s # run[r].prev.secret => sink'[s] = sink[s]
      BY <2>1
    <2>3. NamedIsUsed'
      <3>1. c.secret \in Secrets \cup {None} /\ Used(c.secret)
        BY <1>1, <1>2, <2>1 DEF NamesUsed, Call
      <3>2. Used(c.secret)' /\ Used(client.secret)'
        BY <1>1, <1>3, <2>1, <2>2, <3>1 DEF Used
      <3> QED BY <1>3, <1>6, <2>1, <2>2, <3>2
    <2>4. OldIsOut'
      <3> SUFFICES ASSUME NEW q \in Runs, Replacing(run'[q]), run'[q].prev.secret # None
                   PROVE  client'.secret # run'[q].prev.secret
        BY DEF OldIsOut, Replacing
      <3>1. q # r
        BY <1>1, <2>1 DEF Replacing
      <3>2. run'[q] = run[q]
        BY <1>1, <3>1
      <3> QED BY <2>1, <3>2, SecretInvParts DEF SecretFits
    <2>5. CurrentSecretIsKept'
      <3> SUFFICES ASSUME client.exists, client.secret # None PROVE sink'[client.secret] # "revoked"
        BY <2>1 DEF CurrentSecretIsKept
      <3>1. client.secret # run[r].prev.secret
        BY <1>2, <2>1 DEF SecretFits, Replacing
      <3> QED BY <1>1, <1>3, <2>2, <3>1 DEF CurrentSecretIsKept
    <2> QED BY <1>4, <2>3, <2>4, <2>5
  <1> QED BY <1>5, <1>7, <1>8, <1>9 DEF AdapterBy

LEMMA StepKeepsSecret ==
    ASSUME SecretInv, NEW r \in Runs, StepBy(r)
    PROVE  NamedIsUsed' /\ StepsFit' /\ OldIsOut' /\ CurrentSecretIsKept'
  <1>1. /\ \A k \in Keys : Used(rec[k].secret)
        /\ run[r] \in Call /\ NamesUsed(run[r]) /\ SecretFits(run[r])
    BY TypeInvParts, SecretInvParts DEF SecretInv, NamedIsUsed
  <1>2. Used(NoRec.secret)
    BY DEF Used, NoRec
  <1>3. ASSUME NEW c, BeginBy(r, c)
        PROVE  NamedIsUsed' /\ StepsFit' /\ OldIsOut' /\ CurrentSecretIsKept'
    <2>1. /\ run' = [run EXCEPT ![r] = c] /\ UNCHANGED <<plan, client, sink, rec>>
          /\ c.cur = rec[c.key] /\ c.key \in Keys /\ c.prev \in {NoRec, rec[c.key]}
          /\ c.pc \in {"latest", "recover", "execute", "decide"} /\ c.secret = None
      BY <1>3 DEF BeginBy, CallFits
    <2>2. NamesUsed(c) /\ SecretFits(c)
      BY <1>1, <1>2, <2>1 DEF NamesUsed, SecretFits, Used, StepFits, Replacing
    <2> QED BY <1>1, <2>1, <2>2, CallKeepsSecret
  <1>4. ASSUME NEW c, LearnBy(r, c)
        PROVE  NamedIsUsed' /\ StepsFit' /\ OldIsOut' /\ CurrentSecretIsKept'
    <2>1. PICK p \in Latest : c = [run[r] EXCEPT !.pc = "start", !.prev = p]
      BY <1>4 DEF LearnBy
    <2>2. /\ run' = [run EXCEPT ![r] = c] /\ UNCHANGED <<plan, client, sink, rec>>
          /\ c.cur = run[r].cur /\ c.prev = p /\ c.pc = "start" /\ c.secret = run[r].secret
          /\ run[r].pc = "latest"
      BY <1>1, <1>4, <2>1 DEF LearnBy, Call
    <2>3. p = NoRec \/ \E k \in Keys : p = rec[k]
      BY DEF Latest
    <2>4. NamesUsed(c) /\ SecretFits(c)
      BY <1>1, <1>2, <2>2, <2>3 DEF NamesUsed, SecretFits, Used, StepFits, Replacing
    <2> QED BY <1>1, <2>2, <2>4, CallKeepsSecret
  <1>5. ASSUME DieBy(r)
        PROVE  NamedIsUsed' /\ StepsFit' /\ OldIsOut' /\ CurrentSecretIsKept'
    BY <1>1, <1>5, IdleKeepsSecret, CallKeepsSecret DEF DieBy
  <1> QED BY <1>3, <1>4, <1>5, SaveByKeepsSecret, AdapterByKeepsSecret DEF StepBy

LEMMA SecretInvInit == Init => SecretInv
  <1> SUFFICES ASSUME Init PROVE SecretInv
    OBVIOUS
  <1>1. NamedIsUsed /\ OldIsOut /\ CurrentSecretIsKept
    BY DEF Init, NamedIsUsed, OldIsOut, CurrentSecretIsKept, Used, Idle, NoRec, NoClient
  <1>2. StepsFit
    BY DEF Init, StepsFit, StepFits, Idle
  <1> QED BY <1>1, <1>2, ProvisioningInvInit DEF SecretInv

LEMMA SecretInvNext == SecretInv /\ [Next]_vars => SecretInv'
  <1> SUFFICES ASSUME SecretInv, [Next]_vars PROVE SecretInv'
    OBVIOUS
  <1>1. ProvisioningInv'
    BY ProvisioningInvNext DEF SecretInv
  <1>2. CASE UNCHANGED vars
    BY <1>1, <1>2 DEF vars, SecretInv, NamedIsUsed, StepsFit, StepFits, OldIsOut, Replacing, Used,
       CurrentSecretIsKept
  <1>3. CASE Next
    <2>1. PICK r \in Runs : StepBy(r)
      BY <1>3, NextCases DEF SecretInv
    <2> QED BY <1>1, <2>1, StepKeepsSecret DEF SecretInv
  <1> QED BY <1>2, <1>3

\* No overlap of rotations, retirements and creations revokes the version that
\* the provider accepts, whatever saves share a time.
THEOREM AcceptedSecretIsNotRevoked == Spec => []CurrentSecretIsKept
  <1>1. SecretInv => CurrentSecretIsKept
    BY DEF SecretInv
  <1> QED BY <1>1, SecretInvInit, SecretInvNext, PTL DEF Spec

-----------------------------------------------------------------------------
(* A client whose latest record is ready can be used: the inductive invariant *)

\* The version was stored in the secret manager, of which v tells.
StoredIn(v, s) == s # None => v[s] \in {"active", "revoked"}

Kept(s) == StoredIn(sink, s)

\* Every version that a record names was stored.  One that was not is only known to
\* the call that gives up on it.
NamedIsStored ==
    /\ \A k \in Keys : Kept(rec[k].secret)
    /\ \A r \in Runs : /\ Kept(run[r].cur.secret) /\ Kept(run[r].prev.secret)
                       /\ run[r].pc # "throw" => Kept(run[r].secret)

\* A retirement, and nothing else, has the result of one, and only what generates a
\* version comes to that step.
ResultFits(c) ==
    /\ c.result = "retired" => c.op = "retire"
    /\ c.op = "retire" => c.result # "validating" /\ c.pc \notin {"reread", "observe"}
    /\ c.pc = "secret" => c.op \in Generating

ResultsFit == \A r \in Runs : ResultFits(run[r])

\* A gated plan only creates, and creating retires nothing.
OnlyCreates ==
    plan.gated =>
        /\ \A k \in Keys : Exists(rec[k]) => rec[k].op = "create" /\ rec[k].state # "retired"
        /\ \A r \in Runs : run[r].pc # "idle" =>
              /\ run[r].op = "create"
              /\ Exists(run[r].cur) => run[r].cur.op = "create"
              /\ IF Exists(run[r].prev) THEN run[r].prev.state # "retired"
                 ELSE run[r].prev.gate # "approved"

\* No operation in preflight has an approval.
PreflightFits == \A k \in Keys : rec[k].state = "preflight" => rec[k].gate # "approved"

Working(x) == x.state \in {"provisioning", "recovering"}

\* The call has called the adapter.
AtWork(c) == \/ c.pc \in AdapterSteps \cup {"throw"}
             \/ c.pc = "apply" /\ c.result # "awaiting-authority"

\* The call has seen the client after its last change of it.
Knowing(c) == c.pc \in {"secret", "observe", "revoke", "apply"} /\ c.op # "retire"
              /\ c.result # "awaiting-authority"

\* The call is past the generation of a version, if it is to generate one.
Supplied(c) == c.pc \in {"observe", "revoke", "apply"} /\ c.result # "awaiting-authority"

\* What call r believes of the client and of its versions is so.
Informed(r) ==
    /\ Knowing(run[r]) => client.exists /\ run[r].enabled = client.enabled
    /\ run[r].verified => run[r].pc \in {"revoke", "apply", "throw"}
    /\ run[r].verified /\ run[r].pc \in {"revoke", "apply"} => Verified(r)
    /\ run[r].secret # None => run[r].op \in Generating
    /\ run[r].secret # None /\ Supplied(run[r]) =>
          client.secret = run[r].secret /\ sink[run[r].secret] = "active"
    /\ Supplied(run[r]) /\ run[r].op \in Generating /\ plan.confidential => run[r].secret # None

\* Calls that do not overlap are alone, hold the record itself, leave it in a working
\* state while they are at work, and are informed.
Alone ==
    /\ \A q, r \in Runs : run[q].pc # "idle" /\ run[r].pc # "idle" => q = r
    /\ \A r \in Runs : run[r].pc # "idle" =>
          /\ rec[run[r].key] = run[r].cur
          /\ AtWork(run[r]) => Working(run[r].cur)
          /\ run[r].pc = "execute" =>
                /\ Working(run[r].cur) \/ run[r].cur.state = "preflight"
                /\ plan.gated /\ run[r].cur.state = "preflight" => run[r].prev.gate # "approved"
          /\ Informed(r)

ReadyInv ==
    /\ FinalInv /\ GateInv /\ SecretInv
    /\ NamedIsStored /\ ResultsFit /\ OnlyCreates /\ PreflightFits
    /\ ~ overlap => Alone
    /\ ReadyIsUsable

-----------------------------------------------------------------------------
(* Saves *)

\* What a client whose latest record is x must be like if x is ready.
Usable(x) ==
    /\ client.exists /\ client.enabled
    /\ plan.confidential => /\ x.secret # None /\ x.secret = client.secret
                            /\ sink[x.secret] = "active"

\* What call r saves: its next record names only stored versions, lets the call work
\* only in a working state, and is ready only if the client is usable.
SaveFor(r, next, then) ==
    /\ run[r].pc # "idle" /\ Save(r, next, then) /\ next \in Record /\ Exists(next)
    /\ then \in {"idle", "resume", "execute", "find"}
    /\ then # "idle" => run[r].pc \in {"recover", "start", "decide", "execute"}
    /\ Kept(next.secret)
    /\ then \in {"resume", "find"} => Working(next)
    /\ then = "execute" => /\ next.state = "preflight"
                           /\ plan.gated => run[r].prev.gate # "approved"
    /\ next.state = "preflight" => next.gate # "approved"
    /\ plan.gated => next.op = "create" /\ next.state # "retired"
    /\ next.state = "ready" /\ ~ overlap => Usable(next)
    /\ UNCHANGED <<plan, overlap, client, sink>>

\* A record with a new time is the latest one.
LEMMA SavedIsLatest ==
    ASSUME rec \in [Keys -> Record], now \in Nat, \A k \in Keys : rec[k].updated <= now,
           NEW k \in Keys, NEW x \in Record, Exists(x), x.updated = now + 1,
           rec' = [rec EXCEPT ![k] = x]
    PROVE  Latest' = {x}
  <1> DEFINE known == {rec'[j] : j \in {i \in Keys : Exists(rec'[i])}}
  <1>1. rec'[k] = x /\ \A j \in Keys \ {k} : rec'[j] = rec[j]
    OBVIOUS
  <1>2. x \in known
    BY <1>1
  <1>3. \A q \in known : q = x \/ (q.updated \in Nat /\ q.updated <= now)
    BY <1>1, RecordType
  <1>4. Latest' = IF known = {} THEN {NoRec} ELSE {r \in known : \A q \in known : q.updated <= r.updated}
    BY DEF Latest
  <1> HIDE DEF known
  <1>5. \A q \in known : q.updated <= x.updated
    BY <1>3
  <1>6. \A r \in known : (\A q \in known : q.updated <= r.updated) => r = x
    <2> SUFFICES ASSUME NEW r \in known, x.updated <= r.updated PROVE r = x
      BY <1>2
    <2> QED BY <1>3
  <1> QED BY <1>2, <1>4, <1>5, <1>6

LEMMA ReadyTypes ==
    ASSUME ReadyInv
    PROVE  /\ rec \in [Keys -> Record] /\ run \in [Runs -> Call] /\ now \in Nat
           /\ client \in [exists : BOOLEAN, enabled : BOOLEAN, secret : Secrets \cup {None}]
           /\ sink \in [Secrets -> {"unused", "active", "revoked", "lost"}]
           /\ plan \in [gated : BOOLEAN, confidential : BOOLEAN] /\ overlap \in BOOLEAN
           /\ \A r \in Runs : CallFits(run[r])
           /\ \A k \in Keys : rec[k].updated <= now
  BY TypeInvParts, CallsFit DEF ReadyInv, FinalInv, RecordsFit

\* How a call goes on from a save.
LEMMA AfterIs ==
    ASSUME NEW r \in Runs, run[r] \in Call, NEW x \in Record, NEW then \in {"resume", "execute", "find"}
    PROVE  LET c == After(r, x, then)
           IN  /\ c.pc = IF then = "find" THEN "find" ELSE "execute"
               /\ c.key = run[r].key /\ c.op = run[r].op /\ c.cur = x
               /\ c.prev = IF then = "resume" THEN x ELSE run[r].prev
               /\ c.secret = run[r].secret /\ c.verified = run[r].verified
               /\ c.result = run[r].result
  BY DEF After, Call

LEMMA StoredIsReady ==
    ASSUME ReadyInv, ~ Coarse, NEW r \in Runs, NEW next, NEW then, SaveFor(r, next, then),
           NEW t \in Nat, Stored(r, At(next, t), then)
    PROVE  /\ NamedIsStored' /\ ResultsFit' /\ OnlyCreates' /\ PreflightFits'
           /\ ~ overlap' => Alone'
           /\ ReadyIsUsable'
  <1> DEFINE x == At(next, t)
             c == After(r, x, then)
             k == run[r].key
  <1>1. /\ x \in Record /\ x.state = next.state /\ x.op = next.op /\ x.gate = next.gate
        /\ x.secret = next.secret /\ Exists(x) /\ x.updated = t
    BY AtFields DEF SaveFor
  <1>2. /\ run[r] \in Call /\ k \in Keys /\ run[r].pc # "idle"
        /\ rec \in [Keys -> Record] /\ run \in [Runs -> Call] /\ now \in Nat
    BY ReadyTypes DEF CallFits, SaveFor
  <1>3. /\ rec' = [rec EXCEPT ![k] = x] /\ run' = [run EXCEPT ![r] = c] /\ x.updated = now + 1
        /\ UNCHANGED <<plan, overlap, client, sink>>
    BY DEF Stored, SaveFor
  <1>4. rec'[k] = x /\ \A j \in Keys \ {k} : rec'[j] = rec[j]
    BY <1>2, <1>3
  <1>5. run'[r] = c /\ \A q \in Runs \ {r} : run'[q] = run[q]
    BY <1>2, <1>3
  <1>6. Latest' = {x}
    BY <1>1, <1>2, <1>3, ReadyTypes, SavedIsLatest
  <1>7. then = "idle" => c = Idle
    BY DEF After
  <1>8. then # "idle" =>
          /\ c.pc = IF then = "find" THEN "find" ELSE "execute"
          /\ c.key = k /\ c.op = run[r].op /\ c.cur = x
          /\ c.prev = IF then = "resume" THEN x ELSE run[r].prev
          /\ c.secret = run[r].secret /\ c.verified = run[r].verified /\ c.result = run[r].result
          /\ run[r].pc \in {"recover", "start", "decide", "execute"}
    BY <1>1, <1>2, AfterIs DEF SaveFor
  <1>9. then = "idle" \/ then \in {"resume", "execute", "find"}
    BY DEF SaveFor
  <1> HIDE DEF x, c, k
  <1>10. Kept(x.secret)
    BY <1>1 DEF SaveFor
  <1>11. NamedIsStored'
    <2>1. \A s : Kept(s)' <=> Kept(s)
      BY <1>3 DEF Kept, StoredIn
    <2>2. Kept(Idle.cur.secret) /\ Kept(Idle.prev.secret) /\ Kept(Idle.secret)
      BY DEF Idle, NoRec, Kept, StoredIn
    <2>3. Kept(c.cur.secret) /\ Kept(c.prev.secret) /\ Kept(c.secret)
      BY <1>7, <1>8, <1>10, <2>2 DEF ReadyInv, NamedIsStored
    <2>4. \A j \in Keys : Kept(rec'[j].secret)
      BY <1>4, <1>10 DEF ReadyInv, NamedIsStored
    <2>5. \A q \in Runs : /\ Kept(run'[q].cur.secret) /\ Kept(run'[q].prev.secret)
                          /\ run'[q].pc # "throw" => Kept(run'[q].secret)
      BY <1>5, <2>3 DEF ReadyInv, NamedIsStored
    <2> QED BY <2>1, <2>4, <2>5 DEF NamedIsStored
  <1>12. ResultsFit'
    BY <1>5, <1>7, <1>8 DEF ReadyInv, ResultsFit, ResultFits, Idle
  <1>13. OnlyCreates'
    <2> SUFFICES ASSUME plan.gated
                 PROVE  /\ \A j \in Keys : Exists(rec'[j]) =>
                              rec'[j].op = "create" /\ rec'[j].state # "retired"
                        /\ \A q \in Runs : run'[q].pc # "idle" =>
                              /\ run'[q].op = "create"
                              /\ Exists(run'[q].cur) => run'[q].cur.op = "create"
                              /\ IF Exists(run'[q].prev) THEN run'[q].prev.state # "retired"
                                 ELSE run'[q].prev.gate # "approved"
      BY <1>3 DEF OnlyCreates, Exists
    <2>1. x.op = "create" /\ x.state # "retired"
      BY <1>1 DEF SaveFor
    <2>2. /\ run[r].op = "create"
          /\ IF Exists(run[r].prev) THEN run[r].prev.state # "retired"
             ELSE run[r].prev.gate # "approved"
      BY <1>2 DEF ReadyInv, OnlyCreates
    <2>3. c.pc # "idle" => /\ c.op = "create" /\ c.cur.op = "create"
                           /\ IF Exists(c.prev) THEN c.prev.state # "retired"
                              ELSE c.prev.gate # "approved"
      BY <1>1, <1>7, <1>8, <2>1, <2>2 DEF Idle
    <2> QED BY <1>4, <1>5, <2>1, <2>3 DEF ReadyInv, OnlyCreates
  <1>14. PreflightFits'
    BY <1>1, <1>4 DEF ReadyInv, PreflightFits, SaveFor
  <1>15. ASSUME ~ overlap PROVE Alone'
    <2>1. /\ \A q \in Runs : run[q].pc # "idle" => q = r
          /\ Informed(r)
      BY <1>2, <1>15 DEF ReadyInv, Alone
    <2>2. \A q \in Runs : run'[q].pc # "idle" => q = r /\ then # "idle"
      BY <1>5, <1>7, <2>1 DEF Idle
    <2> SUFFICES ASSUME then # "idle"
                 PROVE  /\ rec'[run'[r].key] = run'[r].cur
                        /\ AtWork(run'[r]) => Working(run'[r].cur)
                        /\ run'[r].pc = "execute" =>
                             /\ Working(run'[r].cur) \/ run'[r].cur.state = "preflight"
                             /\ plan.gated /\ run'[r].cur.state = "preflight"
                                  => run'[r].prev.gate # "approved"
                        /\ Informed(r)'
      BY <2>2, <1>3 DEF Alone
    <2>3. rec'[run'[r].key] = run'[r].cur
      BY <1>4, <1>5, <1>8
    <2>4. AtWork(run'[r]) => Working(run'[r].cur)
      BY <1>1, <1>5, <1>8, <1>9 DEF AtWork, AdapterSteps, SaveFor, Working
    <2>5. run'[r].pc = "execute" =>
            /\ Working(run'[r].cur) \/ run'[r].cur.state = "preflight"
            /\ plan.gated /\ run'[r].cur.state = "preflight" => run'[r].prev.gate # "approved"
      BY <1>1, <1>5, <1>8, <1>9 DEF SaveFor, Working
    <2>6. Informed(r)'
      BY <1>5, <1>8, <2>1 DEF Informed, Knowing, Supplied
    <2> QED BY <2>3, <2>4, <2>5, <2>6
  <1>16. ReadyIsUsable'
    <2> SUFFICES ASSUME ~ overlap, x.state = "ready" PROVE Usable(x)
      BY <1>3, <1>6 DEF ReadyIsUsable, Usable
    <2> QED BY <1>1 DEF SaveFor, Usable
  <1> QED BY <1>3, <1>11, <1>12, <1>13, <1>14, <1>15, <1>16

\* The parts of the invariant that FinalInv and SecretInv do not contain.
ReadyParts ==
    /\ NamedIsStored /\ ResultsFit /\ OnlyCreates /\ PreflightFits
    /\ ~ overlap => Alone
    /\ ReadyIsUsable

-----------------------------------------------------------------------------
(* Steps that save nothing *)

\* Call r alone changes, and it names stored versions; the client and the secret
\* manager change only while its record is in a working state.
MoveFor(r) ==
    /\ run' = [run EXCEPT ![r] = run'[r]]
    /\ UNCHANGED <<plan, overlap, now, rec>>
    /\ \A s \in Secrets : Kept(s) => Kept(s)'
    /\ LET c == run'[r]
       IN  /\ StoredIn(sink', c.cur.secret) /\ StoredIn(sink', c.prev.secret)
           /\ (c.pc # "throw" => StoredIn(sink', c.secret))
           /\ ResultFits(c)
           /\ c.pc # "idle" /\ plan.gated =>
                 /\ c.op = "create"
                 /\ Exists(c.cur) => c.cur.op = "create"
                 /\ IF Exists(c.prev) THEN c.prev.state # "retired" ELSE c.prev.gate # "approved"
           /\ c.pc # "idle" /\ ~ overlap =>
                 /\ run[r].pc # "idle" \/ \A q \in Runs : run[q].pc = "idle"
                 /\ rec[c.key] = c.cur
                 /\ AtWork(c) => Working(c.cur)
                 /\ c.pc = "execute" =>
                       /\ Working(c.cur) \/ c.cur.state = "preflight"
                       /\ plan.gated /\ c.cur.state = "preflight" => c.prev.gate # "approved"
                 /\ Informed(r)'
    /\ (client' = client /\ sink' = sink) \/ AtWork(run[r])

LEMMA MoveKeepsReady ==
    ASSUME ReadyInv, NEW r \in Runs, MoveFor(r) PROVE ReadyParts'
  <1> DEFINE c == run'[r]
  <1>1. /\ rec \in [Keys -> Record] /\ run \in [Runs -> Call] /\ \A q \in Runs : CallFits(run[q])
    BY ReadyTypes
  <1>2. /\ \A q \in Runs \ {r} : run'[q] = run[q]
        /\ UNCHANGED <<plan, overlap, now, rec>>
    BY <1>1 DEF MoveFor
  <1>3. /\ StoredIn(sink', c.cur.secret) /\ StoredIn(sink', c.prev.secret)
        /\ (c.pc # "throw" => StoredIn(sink', c.secret))
        /\ ResultFits(c)
    BY DEF MoveFor
  <1>4. c.pc # "idle" /\ plan.gated =>
           /\ c.op = "create"
           /\ Exists(c.cur) => c.cur.op = "create"
           /\ IF Exists(c.prev) THEN c.prev.state # "retired" ELSE c.prev.gate # "approved"
    BY DEF MoveFor
  <1>5. c.pc # "idle" /\ ~ overlap =>
           /\ run[r].pc # "idle" \/ \A q \in Runs : run[q].pc = "idle"
           /\ rec[c.key] = c.cur
           /\ AtWork(c) => Working(c.cur)
           /\ c.pc = "execute" =>
                 /\ Working(c.cur) \/ c.cur.state = "preflight"
                 /\ plan.gated /\ c.cur.state = "preflight" => c.prev.gate # "approved"
           /\ Informed(r)'
    BY DEF MoveFor
  <1> HIDE DEF c
  <1>6. NamedIsStored'
    <2>1. \A s \in Secrets \cup {None} : Kept(s) => Kept(s)'
      BY DEF Kept, StoredIn, MoveFor
    <2>2. ASSUME NEW k \in Keys PROVE rec[k].secret \in Secrets \cup {None}
      BY <1>1, RecordType
    <2>3. ASSUME NEW q \in Runs PROVE /\ run[q].cur.secret \in Secrets \cup {None}
                                      /\ run[q].prev.secret \in Secrets \cup {None}
                                      /\ run[q].secret \in Secrets \cup {None}
      <3>1. run[q].cur \in Record /\ run[q].prev \in Record /\ run[q].secret \in Secrets \cup {None}
        BY <1>1 DEF Call
      <3> QED BY <3>1, RecordType
    <2>4. \A k \in Keys : Kept(rec[k].secret)'
      BY <1>2, <2>1, <2>2 DEF ReadyInv, NamedIsStored
    <2>5. \A q \in Runs : /\ StoredIn(sink', run'[q].cur.secret) /\ StoredIn(sink', run'[q].prev.secret)
                          /\ run'[q].pc # "throw" => StoredIn(sink', run'[q].secret)
      BY <1>2, <1>3, <2>1, <2>3 DEF ReadyInv, NamedIsStored, Kept, c
    <2> QED BY <1>2, <2>4, <2>5 DEF NamedIsStored, Kept
  <1>7. ResultsFit'
    BY <1>2, <1>3 DEF ReadyInv, ResultsFit, c
  <1>8. OnlyCreates'
    BY <1>2, <1>4 DEF ReadyInv, OnlyCreates, Exists, c
  <1>9. PreflightFits'
    BY <1>2 DEF ReadyInv, PreflightFits
  <1>10. ASSUME ~ overlap PROVE Alone'
    <2>1. Alone
      BY <1>10 DEF ReadyInv
    <2>2. ASSUME NEW q \in Runs, q # r, run'[q].pc # "idle"
          PROVE  /\ run[q].pc # "idle" /\ run'[q] = run[q] /\ c.pc = "idle"
                 /\ client' = client /\ sink' = sink
      <3>1. run'[q] = run[q] /\ run[q].pc # "idle"
        BY <1>2, <2>2
      <3>2. run[r].pc = "idle"
        BY <2>1, <2>2, <3>1 DEF Alone
      <3>3. c.pc = "idle"
        BY <1>5, <1>10, <3>1, <3>2
      <3>4. ~ AtWork(run[r])
        BY <3>2 DEF AtWork, AdapterSteps
      <3> QED BY <3>1, <3>3, <3>4 DEF MoveFor
    <2>3. \A p, q \in Runs : run'[p].pc # "idle" /\ run'[q].pc # "idle" => p = q
      BY <2>1, <2>2 DEF Alone, c
    <2>4. ASSUME NEW q \in Runs, q # r, run'[q].pc # "idle"
          PROVE  /\ rec'[run'[q].key] = run'[q].cur
                 /\ AtWork(run'[q]) => Working(run'[q].cur)
                 /\ run'[q].pc = "execute" =>
                       /\ Working(run'[q].cur) \/ run'[q].cur.state = "preflight"
                       /\ plan'.gated /\ run'[q].cur.state = "preflight" =>
                             run'[q].prev.gate # "approved"
                 /\ Informed(q)'
      <3>1. /\ run[q].pc # "idle" /\ run'[q] = run[q] /\ client' = client /\ sink' = sink
            /\ rec' = rec /\ plan' = plan
        BY <1>2, <2>2, <2>4
      <3>2. Informed(q)'
        BY <2>1, <3>1 DEF Alone, Informed, Knowing, Supplied, Verified
      <3> QED BY <2>1, <3>1, <3>2 DEF Alone
    <2>5. ASSUME c.pc # "idle"
          PROVE  /\ rec'[c.key] = c.cur
                 /\ AtWork(c) => Working(c.cur)
                 /\ c.pc = "execute" =>
                       /\ Working(c.cur) \/ c.cur.state = "preflight"
                       /\ plan'.gated /\ c.cur.state = "preflight" => c.prev.gate # "approved"
                 /\ Informed(r)'
      BY <1>2, <1>5, <1>10, <2>5
    <2> QED BY <2>3, <2>4, <2>5 DEF Alone, AtWork, Working, c
  <1>11. ReadyIsUsable'
    <2>1. Latest' = Latest
      BY <1>2 DEF Latest, Exists
    <2>2. CASE client' = client /\ sink' = sink
      BY <1>2, <2>1, <2>2 DEF ReadyInv, ReadyIsUsable
    <2>3. CASE AtWork(run[r])
      <3> SUFFICES ASSUME ~ overlap PROVE \E k \in Keys : rec'[k].state \in {"provisioning", "recovering"}
        BY <1>2 DEF ReadyIsUsable
      <3>1. run[r].pc # "idle" /\ run[r].key \in Keys
        BY <1>1, <2>3 DEF AtWork, AdapterSteps, CallFits
      <3>2. Working(rec[run[r].key])
        BY <2>3, <3>1 DEF ReadyInv, Alone
      <3> QED BY <1>2, <3>1, <3>2 DEF Working
    <2> QED BY <2>2, <2>3 DEF MoveFor
  <1> QED BY <1>2, <1>6, <1>7, <1>8, <1>9, <1>10, <1>11 DEF ReadyParts

LEMMA SaveKeepsReady ==
    ASSUME ReadyInv, ~ Coarse, NEW r \in Runs, NEW next, NEW then, SaveFor(r, next, then)
    PROVE  ReadyParts'
  <1>1. /\ next \in Record /\ now \in Nat /\ Save(r, next, then) /\ run \in [Runs -> Call]
        /\ UNCHANGED <<plan, overlap, client, sink>>
    BY ReadyTypes DEF SaveFor
  <1>2. CASE Refused(r)
    <2>1. run'[r] = Idle /\ run' = [run EXCEPT ![r] = run'[r]]
      BY <1>1, <1>2 DEF Refused
    <2>2. UNCHANGED <<plan, overlap, now, rec, client, sink>>
      BY <1>1, <1>2 DEF Refused
    <2>3. \A s : Kept(s) <=> Kept(s)'
      BY <2>2 DEF Kept
    <2>4. Kept(Idle.cur.secret) /\ Kept(Idle.prev.secret) /\ Kept(Idle.secret)
      BY DEF Kept, StoredIn, Idle, NoRec
    <2>5. Idle.pc = "idle" /\ Idle.result = "none" /\ ResultFits(Idle)
      BY DEF Idle, ResultFits
    <2>6. MoveFor(r)
      BY <2>1, <2>2, <2>3, <2>4, <2>5 DEF MoveFor, Kept
    <2> QED BY <2>6, MoveKeepsReady
  <1>3. ASSUME NEW t \in Nat, Stored(r, At(next, t), then) PROVE ReadyParts'
    BY <1>3, StoredIsReady DEF ReadyParts
  <1> QED BY <1>1, <1>2, <1>3, SaveCases

-----------------------------------------------------------------------------
(* The saving steps *)

LEMMA CallParts ==
    ASSUME ReadyInv, NEW r \in Runs
    PROVE  /\ run[r] \in Call /\ run[r].cur \in Record /\ run[r].prev \in Record
           /\ run[r].op \in Operations \cup {None} /\ run[r].secret \in Secrets \cup {None}
           /\ run[r].pc \notin {"idle", "latest", "start"} => Exists(run[r].cur)
           /\ Kept(run[r].cur.secret) /\ Kept(run[r].prev.secret)
           /\ run[r].pc # "throw" => Kept(run[r].secret)
           /\ Kept(None)
           /\ plan.gated /\ run[r].pc # "idle" =>
                 /\ run[r].op = "create" /\ run[r].result # "retired"
                 /\ Exists(run[r].cur) => run[r].cur.op = "create"
  <1>1. CallFits(run[r]) /\ run[r] \in Call
    BY ReadyTypes
  <1>2. "create" # "retire"
    OBVIOUS
  <1> QED BY <1>1, <1>2 DEF CallFits, Call, ReadyInv, NamedIsStored, OnlyCreates, ResultsFit, ResultFits, Kept,
                            StoredIn

LEMMA RecoverReady ==
    ASSUME ReadyInv, NEW r \in Runs, Recover(r) PROVE \E next, then : SaveFor(r, next, then)
  <1> DEFINE next == [run[r].cur EXCEPT !.state = "recovering"]
  <1>1. run[r].pc = "recover" /\ run[r].cur \in Record
    BY CallParts DEF Recover
  <1>2. /\ next \in Record /\ next.state = "recovering" /\ next.secret = run[r].cur.secret
        /\ next.op = run[r].cur.op
    BY <1>1, RecordType DEF States
  <1>3. Save(r, next, "resume") /\ UNCHANGED <<plan, overlap, client, sink>>
    BY DEF Recover
  <1> HIDE DEF next
  <1>4. SaveFor(r, next, "resume")
    BY <1>1, <1>2, <1>3, CallParts DEF SaveFor, Exists, Working
  <1> QED BY <1>4

LEMMA StartReady ==
    ASSUME ReadyInv, NEW r \in Runs, Start(r) PROVE \E next, then : SaveFor(r, next, then)
  <1> DEFINE first == [NoRec EXCEPT !.op = run[r].op]
             refused == [first EXCEPT !.state = "failed", !.error = "final"]
             begun == [first EXCEPT !.state = "preflight",
                           !.secret = IF run[r].op = "create" THEN None ELSE run[r].prev.secret,
                           !.revoked = run[r].op # "create" /\ run[r].prev.revoked]
  <1>1. /\ run[r].pc = "start" /\ run[r].prev \in Record /\ run[r].op \in Operations \cup {None}
        /\ UNCHANGED <<plan, overlap, client, sink>>
    BY CallParts DEF Start
  <1>2. refused \in Record /\ begun \in Record
    <2>1. first \in Record
      BY <1>1, RecordType, BlankTypes
    <2>2. (IF run[r].op = "create" THEN None ELSE run[r].prev.secret) \in Secrets \cup {None}
      BY <1>1, RecordType
    <2>3. (run[r].op # "create" /\ run[r].prev.revoked) \in BOOLEAN
      BY Zenon
    <2> HIDE DEF first
    <2> QED BY <2>1, <2>2, <2>3, RecordType DEF States
  <1>3. /\ refused.state = "failed" /\ refused.secret = None /\ refused.op = run[r].op
        /\ begun.state = "preflight" /\ begun.gate = "none" /\ begun.op = run[r].op
        /\ begun.secret \in {None, run[r].prev.secret}
    BY DEF NoRec
  <1>4. \/ Save(r, refused, "idle")
        \/ Save(r, begun, "execute") /\ ~ Duplicate(r)
    BY DEF Start
  <1> HIDE DEF refused, begun
  <1>5. plan.gated /\ ~ Duplicate(r) => run[r].prev.gate # "approved"
    BY <1>1 DEF ReadyInv, OnlyCreates, Duplicate
  <1>6. SaveFor(r, refused, "idle") \/ SaveFor(r, begun, "execute")
    BY <1>1, <1>2, <1>3, <1>4, <1>5, CallParts DEF SaveFor, Exists
  <1> QED BY <1>6

LEMMA DecideReady ==
    ASSUME ReadyInv, NEW r \in Runs, NEW decision \in Decisions, Decide(r, decision)
    PROVE  \E next, then : SaveFor(r, next, then)
  <1> DEFINE decided == [run[r].cur EXCEPT !.gate = decision]
             go == [decided EXCEPT !.state = "provisioning"]
             stop == [decided EXCEPT !.state = "failed",
                         !.error = IF decision = "denied" THEN "final" ELSE "retryable"]
  <1>1. run[r].pc = "decide" /\ run[r].cur \in Record
    BY CallParts DEF Decide
  <1>2. /\ go \in Record /\ go.state = "provisioning" /\ go.secret = run[r].cur.secret
        /\ go.op = run[r].cur.op
        /\ stop \in Record /\ stop.state = "failed" /\ stop.secret = run[r].cur.secret
        /\ stop.op = run[r].cur.op
    BY <1>1, RecordType DEF States
  <1>3. /\ Save(r, go, "resume") \/ Save(r, stop, "idle")
        /\ UNCHANGED <<plan, overlap, client, sink>>
    BY DEF Decide
  <1> HIDE DEF go, stop
  <1>4. SaveFor(r, go, "resume") \/ SaveFor(r, stop, "idle")
    BY <1>1, <1>2, <1>3, CallParts DEF SaveFor, Exists, Working
  <1> QED BY <1>4

LEMMA RejectReady ==
    ASSUME ReadyInv, NEW r \in Runs, RejectDecision(r) PROVE \E next, then : SaveFor(r, next, then)
  <1>1. /\ run[r].pc = "decide" /\ run[r].cur \in Record /\ run[r].cur.state = "awaiting-authority"
        /\ Save(r, run[r].cur, "idle") /\ UNCHANGED <<plan, overlap, client, sink>>
    BY ReadyTypes, CallParts DEF RejectDecision, CallFits
  <1>2. SaveFor(r, run[r].cur, "idle")
    BY <1>1, CallParts DEF SaveFor, Exists, Working
  <1> QED BY <1>2

LEMMA ThrowReady ==
    ASSUME ReadyInv, NEW r \in Runs, Throw(r) PROVE \E next, then : SaveFor(r, next, then)
  <1> DEFINE next == [run[r].cur EXCEPT !.state = "failed", !.error = "retryable"]
  <1>1. /\ run[r].pc = "throw" /\ run[r].cur \in Record
        /\ Save(r, next, "idle") /\ UNCHANGED <<plan, overlap, client, sink>>
    BY CallParts DEF Throw
  <1>2. /\ next \in Record /\ next.state = "failed" /\ next.secret = run[r].cur.secret
        /\ next.op = run[r].cur.op
    BY <1>1, RecordType DEF States
  <1> HIDE DEF next
  <1>3. SaveFor(r, next, "idle")
    BY <1>1, <1>2, CallParts DEF SaveFor, Exists, Working
  <1> QED BY <1>3

\* What the adapter's result makes of the record.
LEMMA AppliedIs ==
    ASSUME NEW r \in Runs, run[r] \in Call, Exists(run[r].cur)
    PROVE  LET x == Applied(r)
           IN  /\ x.op = run[r].cur.op /\ x.state # "preflight"
               /\ x.state = "retired" => run[r].result = "retired" \/ run[r].cur.state = "retired"
               /\ x.state = "ready" =>
                     /\ run[r].result = "validating" /\ run[r].verified /\ run[r].enabled
                     /\ x.secret = SecretAfter(r)
                     /\ plan.confidential => x.secret # None
  <1> DEFINE cur == run[r].cur
             revoked == run[r].result = "retired" \/ (run[r].secret = None /\ cur.revoked)
             gate == IF cur.gate = "approved" THEN "approved" ELSE "none"
             next == [cur EXCEPT !.state = run[r].result, !.error = "none",
                        !.secret = SecretAfter(r), !.revoked = revoked, !.gate = gate]
             final == [cur EXCEPT !.state = "failed", !.error = "final"]
             pending == [next EXCEPT !.gate = "pending"]
             ready == [next EXCEPT !.state = "ready"]
             retry == [next EXCEPT !.state = "failed", !.error = "retryable"]
  <1>0. Applied(r) =
          IF run[r].result \notin Transitions[cur.state] THEN final
          ELSE CASE run[r].result = "awaiting-authority" -> pending
                 [] run[r].result = "disabled" -> next
                 [] run[r].result = "retired" -> IF RetiredIsValid(next) THEN next ELSE final
                 [] OTHER -> IF Ready(r, next) THEN ready ELSE retry
    BY DEF Applied
  <1>1. cur \in Record /\ cur.state \in States
    BY RecordType DEF Call, Exists
  <1>2. run[r].result \in Transitions[cur.state] => run[r].result # "none"
    BY <1>1 DEF Transitions, States
  <1> HIDE DEF revoked, gate
  <1>3. /\ next.op = cur.op /\ next.state = run[r].result /\ next.secret = SecretAfter(r)
        /\ pending.op = cur.op /\ pending.state = run[r].result
        /\ ready.op = cur.op /\ ready.secret = SecretAfter(r) /\ ready.state = "ready"
        /\ retry.op = cur.op /\ retry.state = "failed"
        /\ final.op = cur.op /\ final.state = "failed"
    BY <1>1, RecordType
  <1>4. Ready(r, next) => run[r].verified /\ run[r].enabled
                          /\ (plan.confidential => next.secret # None)
    BY DEF Ready, Active
  <1>5. run[r].result \in {"none", "awaiting-authority", "validating", "disabled", "retired"}
    BY DEF Call
  <1> HIDE DEF next, pending, ready, retry, final, cur
  <1>6. CASE Applied(r) = final
    BY <1>3, <1>6 DEF cur
  <1>7. CASE Applied(r) = next /\ run[r].result \in {"disabled", "retired"}
    BY <1>3, <1>7 DEF cur
  <1>8. CASE Applied(r) = pending /\ run[r].result = "awaiting-authority"
    BY <1>3, <1>8 DEF cur
  <1>9. CASE Applied(r) = retry
    BY <1>3, <1>9 DEF cur
  <1>10. CASE Applied(r) = ready /\ Ready(r, next) /\ run[r].result = "validating"
    BY <1>3, <1>4, <1>10 DEF cur
  <1> QED BY <1>0, <1>2, <1>5, <1>6, <1>7, <1>8, <1>9, <1>10

\* A call that is alone and may call its record ready knows that the client is usable.
LEMMA VerifiedIsUsable ==
    ASSUME ReadyInv, ~ overlap, NEW r \in Runs, run[r].pc = "apply", run[r].result = "validating",
           run[r].verified, run[r].enabled,
           NEW x \in Record, x.secret = SecretAfter(r), plan.confidential => x.secret # None
    PROVE  Usable(x)
  <1>1. Informed(r) /\ run[r].op # "retire"
    BY DEF ReadyInv, Alone, ResultsFit, ResultFits
  <1>2. client.exists /\ client.enabled /\ Verified(r) /\ Supplied(run[r])
    BY <1>1 DEF Informed, Knowing, Supplied
  <1>3. CASE ~ plan.confidential
    BY <1>2, <1>3 DEF Usable
  <1>4. CASE plan.confidential /\ run[r].op \in Generating
    <2>1. run[r].secret # None /\ client.secret = run[r].secret /\ sink[run[r].secret] = "active"
      BY <1>1, <1>2, <1>4 DEF Informed
    <2>2. x.secret = run[r].secret
      BY <2>1 DEF SecretAfter
    <2> QED BY <1>2, <2>1, <2>2 DEF Usable
  <1>5. CASE plan.confidential /\ run[r].op \notin Generating
    <2>1. run[r].secret = None
      BY <1>1, <1>5 DEF Informed
    <2>2. Active(run[r].prev) /\ client.secret = run[r].prev.secret
      BY <1>2, <1>5 DEF Verified
    <2>3. x.secret = run[r].prev.secret /\ run[r].prev.secret # None
      BY <1>5, <2>1, <2>2 DEF SecretAfter, Active
    <2>4. sink[run[r].prev.secret] \in {"active", "revoked"}
      BY <2>3, CallParts DEF Kept, StoredIn
    <2>5. sink[client.secret] # "revoked"
      BY <1>2, <2>2, <2>3 DEF ReadyInv, SecretInv, CurrentSecretIsKept
    <2> QED BY <1>2, <2>2, <2>3, <2>4, <2>5 DEF Usable
  <1> QED BY <1>3, <1>4, <1>5

LEMMA ApplyReady ==
    ASSUME ReadyInv, NEW r \in Runs, Apply(r) PROVE \E next, then : SaveFor(r, next, then)
  <1> DEFINE x == Applied(r)
  <1>1. /\ run[r] \in Call /\ run[r].pc = "apply" /\ Contract(run[r].cur) /\ Exists(run[r].cur)
    BY ReadyTypes DEF CallFits, Apply
  <1>2. Follows(r, x)
    BY <1>1, AppliedFollows
  <1>3. /\ x.op = run[r].cur.op /\ x.state # "preflight"
        /\ x.state = "retired" => run[r].result = "retired" \/ run[r].cur.state = "retired"
        /\ x.state = "ready" =>
              /\ run[r].result = "validating" /\ run[r].verified /\ run[r].enabled
              /\ x.secret = SecretAfter(r)
              /\ plan.confidential => x.secret # None
    BY <1>1, AppliedIs
  <1>4. Save(r, x, "idle") /\ UNCHANGED <<plan, overlap, client, sink>>
    BY DEF Apply
  <1>5. run[r].cur.state # "retired"
    BY <1>1 DEF ReadyInv, FinalInv, HeldIsOpen, Settled
  <1> HIDE DEF x
  <1>6. x.state = "ready" /\ ~ overlap => Usable(x)
    BY <1>1, <1>2, <1>3, VerifiedIsUsable DEF Follows
  <1>7. SaveFor(r, x, "idle")
    BY <1>1, <1>2, <1>3, <1>4, <1>5, <1>6, CallParts DEF SaveFor, Follows
  <1> QED BY <1>7

-----------------------------------------------------------------------------
(* The steps that save nothing *)

\* The call goes on with the records it holds.
LEMMA GoingOn ==
    ASSUME ReadyInv, NEW r \in Runs, NEW c, MoveBy(r, c), ResultFits(c),
           (client' = client /\ sink' = sink) \/ AtWork(run[r]),
           \A s \in Secrets : Kept(s) => Kept(s)',
           c.pc # "throw" => StoredIn(sink', c.secret),
           ~ overlap => (AtWork(c) => Working(c.cur)) /\ Informed(r)'
    PROVE  MoveFor(r)
  <1>1. /\ run \in [Runs -> Call] /\ run[r].pc # "idle" /\ run' = [run EXCEPT ![r] = c]
        /\ c.key = run[r].key /\ c.op = run[r].op /\ c.cur = run[r].cur /\ c.prev = run[r].prev
        /\ c.pc \in AdapterSteps \cup {"apply", "throw"}
        /\ UNCHANGED <<plan, overlap, now, rec>>
    BY ReadyTypes DEF MoveBy
  <1>2. run'[r] = c
    BY <1>1
  <1>3. StoredIn(sink', c.cur.secret) /\ StoredIn(sink', c.prev.secret)
    <2>1. run[r].cur.secret \in Secrets \cup {None} /\ run[r].prev.secret \in Secrets \cup {None}
      BY CallParts, RecordType
    <2> QED BY <1>1, <2>1, CallParts DEF Kept, StoredIn
  <1>4. c.pc # "execute" /\ c.pc # "idle"
    BY <1>1 DEF AdapterSteps
  <1>5. plan.gated =>
           /\ c.op = "create"
           /\ Exists(c.cur) => c.cur.op = "create"
           /\ IF Exists(c.prev) THEN c.prev.state # "retired" ELSE c.prev.gate # "approved"
    BY <1>1 DEF ReadyInv, OnlyCreates
  <1>6. ~ overlap => rec[c.key] = c.cur
    BY <1>1 DEF ReadyInv, Alone
  <1> QED BY <1>1, <1>2, <1>3, <1>4, <1>5, <1>6 DEF MoveFor

\* What a call that is at step pc knows, if it does not overlap.
LEMMA AdapterParts ==
    ASSUME ReadyInv, NEW r \in Runs
    PROVE  /\ run[r] \in Call /\ StepFits(run[r]) /\ ResultFits(run[r])
           /\ run[r].result = "awaiting-authority" => run[r].pc = "apply"
           /\ ~ overlap /\ run[r].pc # "idle" =>
                  Informed(r) /\ (AtWork(run[r]) => Working(run[r].cur))
  BY ReadyTypes DEF ReadyInv, SecretInv, StepsFit, ResultsFit, GateInv, GateKnown, Alone

LEMMA FindReady ==
    ASSUME ReadyInv, NEW r \in Runs, Find(r) PROVE MoveFor(r)
  <1> DEFINE pc == IF ~ client.exists
                   THEN CASE run[r].op = "create" -> "write"
                          [] run[r].op = "retire" -> "revoke"
                          [] OTHER -> "throw"
                   ELSE CASE run[r].op = "create" /\ ~ Exists(run[r].prev) -> "throw"
                          [] run[r].op = "validate" -> "observe"
                          [] run[r].op = "rotate" -> IF ~ plan.confidential THEN "observe"
                                                     ELSE IF Active(run[r].prev) THEN "secret"
                                                     ELSE "throw"
                          [] OTHER -> "write"
             c == [run[r] EXCEPT !.before = client.exists, !.enabled = client.enabled, !.pc = pc]
  <1>1. /\ run[r] \in Call /\ StepFits(run[r]) /\ ResultFits(run[r]) /\ run \in [Runs -> Call]
        /\ client.exists \in BOOLEAN /\ client.enabled \in BOOLEAN
    BY AdapterParts, ReadyTypes
  <1>2. /\ run' = [run EXCEPT ![r] = c] /\ run[r].pc = "find"
        /\ UNCHANGED <<plan, overlap, now, rec, client, sink, requests, faults>>
    BY DEF Find, Reads
  <1>3. /\ pc \in {"write", "revoke", "throw", "observe", "secret"}
        /\ pc = "write" => run[r].op \notin {"rotate", "validate"}
        /\ pc = "observe" => \/ run[r].op = "validate" /\ client.exists
                             \/ run[r].op = "rotate" /\ client.exists /\ ~ plan.confidential
        /\ pc = "secret" => run[r].op = "rotate" /\ client.exists
        /\ pc = "revoke" => run[r].op = "retire"
    OBVIOUS
  <1> HIDE DEF pc
  <1>4. /\ c \in Call /\ c.key = run[r].key /\ c.op = run[r].op /\ c.cur = run[r].cur /\ c.pc = pc
        /\ c.prev = run[r].prev /\ c.secret = run[r].secret /\ c.result = run[r].result
        /\ c.enabled = client.enabled /\ c.verified = run[r].verified
    BY ZenonT(40), <1>1, <1>3 DEF Call, AdapterSteps
  <1> HIDE DEF c
  <1>5. run[r].secret = None /\ StepFits(c) /\ ResultFits(c)
    BY <1>1, <1>2, <1>3, <1>4 DEF StepFits, ResultFits, Generating
  <1>6. MoveBy(r, c)
    BY <1>1, <1>2, <1>3, <1>4, <1>5, AdapterParts DEF MoveBy, AdapterSteps
  <1>7. \A s : Kept(s) <=> Kept(s)'
    BY <1>2 DEF Kept
  <1>8. StoredIn(sink', c.secret)
    BY <1>4, <1>5 DEF StoredIn
  <1>9. ASSUME ~ overlap PROVE (AtWork(c) => Working(c.cur)) /\ Informed(r)'
    <2>1. Informed(r) /\ Working(run[r].cur)
      BY <1>2, <1>9, AdapterParts DEF AtWork, AdapterSteps
    <2>2. run'[r] = c
      BY <1>1, <1>2
    <2>3. ~ c.verified
      BY <1>2, <1>4, <2>1 DEF Informed
    <2>4. Knowing(c) => client.exists /\ c.enabled = client.enabled
      BY <1>3, <1>4 DEF Knowing
    <2>5. Supplied(c) => c.op \notin Generating \/ ~ plan.confidential
      BY <1>3, <1>4 DEF Supplied, Generating
    <2>6. Informed(r)'
      BY <1>2, <1>4, <1>5, <2>2, <2>3, <2>4, <2>5 DEF Informed, Knowing, Supplied
    <2> QED BY <1>4, <2>1, <2>6
  <1> QED BY <1>2, <1>5, <1>6, <1>7, <1>8, <1>9, GoingOn

\* A call whose request fails, or that finds the client come or gone, knows no more.
LEMMA GivesUpReady ==
    ASSUME ReadyInv, NEW r \in Runs, Goto(r, "throw"),
           run[r].pc \in AdapterSteps \cup {"apply"},
           run[r].result = "awaiting-authority" => run[r].pc # "apply",
           UNCHANGED <<plan, overlap, now, rec, client, sink, requests>>
    PROVE  MoveFor(r)
  <1> DEFINE c == [run[r] EXCEPT !.pc = "throw"]
  <1>1. run[r] \in Call /\ ResultFits(run[r]) /\ run \in [Runs -> Call]
    BY AdapterParts, ReadyTypes
  <1>2. run' = [run EXCEPT ![r] = c]
    BY DEF Goto
  <1>3. /\ c \in Call /\ c.key = run[r].key /\ c.op = run[r].op /\ c.cur = run[r].cur
        /\ c.prev = run[r].prev /\ c.secret = run[r].secret /\ c.result = run[r].result
        /\ c.pc = "throw"
    BY <1>1 DEF Call
  <1> HIDE DEF c
  <1>4. MoveBy(r, c) /\ ResultFits(c)
    BY <1>1, <1>2, <1>3 DEF MoveBy, AdapterSteps, StepFits, ResultFits
  <1>5. \A s : Kept(s) <=> Kept(s)'
    BY DEF Kept
  <1>6. ASSUME ~ overlap PROVE (AtWork(c) => Working(c.cur)) /\ Informed(r)'
    <2>1. Informed(r) /\ (AtWork(run[r]) => Working(run[r].cur)) /\ AtWork(run[r])
      BY <1>6, AdapterParts DEF AtWork, AdapterSteps
    <2>2. run'[r] = c
      BY <1>1, <1>2
    <2>3. Informed(r)'
      BY <1>3, <2>1, <2>2 DEF Informed, Knowing, Supplied
    <2> QED BY <1>3, <2>1, <2>3
  <1> QED BY <1>3, <1>4, <1>5, <1>6, GoingOn

LEMMA RequestFailsReady ==
    ASSUME ReadyInv, NEW r \in Runs, RequestFails(r) PROVE MoveFor(r)
  BY GivesUpReady DEF RequestFails

LEMMA WriteReady ==
    ASSUME ReadyInv, NEW r \in Runs, Write(r) PROVE MoveFor(r)
  <1> DEFINE c == [run[r] EXCEPT !.pc = IF run[r].op = "retire" THEN "revoke" ELSE "reread"]
  <1>1. /\ run[r] \in Call /\ StepFits(run[r]) /\ ResultFits(run[r]) /\ run \in [Runs -> Call]
        /\ run[r].pc = "write" /\ UNCHANGED <<plan, overlap, now, rec, sink, requests, faults>>
    BY AdapterParts, ReadyTypes DEF Write
  <1>2. CASE client.exists # run[r].before
    BY <1>1, <1>2, GivesUpReady DEF Write, AdapterSteps
  <1>3. CASE client.exists = run[r].before
    <2>1. run' = [run EXCEPT ![r] = c]
      BY <1>3 DEF Write, Goto
    <2>2. /\ c \in Call /\ c.key = run[r].key /\ c.op = run[r].op /\ c.cur = run[r].cur
          /\ c.prev = run[r].prev /\ c.secret = run[r].secret /\ c.result = run[r].result
          /\ c.pc = (IF run[r].op = "retire" THEN "revoke" ELSE "reread")
          /\ c.verified = run[r].verified
      BY <1>1 DEF Call, AdapterSteps
    <2> HIDE DEF c
    <2>3. c.secret = None /\ StepFits(c) /\ ResultFits(c) /\ c.pc \in {"revoke", "reread"}
      BY <1>1, <2>2 DEF StepFits, ResultFits
    <2>4. MoveBy(r, c) /\ AtWork(run[r])
      BY <1>1, <2>1, <2>2, <2>3 DEF MoveBy, AdapterSteps, AtWork
    <2>5. \A s : Kept(s) <=> Kept(s)'
      BY <1>1 DEF Kept
    <2>6. StoredIn(sink', c.secret)
      BY <2>3 DEF StoredIn
    <2>7. ASSUME ~ overlap PROVE (AtWork(c) => Working(c.cur)) /\ Informed(r)'
      <3>1. Informed(r) /\ Working(run[r].cur)
        BY <1>1, <2>4, <2>7, AdapterParts
      <3>2. run'[r] = c
        BY <1>1, <2>1
      <3>3. ~ c.verified
        BY <1>1, <2>2, <3>1 DEF Informed
      <3>4. ~ Knowing(c)
        BY <2>2, <2>3 DEF Knowing
      <3>5. Supplied(c) => c.op \notin Generating
        BY <2>2, <2>3 DEF Supplied, Generating
      <3>6. Informed(r)'
        BY <1>1, <2>2, <2>3, <3>2, <3>3, <3>4, <3>5 DEF Informed
      <3> QED BY <2>2, <3>1, <3>6
    <2> QED BY <2>3, <2>4, <2>5, <2>6, <2>7, GoingOn
  <1> QED BY <1>2, <1>3

LEMMA RereadReady ==
    ASSUME ReadyInv, NEW r \in Runs, Reread(r) PROVE MoveFor(r)
  <1> DEFINE pc == IF ~ client.exists THEN "throw"
                   ELSE CASE run[r].op = "create" /\ plan.confidential -> "secret"
                          [] run[r].op = "reconcile" /\ plan.confidential
                               /\ run[r].prev.secret = None -> "throw"
                          [] OTHER -> "observe"
             c == [run[r] EXCEPT !.enabled = client.enabled, !.pc = pc]
  <1>1. /\ run[r] \in Call /\ StepFits(run[r]) /\ ResultFits(run[r]) /\ run \in [Runs -> Call]
        /\ client.enabled \in BOOLEAN
    BY AdapterParts, ReadyTypes
  <1>2. /\ run' = [run EXCEPT ![r] = c] /\ run[r].pc = "reread"
        /\ UNCHANGED <<plan, overlap, now, rec, client, sink, requests, faults>>
    BY DEF Reread, Reads
  <1>3. /\ pc \in {"throw", "observe", "secret"} /\ (pc # "throw" => client.exists)
        /\ pc = "secret" => run[r].op = "create"
        /\ pc = "observe" => run[r].op # "create" \/ ~ plan.confidential
    OBVIOUS
  <1> HIDE DEF pc
  <1>4. /\ c \in Call /\ c.key = run[r].key /\ c.op = run[r].op /\ c.cur = run[r].cur /\ c.pc = pc
        /\ c.prev = run[r].prev /\ c.secret = run[r].secret /\ c.result = run[r].result
        /\ c.enabled = client.enabled /\ c.verified = run[r].verified
    BY ZenonT(40), <1>1, <1>3 DEF Call, AdapterSteps
  <1> HIDE DEF c
  <1>5. run[r].secret = None /\ StepFits(c) /\ ResultFits(c)
    BY <1>1, <1>2, <1>3, <1>4 DEF StepFits, ResultFits, Generating
  <1>6. MoveBy(r, c)
    BY <1>1, <1>2, <1>3, <1>4, <1>5, AdapterParts DEF MoveBy, AdapterSteps
  <1>7. \A s : Kept(s) <=> Kept(s)'
    BY <1>2 DEF Kept
  <1>8. StoredIn(sink', c.secret)
    BY <1>4, <1>5 DEF StoredIn
  <1>9. ASSUME ~ overlap PROVE (AtWork(c) => Working(c.cur)) /\ Informed(r)'
    <2>1. Informed(r) /\ Working(run[r].cur)
      BY <1>2, <1>9, AdapterParts DEF AtWork, AdapterSteps
    <2>2. run'[r] = c
      BY <1>1, <1>2
    <2>3. ~ c.verified
      BY <1>2, <1>4, <2>1 DEF Informed
    <2>4. Knowing(c) => client.exists /\ c.enabled = client.enabled
      BY <1>3, <1>4 DEF Knowing
    <2>5. Supplied(c) => c.op \notin Generating \/ ~ plan.confidential
      BY <1>1, <1>2, <1>3, <1>4 DEF Supplied, Generating, StepFits
    <2>6. Informed(r)'
      BY <1>2, <1>4, <1>5, <2>2, <2>3, <2>4, <2>5 DEF Informed
    <2> QED BY <1>4, <2>1, <2>6
  <1> QED BY <1>2, <1>5, <1>6, <1>7, <1>8, <1>9, GoingOn

LEMMA GenerateSecretReady ==
    ASSUME ReadyInv, NEW r \in Runs, NEW s \in Secrets, NEW stored \in BOOLEAN,
           GenerateSecret(r, s, stored)
    PROVE  MoveFor(r)
  <1> DEFINE c == [run[r] EXCEPT !.secret = s, !.pc = IF stored THEN "observe" ELSE "throw"]
  <1>1. /\ run[r] \in Call /\ StepFits(run[r]) /\ ResultFits(run[r]) /\ run \in [Runs -> Call]
        /\ run[r].pc = "secret" /\ sink[s] = "unused" /\ s # None
        /\ client \in [exists : BOOLEAN, enabled : BOOLEAN, secret : Secrets \cup {None}]
        /\ sink \in [Secrets -> {"unused", "active", "revoked", "lost"}]
        /\ UNCHANGED <<plan, overlap, now, rec, requests>>
    BY AdapterParts, ReadyTypes, ProvisioningConstants DEF GenerateSecret, Secrets
  <1>2. CASE client.exists
    <2>1. /\ run' = [run EXCEPT ![r] = c] /\ client' = [client EXCEPT !.secret = s]
          /\ sink' = [sink EXCEPT ![s] = IF stored THEN "active" ELSE "lost"]
      BY <1>2 DEF GenerateSecret
    <2>2. /\ c \in Call /\ c.key = run[r].key /\ c.op = run[r].op /\ c.cur = run[r].cur
          /\ c.prev = run[r].prev /\ c.secret = s /\ c.result = run[r].result
          /\ c.pc = (IF stored THEN "observe" ELSE "throw")
          /\ c.enabled = run[r].enabled /\ c.verified = run[r].verified
      BY <1>1 DEF Call, AdapterSteps
    <2> HIDE DEF c
    <2>3. /\ client'.exists = client.exists /\ client'.enabled = client.enabled
          /\ client'.secret = s /\ (c.pc # "throw" => sink'[s] = "active")
          /\ \A t \in Secrets \ {s} : sink'[t] = sink[t]
      BY <1>1, <2>1, <2>2
    <2>4. c.op \in Generating /\ StepFits(c) /\ ResultFits(c)
      BY <1>1, <2>2 DEF StepFits, ResultFits, Generating
    <2>5. MoveBy(r, c) /\ AtWork(run[r])
      BY <1>1, <2>1, <2>2, <2>4 DEF MoveBy, AdapterSteps, AtWork
    <2>6. \A t \in Secrets : Kept(t) => Kept(t)'
      BY <1>1, <2>3 DEF Kept, StoredIn
    <2>7. c.pc # "throw" => StoredIn(sink', c.secret)
      BY <2>2, <2>3 DEF StoredIn
    <2>8. ASSUME ~ overlap PROVE (AtWork(c) => Working(c.cur)) /\ Informed(r)'
      <3>1. Informed(r) /\ Working(run[r].cur)
        BY <1>1, <2>5, <2>8, AdapterParts
      <3>2. run'[r] = c
        BY <1>1, <2>1
      <3>3. ~ c.verified
        BY <1>1, <2>2, <3>1 DEF Informed
      <3>4. Knowing(c) => Knowing(run[r]) /\ client.exists /\ run[r].enabled = client.enabled
        BY <1>1, <2>2, <3>1 DEF Informed, Knowing
      <3>5. Supplied(c) => c.pc # "throw"
        BY DEF Supplied
      <3>6. Informed(r)'
        BY <1>1, <2>2, <2>3, <2>4, <3>2, <3>3, <3>4, <3>5 DEF Informed
      <3> QED BY <2>2, <3>1, <3>6
    <2> QED BY <2>4, <2>5, <2>6, <2>7, <2>8, GoingOn
  <1>3. CASE ~ client.exists
    <2>1. Goto(r, "throw") /\ UNCHANGED <<client, sink>>
      BY <1>3 DEF GenerateSecret
    <2> QED BY <1>1, <2>1, GivesUpReady DEF AdapterSteps
  <1> QED BY <1>2, <1>3

LEMMA ObserveReady ==
    ASSUME ReadyInv, NEW r \in Runs, NEW intact \in BOOLEAN, Observe(r, intact) PROVE MoveFor(r)
  <1> DEFINE verified == Verified(r) /\ intact
             rotated == run[r].op = "rotate" /\ plan.confidential
             result == IF run[r].op = "disable" THEN "disabled" ELSE "validating"
             pc == IF \/ plan.confidential /\ ~ client.exists
                      \/ rotated /\ ~ (verified /\ run[r].enabled)
                   THEN "throw" ELSE IF rotated THEN "revoke" ELSE "apply"
             c == [run[r] EXCEPT !.verified = verified, !.result = result, !.pc = pc]
  <1>1. /\ run[r] \in Call /\ StepFits(run[r]) /\ ResultFits(run[r]) /\ run \in [Runs -> Call]
        /\ run[r].result # "awaiting-authority" \/ run[r].pc = "apply"
    BY AdapterParts, ReadyTypes
  <1>2. /\ run' = [run EXCEPT ![r] = c] /\ run[r].pc = "observe"
        /\ UNCHANGED <<plan, overlap, now, rec, client, sink, requests, faults>>
    BY DEF Observe, Reads
  <1>3. /\ pc \in {"throw", "revoke", "apply"} /\ result \in {"disabled", "validating"}
        /\ pc = "revoke" => run[r].op = "rotate" /\ plan.confidential
    OBVIOUS
  <1>4. verified \in BOOLEAN
    BY Zenon
  <1>5. verified => Verified(r)
    OBVIOUS
  <1> HIDE DEF pc, result, verified
  <1>6. /\ c.key = run[r].key /\ c.op = run[r].op /\ c.cur = run[r].cur /\ c.pc = pc
        /\ c.prev = run[r].prev /\ c.secret = run[r].secret /\ c.result = result
        /\ c.enabled = run[r].enabled /\ c.verified = verified
    BY <1>1 DEF Call
  <1>7. c \in Call
    BY ZenonT(40), <1>1, <1>3, <1>4 DEF Call, AdapterSteps
  <1> HIDE DEF c
  <1>8. StepFits(c) /\ ResultFits(c)
    BY <1>1, <1>2, <1>3, <1>6 DEF StepFits, ResultFits
  <1>9. MoveBy(r, c)
    BY <1>1, <1>2, <1>3, <1>6, <1>7, <1>8 DEF MoveBy, AdapterSteps
  <1>10. \A s : Kept(s) <=> Kept(s)'
    BY <1>2 DEF Kept
  <1>11. StoredIn(sink', c.secret)
    BY <1>2, <1>6, CallParts DEF Kept
  <1>12. ASSUME ~ overlap PROVE (AtWork(c) => Working(c.cur)) /\ Informed(r)'
    <2>1. Informed(r) /\ Working(run[r].cur)
      BY <1>2, <1>12, AdapterParts DEF AtWork, AdapterSteps
    <2>2. run'[r] = c
      BY <1>1, <1>2
    <2>3. Knowing(c) => Knowing(run[r])
      BY <1>1, <1>2, <1>6 DEF Knowing
    <2>4. Supplied(run[r])
      BY <1>1, <1>2 DEF Supplied
    <2>5. c.verified => Verified(r)'
      BY <1>2, <1>5, <1>6, <2>2 DEF Verified, Active
    <2>6. c.verified => c.pc \in {"revoke", "apply", "throw"}
      BY <1>3, <1>6
    <2>7. Informed(r)'
      BY <1>2, <1>6, <2>1, <2>2, <2>3, <2>4, <2>5, <2>6 DEF Informed
    <2> QED BY <1>6, <2>1, <2>7
  <1> QED BY <1>2, <1>8, <1>9, <1>10, <1>11, <1>12, GoingOn

LEMMA RevokeReady ==
    ASSUME ReadyInv, NEW r \in Runs, Revoke(r) PROVE MoveFor(r)
  <1> DEFINE c == [run[r] EXCEPT !.pc = "apply",
                       !.result = IF run[r].op = "retire" THEN "retired" ELSE run[r].result]
  <1>1. /\ run[r] \in Call /\ StepFits(run[r]) /\ ResultFits(run[r]) /\ run \in [Runs -> Call]
        /\ run[r].result # "awaiting-authority" \/ run[r].pc = "apply"
        /\ sink \in [Secrets -> {"unused", "active", "revoked", "lost"}]
        /\ run[r].secret \in Secrets \cup {None}
    BY AdapterParts, ReadyTypes, CallParts
  <1>2. /\ run' = [run EXCEPT ![r] = c] /\ run[r].pc = "revoke"
        /\ sink' = [s \in Secrets |-> IF s = run[r].prev.secret /\ sink[s] = "active"
                                      THEN "revoked" ELSE sink[s]]
        /\ UNCHANGED <<plan, overlap, now, rec, client, requests, faults>>
    BY DEF Revoke, Superseded
  <1>3. /\ c \in Call /\ c.key = run[r].key /\ c.op = run[r].op /\ c.cur = run[r].cur
        /\ c.prev = run[r].prev /\ c.secret = run[r].secret /\ c.pc = "apply"
        /\ c.enabled = run[r].enabled /\ c.verified = run[r].verified
        /\ c.result = (IF run[r].op = "retire" THEN "retired" ELSE run[r].result)
    BY ZenonT(40), <1>1 DEF Call
  <1> HIDE DEF c
  <1>4. StepFits(c) /\ ResultFits(c)
    BY <1>1, <1>3 DEF StepFits, ResultFits
  <1>5. MoveBy(r, c) /\ AtWork(run[r])
    BY <1>1, <1>2, <1>3, <1>4 DEF MoveBy, AdapterSteps, AtWork
  <1>6. \A s \in Secrets : Kept(s) => Kept(s)'
    BY <1>2 DEF Kept, StoredIn
  <1>7. StoredIn(sink', c.secret)
    BY <1>1, <1>2, <1>3, <1>6, CallParts DEF Kept, StoredIn
  <1>8. ASSUME ~ overlap PROVE (AtWork(c) => Working(c.cur)) /\ Informed(r)'
    <2>1. Informed(r) /\ Working(run[r].cur)
      BY <1>5, <1>8, AdapterParts, <1>2
    <2>2. run'[r] = c
      BY <1>1, <1>2
    <2>3. Knowing(c) => Knowing(run[r])
      BY <1>1, <1>2, <1>3 DEF Knowing
    <2>4. Supplied(run[r])
      BY <1>1, <1>2 DEF Supplied
    <2>5. c.verified => Verified(r)'
      BY <1>2, <1>3, <2>1, <2>2 DEF Informed, Verified, Active
    <2>6. c.secret # None => client.secret = c.secret /\ sink'[c.secret] = "active"
      <3> SUFFICES ASSUME c.secret # None PROVE client.secret = c.secret /\ sink'[c.secret] = "active"
        OBVIOUS
      <3>1. client.secret = c.secret /\ sink[c.secret] = "active" /\ c.secret \in Secrets
        BY <1>1, <1>3, <2>1, <2>4 DEF Informed
      <3>2. run[r].prev.secret # c.secret
        BY <1>2, <3>1 DEF ReadyInv, SecretInv, OldIsOut, Replacing
      <3> QED BY <1>2, <3>1, <3>2
    <2>7. Informed(r)'
      BY <1>2, <1>3, <2>1, <2>2, <2>3, <2>4, <2>5, <2>6 DEF Informed
    <2> QED BY <1>3, <2>1, <2>7
  <1> QED BY <1>4, <1>5, <1>6, <1>7, <1>8, GoingOn

\* The call saves that it provisions, goes on to the adapter, or waits for a decision.
LEMMA ExecuteReady ==
    ASSUME ReadyInv, NEW r \in Runs, Execute(r)
    PROVE  (\E next, then : SaveFor(r, next, then)) \/ MoveFor(r)
  <1>1. /\ run[r] \in Call /\ StepFits(run[r]) /\ ResultFits(run[r]) /\ run \in [Runs -> Call]
        /\ run[r].pc = "execute" /\ run[r].cur \in Record
        /\ UNCHANGED <<plan, overlap, client, sink, requests, faults>>
    BY AdapterParts, ReadyTypes, CallParts DEF Execute
  <1>2. CASE run[r].cur.state = "preflight" /\ ~ plan.gated
    <2> DEFINE next == [run[r].cur EXCEPT !.state = "provisioning"]
    <2>1. /\ next \in Record /\ next.state = "provisioning" /\ next.secret = run[r].cur.secret
          /\ next.op = run[r].cur.op
      BY <1>1, RecordType DEF States
    <2>2. Save(r, next, "find")
      BY <1>2 DEF Execute
    <2> HIDE DEF next
    <2>3. SaveFor(r, next, "find")
      BY <1>1, <1>2, <2>1, <2>2, CallParts DEF SaveFor, Exists, Working
    <2> QED BY <2>3
  <1>3. CASE ~ (run[r].cur.state = "preflight" /\ ~ plan.gated)
    <2> DEFINE c == IF plan.gated /\ ~ GateOpen(r)
                    THEN [run[r] EXCEPT !.pc = "apply", !.result = "awaiting-authority"]
                    ELSE [run[r] EXCEPT !.pc = "find"]
    <2>1. run' = [run EXCEPT ![r] = c] /\ UNCHANGED <<now, rec>>
      BY <1>3 DEF Execute
    <2>2. /\ c \in Call /\ c.key = run[r].key /\ c.op = run[r].op /\ c.cur = run[r].cur
          /\ c.prev = run[r].prev /\ c.secret = run[r].secret /\ c.verified = run[r].verified
          /\ \/ plan.gated /\ ~ GateOpen(r) /\ c.pc = "apply" /\ c.result = "awaiting-authority"
             \/ (plan.gated => GateOpen(r)) /\ c.pc = "find" /\ c.result = run[r].result
      BY <1>1 DEF Call, AdapterSteps
    <2> HIDE DEF c
    <2>3. MoveBy(r, c) /\ ResultFits(c)
      BY <1>1, <2>1, <2>2 DEF MoveBy, AdapterSteps, StepFits, ResultFits
    <2>4. \A s : Kept(s) <=> Kept(s)'
      BY <1>1 DEF Kept
    <2>5. StoredIn(sink', c.secret)
      BY <1>1, <2>2, CallParts DEF Kept
    <2>6. ASSUME ~ overlap PROVE (AtWork(c) => Working(c.cur)) /\ Informed(r)'
      <3>1. /\ Informed(r) /\ (Working(run[r].cur) \/ run[r].cur.state = "preflight")
            /\ plan.gated /\ run[r].cur.state = "preflight" => run[r].prev.gate # "approved"
        BY <1>1, <2>6 DEF ReadyInv, Alone
      <3>2. run'[r] = c
        BY <1>1, <2>1
      <3>3. AtWork(c) => Working(c.cur)
        BY <1>3, <2>2, <3>1 DEF AtWork, AdapterSteps, GateOpen
      <3>4. ~ c.verified /\ ~ Knowing(c) /\ ~ Supplied(c)
        BY <1>1, <2>2, <3>1 DEF Informed, Knowing, Supplied
      <3>5. Informed(r)'
        BY <2>2, <3>1, <3>2, <3>4 DEF Informed
      <3> QED BY <3>3, <3>5
    <2> QED BY <1>1, <2>3, <2>4, <2>5, <2>6, GoingOn
  <1> QED BY <1>2, <1>3

\* A call that begins, on the record of key k.
LEMMA Beginning ==
    ASSUME ReadyInv, NEW r \in Runs, NEW k \in Keys, NEW c, MayBegin(r),
           run' = [run EXCEPT ![r] = c], UNCHANGED <<plan, overlap, now, rec, client, sink>>,
           c.key = k, c.cur = rec[k], c.prev \in {NoRec, rec[k]},
           c.secret = None, ~ c.verified, c.result = "none",
           c.pc \in {"latest", "recover", "execute", "decide"},
           c.pc = "execute" => c.prev = c.cur /\ (Working(c.cur) \/ c.cur.state = "preflight"),
           plan.gated => c.op = "create"
    PROVE  MoveFor(r)
  <1>1. /\ rec \in [Keys -> Record] /\ run \in [Runs -> Call] /\ run'[r] = c
        /\ run[r].pc = "idle" /\ (~ overlap => \A q \in Runs : run[q].pc = "idle")
    BY ReadyTypes DEF MayBegin
  <1>2. \A s : Kept(s) <=> Kept(s)'
    BY DEF Kept
  <1>3. StoredIn(sink', c.cur.secret) /\ StoredIn(sink', c.prev.secret) /\ StoredIn(sink', c.secret)
    BY DEF ReadyInv, NamedIsStored, Kept, StoredIn, NoRec
  <1>4. ResultFits(c)
    BY DEF ResultFits
  <1>5. plan.gated => IF Exists(c.prev) THEN c.prev.state # "retired" ELSE c.prev.gate # "approved"
    <2>1. CASE c.prev = NoRec
      BY <2>1 DEF NoRec, Exists
    <2>2. CASE c.prev = rec[k]
      <3>1. ~ Exists(rec[k]) => rec[k] = NoRec
        BY DEF ReadyInv, FinalInv, RecordsFit
      <3>2. Exists(rec[k]) /\ plan.gated => rec[k].state # "retired"
        BY DEF ReadyInv, OnlyCreates
      <3> QED BY <2>2, <3>1, <3>2 DEF NoRec
    <2> QED BY <2>1, <2>2
  <1>6. plan.gated => c.op = "create" /\ (Exists(c.cur) => c.cur.op = "create")
    BY DEF ReadyInv, OnlyCreates
  <1>7. /\ ~ AtWork(c)
        /\ c.pc = "execute" =>
              /\ Working(c.cur) \/ c.cur.state = "preflight"
              /\ plan.gated /\ c.cur.state = "preflight" => c.prev.gate # "approved"
    BY DEF AtWork, AdapterSteps, ReadyInv, PreflightFits
  <1>8. Informed(r)'
    BY <1>1 DEF Informed, Knowing, Supplied
  <1> QED BY <1>1, <1>2, <1>3, <1>4, <1>5, <1>6, <1>7, <1>8 DEF MoveFor

LEMMA BeginRunReady ==
    ASSUME ReadyInv, NEW r \in Runs, NEW k \in Keys, NEW op \in Operations, BeginRun(r, k, op)
    PROVE  MoveFor(r)
  <1> DEFINE call == [Idle EXCEPT !.key = k, !.op = op, !.cur = rec[k]]
             c == IF ~ Exists(rec[k]) THEN [call EXCEPT !.pc = "latest"]
                  ELSE IF rec[k].state = "failed" THEN [call EXCEPT !.pc = "recover"]
                  ELSE [call EXCEPT !.pc = "execute", !.prev = rec[k]]
  <1>1. rec[k] \in Record
    BY ReadyTypes
  <1>2. /\ run' = [run EXCEPT ![r] = c] /\ MayBegin(r) /\ Preflight(op)
        /\ Exists(rec[k]) => ~ Returns(rec[k])
        /\ UNCHANGED <<plan, overlap, now, rec, client, sink, faults>>
    BY DEF BeginRun, call
  <1>3. /\ c.key = k /\ c.op = op /\ c.cur = rec[k] /\ c.prev \in {NoRec, rec[k]} /\ c.secret = None
        /\ ~ c.verified /\ c.result = "none" /\ c.pc \in {"latest", "recover", "execute"}
        /\ c.pc = "execute" => c.prev = c.cur /\ Exists(rec[k]) /\ rec[k].state # "failed"
    BY DEF Idle
  <1> HIDE DEF c
  <1>4. c.pc = "execute" => Working(c.cur) \/ c.cur.state = "preflight"
    BY <1>1, <1>2, <1>3, RecordType DEF Returns, Working, States, Exists
  <1> QED BY <1>2, <1>3, <1>4, Beginning DEF Preflight

LEMMA BeginDecisionReady ==
    ASSUME ReadyInv, NEW r \in Runs, NEW k \in Keys, BeginDecision(r, k) PROVE MoveFor(r)
  <1> DEFINE c == [Idle EXCEPT !.pc = "decide", !.key = k, !.op = rec[k].op, !.cur = rec[k]]
  <1>1. /\ rec[k].state = "awaiting-authority" /\ run' = [run EXCEPT ![r] = c] /\ MayBegin(r)
        /\ UNCHANGED <<plan, overlap, now, rec, client, sink, faults>>
    BY DEF BeginDecision
  <1>2. /\ c.key = k /\ c.op = rec[k].op /\ c.cur = rec[k] /\ c.prev = NoRec /\ c.secret = None
        /\ ~ c.verified /\ c.result = "none" /\ c.pc = "decide"
    BY DEF Idle
  <1> HIDE DEF c
  <1>3. plan.gated => c.op = "create"
    BY <1>1, <1>2 DEF ReadyInv, OnlyCreates, Exists
  <1> QED BY <1>1, <1>2, <1>3, Beginning

\* The latest record is one of the store's.
LEMMA ReadLatestReady ==
    ASSUME ReadyInv, NEW r \in Runs, ReadLatest(r) PROVE MoveFor(r)
  <1>1. PICK p \in Latest : run' = [run EXCEPT ![r].pc = "start", ![r].prev = p]
    BY DEF ReadLatest
  <1> DEFINE c == [run[r] EXCEPT !.pc = "start", !.prev = p]
  <1>2. /\ run[r] \in Call /\ run \in [Runs -> Call] /\ run[r].pc = "latest" /\ ResultFits(run[r])
        /\ UNCHANGED <<plan, overlap, now, rec, client, sink>>
    BY AdapterParts, ReadyTypes DEF ReadLatest
  <1>3. run' = [run EXCEPT ![r] = c] /\ run'[r] = c
    BY <1>1, <1>2
  <1>4. /\ c.key = run[r].key /\ c.op = run[r].op /\ c.cur = run[r].cur /\ c.pc = "start"
        /\ c.prev = p /\ c.secret = run[r].secret /\ c.result = run[r].result
        /\ c.verified = run[r].verified
    BY <1>2 DEF Call
  <1> HIDE DEF c
  <1>5. p = NoRec \/ \E k \in Keys : Exists(rec[k]) /\ p = rec[k]
    BY DEF Latest
  <1>6. Kept(p.secret)
    BY <1>5 DEF ReadyInv, NamedIsStored, Kept, StoredIn, NoRec
  <1>7. plan.gated => IF Exists(p) THEN p.state # "retired" ELSE p.gate # "approved"
    BY <1>5 DEF ReadyInv, OnlyCreates, NoRec, Exists
  <1>8. \A s : Kept(s) <=> Kept(s)'
    BY <1>2 DEF Kept
  <1>9. /\ StoredIn(sink', c.cur.secret) /\ StoredIn(sink', c.prev.secret)
        /\ StoredIn(sink', c.secret)
    BY <1>2, <1>4, <1>6, CallParts DEF Kept
  <1>10. ResultFits(c)
    BY <1>2, <1>4 DEF ResultFits
  <1>11. plan.gated => c.op = "create" /\ (Exists(c.cur) => c.cur.op = "create")
    BY <1>2, <1>4, CallParts
  <1>12. ~ AtWork(c) /\ c.pc # "execute" /\ (~ overlap => rec[c.key] = c.cur)
    BY <1>2, <1>4 DEF AtWork, AdapterSteps, ReadyInv, Alone
  <1>13. ~ overlap => Informed(r)'
    <2> SUFFICES ASSUME ~ overlap PROVE Informed(r)'
      OBVIOUS
    <2>1. Informed(r)
      BY <1>2, AdapterParts
    <2> QED BY <1>2, <1>3, <1>4, <2>1 DEF Informed, Knowing, Supplied
  <1> QED BY <1>2, <1>3, <1>4, <1>7, <1>8, <1>9, <1>10, <1>11, <1>12, <1>13 DEF MoveFor

\* A dead call is idle.
LEMMA CrashReady ==
    ASSUME ReadyInv, NEW r \in Runs, Crash(r) PROVE MoveFor(r)
  <1>1. /\ run' = [run EXCEPT ![r] = Idle] /\ run'[r] = Idle
        /\ UNCHANGED <<plan, overlap, now, rec, client, sink>>
    BY ReadyTypes DEF Crash
  <1>2. \A s : Kept(s) <=> Kept(s)'
    BY <1>1 DEF Kept
  <1>3. /\ StoredIn(sink', Idle.cur.secret) /\ StoredIn(sink', Idle.prev.secret)
        /\ StoredIn(sink', Idle.secret) /\ Idle.pc = "idle" /\ ResultFits(Idle)
    BY DEF StoredIn, Idle, NoRec, ResultFits
  <1> QED BY <1>1, <1>2, <1>3 DEF MoveFor

-----------------------------------------------------------------------------
(* What is ready can be used *)

LEMMA NextIsReady ==
    ASSUME ReadyInv, ~ Coarse, Next PROVE ReadyParts'
  <1>1. PICK r \in Runs :
           \/ \E k \in Keys, op \in Operations : BeginRun(r, k, op)
           \/ \E k \in Keys : BeginDecision(r, k)
           \/ RunStep(r)
           \/ RequestFails(r)
           \/ Crash(r)
    BY DEF Next
  <1>2. (\E next, then : SaveFor(r, next, then)) \/ MoveFor(r)
    <2>1. CASE RunStep(r)
      BY <2>1, RecoverReady, ReadLatestReady, StartReady, ExecuteReady, RejectReady, DecideReady,
         FindReady, WriteReady, RereadReady, RevokeReady, ObserveReady, GenerateSecretReady,
         ThrowReady, ApplyReady DEF RunStep
    <2> QED BY <1>1, <2>1, BeginRunReady, BeginDecisionReady, RequestFailsReady, CrashReady
  <1> QED BY <1>2, SaveKeepsReady, MoveKeepsReady

LEMMA ReadyInvInit == Init => ReadyInv
  <1> SUFFICES ASSUME Init PROVE ReadyInv
    OBVIOUS
  <1>1. \A k \in Keys : rec[k] = NoRec
    BY DEF Init
  <1>2. \A r \in Runs : run[r] = Idle
    BY DEF Init
  <1>3. NamedIsStored
    BY <1>1, <1>2 DEF NamedIsStored, Kept, StoredIn, Idle, NoRec
  <1>4. ResultsFit
    BY <1>2 DEF ResultsFit, ResultFits, Idle
  <1>5. OnlyCreates /\ PreflightFits
    BY <1>1, <1>2 DEF OnlyCreates, PreflightFits, Idle, NoRec, Exists
  <1>6. Alone
    BY <1>2 DEF Alone, Idle
  <1>7. ReadyIsUsable
    <2>1. Latest = {NoRec}
      BY <1>1 DEF Latest, Exists, NoRec
    <2> QED BY <2>1 DEF ReadyIsUsable, NoRec
  <1> QED BY <1>3, <1>4, <1>5, <1>6, <1>7, FinalInvInit, GateInvInit, SecretInvInit DEF ReadyInv

LEMMA ReadyInvNext == ASSUME ReadyInv, ~ Coarse, [Next]_vars PROVE ReadyInv'
  <1>1. FinalInv' /\ GateInv' /\ SecretInv'
    BY FinalInvNext, GateInvNext, SecretInvNext DEF ReadyInv
  <1>2. CASE UNCHANGED vars
    <2>1. NamedIsStored' /\ ResultsFit' /\ OnlyCreates' /\ PreflightFits'
      BY <1>2 DEF vars, ReadyInv, NamedIsStored, Kept, StoredIn, ResultsFit, ResultFits, OnlyCreates,
         PreflightFits, Exists
    <2>2. (~ overlap => Alone)'
      BY <1>2 DEF vars, ReadyInv, Alone, Informed, Knowing, Supplied, AtWork, Working, Verified, Active
    <2>3. ReadyIsUsable'
      BY SMTT(30), <1>2 DEF vars, ReadyInv, ReadyIsUsable, Latest, Exists
    <2> QED BY <1>1, <2>1, <2>2, <2>3 DEF ReadyInv
  <1>3. CASE Next
    BY <1>1, <1>3, NextIsReady DEF ReadyInv, ReadyParts
  <1> QED BY <1>2, <1>3

\* Every record and client keeps its form.  Where calls do not overlap, and two saves
\* never share a time, a client whose latest record is ready exists, is enabled and
\* accepts the secret version that the record names and the secret manager holds,
\* whatever deaths, failed requests and lost versions came before.
THEOREM ReadyRecordsAreUsable == ASSUME ~ Coarse PROVE Spec => []ReadyIsSound
  <1>1. ReadyInv /\ [Next]_vars => ReadyInv'
    BY ReadyInvNext
  <1>2. ReadyInv => ReadyIsSound
    BY DEF ReadyInv, FinalInv, ProvisioningInv, ReadyIsSound
  <1> QED BY <1>1, <1>2, ReadyInvInit, PTL DEF Spec

=============================================================================
