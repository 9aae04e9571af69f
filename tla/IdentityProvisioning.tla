------------------------ MODULE IdentityProvisioning ------------------------
(***************************************************************************)
(* Registering an OIDC client with an identity provider                    *)
(* (src/src/identity-provisioning-engine.ts, the transition table and the  *)
(* record contract of src/src/identity-provisioning.ts, and the adapter of *)
(* src/src/keycloak-identity-provisioning-adapter.ts).                     *)
(*                                                                         *)
(* A run is bound to an idempotency key.  It leaves a durable record,      *)
(* calls the adapter, which writes to the provider and to the secret       *)
(* manager request by request, and saves the outcome under a               *)
(* compare-and-set on the record's updatedAt.  A run may die anywhere; a   *)
(* later run of the same key resumes it.  All keys are about one client.   *)
(*                                                                         *)
(* A gated plan first needs an authority's decision.  Its adapter is the   *)
(* one of src/tests/identity-provisioning-engine.test.mjs, which gates     *)
(* `create' only, so that the preflight admits no other operation.         *)
(*                                                                         *)
(* Abstracted: the contents of plans, observations and audit events; which *)
(* time a gate expires (any decision may come too late).  The operation    *)
(* `observe' is `validate' to the adapter, and `recover' is `reconcile'.   *)
(* What Keycloak keeps of a superseded secret is not modelled.             *)
(***************************************************************************)
EXTENDS Naturals, FiniteSets

CONSTANTS
    Keys,         \* idempotency keys
    Runs,         \* concurrent calls of run and decideAuthority
    None,         \* null
    MaxSecret,    \* secret versions are numbered 1..MaxSecret
    Coarse,       \* may two saves get the same timestamp?
    MaxRequests,  \* bound on the calls where they overlap,
    MaxInTurn,    \* and where they do not
    MaxFaults     \* bound on deaths and failed requests

ASSUME ProvisioningConstants ==
    /\ MaxSecret \in Nat /\ MaxRequests \in Nat /\ MaxInTurn \in Nat
    /\ MaxFaults \in Nat
    /\ Coarse \in BOOLEAN
    /\ None \notin Nat

VARIABLES
    plan,      \* the plan: gated and confidential or not
    overlap,   \* does the deployment let calls overlap?
    now,       \* time of the last save
    rec,       \* the record store
    client,    \* the provider's client
    sink,      \* the secret manager's versions
    run,       \* the calls' local state
    requests,  \* calls so far
    faults     \* deaths and failed requests so far

vars == <<plan, overlap, now, rec, client, sink, run, requests, faults>>

Operations == {"create", "validate", "reconcile", "rotate", "disable", "retire"}
Secrets    == 1..MaxSecret

\* The transition table, for the states the engine saves a record in.
Transitions ==
    [s \in {"preflight", "awaiting-authority", "provisioning", "failed", "recovering",
            "ready", "disabled", "retired"} |->
       CASE s = "preflight"          -> {"awaiting-authority", "provisioning", "validating",
                                         "failed", "retired"}
         [] s = "awaiting-authority" -> {"provisioning", "failed", "retired"}
         [] s = "provisioning"       -> {"secret-pending", "validating", "disabled", "failed",
                                         "recovering", "retired"}
         [] s = "failed"             -> {"preflight", "recovering", "retired"}
         [] s = "recovering"         -> {"preflight", "validating", "ready", "failed", "retired"}
         [] s = "ready"              -> {"validating", "rotating", "disabled", "failed", "retired"}
         [] s = "disabled"           -> {"validating", "ready", "recovering", "retired"}
         [] OTHER                    -> {}]

\* `gate' is the status of the continuation, `revoked' that of the reference to
\* a secret version; `error' says whether the operation may be retried.
NoRec == [state |-> "none", op |-> None, updated |-> 0, gate |-> "none", secret |-> None,
          revoked |-> FALSE, error |-> "none"]

Exists(r) == r.state # "none"

\* Does the record refer to an active secret version?
Active(r) == r.secret # None /\ ~ r.revoked

\* Has the operation come to its outcome?
Settled(r) == r.state \in {"ready", "disabled", "retired"} \/ r.error = "final"

NoClient == [exists |-> FALSE, enabled |-> FALSE, secret |-> None]

Idle == [pc |-> "idle", key |-> None, op |-> None, cur |-> NoRec, prev |-> NoRec,
         secret |-> None, before |-> FALSE, enabled |-> FALSE, verified |-> FALSE,
         result |-> "none"]

Init ==
    /\ plan \in [gated : BOOLEAN, confidential : BOOLEAN]
    /\ overlap \in BOOLEAN
    /\ now = 0
    /\ rec = [k \in Keys |-> NoRec]
    /\ client = NoClient
    /\ sink = [s \in Secrets |-> "unused"]
    /\ run = [r \in Runs |-> Idle]
    /\ requests = 0
    /\ faults = 0

-----------------------------------------------------------------------------
(* The record store *)

\* Mutant: the store does not compare updatedAt.
Saves_Blind(k, expected) == Exists(rec[k]) <=> Exists(expected)

\* save(record, expectedUpdatedAt) succeeds if the record is still the one that
\* was read, as far as updatedAt tells.
Saves(k, expected) ==
    /\ Exists(rec[k]) <=> Exists(expected)
    /\ rec[k].updated = expected.updated

\* The records that may be the latest of the client; ties are broken by random
\* operation ids.
Latest ==
    LET known == {rec[k] : k \in {j \in Keys : Exists(rec[j])}}
    IN  IF known = {} THEN {NoRec}
        ELSE {r \in known : \A q \in known : q.updated <= r.updated}

\* Call r saves `next' over the record it holds and goes on as `then' says (to
\* "resume" is to execute with the saved record as the previous one), or ends
\* with a conflict.
Save(r, next, then) ==
    LET k == run[r].key
    IN  IF Saves(k, run[r].cur)
        THEN \E t \in IF Coarse THEN {now, now + 1} ELSE {now + 1} :
               LET saved == [next EXCEPT !.updated = t]
               IN  /\ now' = t
                   /\ rec' = [rec EXCEPT ![k] = saved]
                   /\ run' = [run EXCEPT ![r] =
                        CASE then = "idle" -> Idle
                          [] then = "resume" -> [run[r] EXCEPT !.pc = "execute", !.cur = saved,
                                                               !.prev = saved]
                          [] OTHER -> [run[r] EXCEPT !.pc = then, !.cur = saved]]
        ELSE /\ run' = [run EXCEPT ![r] = Idle]
             /\ UNCHANGED <<now, rec>>

Goto(r, pc) == run' = [run EXCEPT ![r].pc = pc]

-----------------------------------------------------------------------------
(* run *)

MayBegin(r) ==
    /\ run[r].pc = "idle"
    /\ IF overlap THEN requests < MaxRequests
       ELSE requests < MaxInTurn /\ \A q \in Runs : run[q].pc = "idle"

\* #preflight lets a gated plan only create.
Preflight(op) == plan.gated => op = "create"

\* A record that is its call's answer as it is.
Returns(e) ==
    \/ e.state \in {"ready", "disabled", "retired", "awaiting-authority"}
    \/ e.state = "failed" /\ e.error = "final"

\* A call of run reads the record of its key.  A settled or waiting one is the
\* answer; one bound to another operation is an error.  A retryable failure is
\* first saved as recovering; everything else goes to the adapter again, with
\* the record itself as the previous one.
BeginRun(r, k, op) ==
    LET e == rec[k]
        call == [Idle EXCEPT !.key = k, !.op = op, !.cur = e]
    IN  /\ MayBegin(r)
        /\ Preflight(op)
        /\ Exists(e) => e.op = op /\ ~ Returns(e)
        /\ requests' = requests + 1
        /\ run' = [run EXCEPT ![r] =
              IF ~ Exists(e) THEN [call EXCEPT !.pc = "latest"]
              ELSE IF e.state = "failed" THEN [call EXCEPT !.pc = "recover"]
              ELSE [call EXCEPT !.pc = "execute", !.prev = e]]
        /\ UNCHANGED <<plan, overlap, now, rec, client, sink, faults>>

\* The retry of a failed operation.  The record keeps its error until it moves on.
Recover(r) ==
    /\ run[r].pc = "recover"
    /\ Save(r, [run[r].cur EXCEPT !.state = "recovering"], "resume")
    /\ UNCHANGED <<plan, overlap, client, sink, requests, faults>>

\* getLatestByClientRef
ReadLatest(r) ==
    /\ run[r].pc = "latest"
    /\ \E p \in Latest : run' = [run EXCEPT ![r].pc = "start", ![r].prev = p]
    /\ UNCHANGED <<plan, overlap, now, rec, client, sink, requests, faults>>

\* Is this a create of a client that some record already accounts for?
Duplicate(r) == run[r].op = "create" /\ Exists(run[r].prev) /\ run[r].prev.state # "retired"

\* The first record of a key: the refusal of a duplicate create, which ends the
\* call, or the operation in preflight with the secret of the previous record.
Start(r) ==
    LET first == [NoRec EXCEPT !.op = run[r].op]
    IN  /\ run[r].pc = "start"
        /\ IF Duplicate(r)
           THEN Save(r, [first EXCEPT !.state = "failed", !.error = "final"], "idle")
           ELSE Save(r, [first EXCEPT !.state = "preflight",
                           !.secret = IF run[r].op = "create" THEN None ELSE run[r].prev.secret,
                           !.revoked = run[r].op # "create" /\ run[r].prev.revoked],
                     "execute")
        /\ UNCHANGED <<plan, overlap, client, sink, requests, faults>>

-----------------------------------------------------------------------------
(* decideAuthority *)

Decisions == {"approved", "denied", "cancelled", "expired"}

\* A decision reads the waiting record,
BeginDecision(r, k) ==
    /\ MayBegin(r)
    /\ rec[k].state = "awaiting-authority"
    /\ requests' = requests + 1
    /\ run' = [run EXCEPT ![r] = [Idle EXCEPT !.pc = "decide", !.key = k, !.op = rec[k].op,
                                              !.cur = rec[k]]]
    /\ UNCHANGED <<plan, overlap, now, rec, client, sink, faults>>

\* and after hashing the proof saves its outcome.  An approval goes on to the
\* adapter; the other outcomes fail, and all but a denial may be retried.
Decide(r, decision) ==
    LET decided == [run[r].cur EXCEPT !.gate = decision]
    IN  /\ run[r].pc = "decide"
        /\ IF decision = "approved"
           THEN Save(r, [decided EXCEPT !.state = "provisioning"], "resume")
           ELSE Save(r, [decided EXCEPT !.state = "failed",
                           !.error = IF decision = "denied" THEN "final" ELSE "retryable"], "idle")
        /\ UNCHANGED <<plan, overlap, client, sink, requests, faults>>

\* A wrong authority or a wrong proof only leaves an audit event.
RejectDecision(r) ==
    /\ run[r].pc = "decide"
    /\ Save(r, run[r].cur, "idle")
    /\ UNCHANGED <<plan, overlap, client, sink, requests, faults>>

-----------------------------------------------------------------------------
(* #executeAdapter *)

\* Mutant: any decision opens the gate.
GateOpen_Decided(r) == run[r].prev.gate # "none"

\* Does the adapter of a gated plan write?
GateOpen(r) == run[r].prev.gate = "approved"

\* Leaves preflight if the plan is not gated, and calls the adapter.
Execute(r) ==
    /\ run[r].pc = "execute"
    /\ IF run[r].cur.state = "preflight" /\ ~ plan.gated
       THEN Save(r, [run[r].cur EXCEPT !.state = "provisioning"], "find")
       ELSE /\ run' = [run EXCEPT ![r] =
                 IF plan.gated /\ ~ GateOpen(r)
                 THEN [run[r] EXCEPT !.pc = "apply", !.result = "awaiting-authority"]
                 ELSE [run[r] EXCEPT !.pc = "find"]]
            /\ UNCHANGED <<now, rec>>
    /\ UNCHANGED <<plan, overlap, client, sink, requests, faults>>

-----------------------------------------------------------------------------
(* The adapter *)

AdapterSteps == {"find", "write", "reread", "secret", "observe", "revoke"}

Reads == <<plan, overlap, now, rec, client, sink, requests, faults>>

\* Looks the client up.  Create refuses one nobody tracks, retire skips one that
\* is gone, and every other operation needs it.
Find(r) ==
    LET op == run[r].op
    IN  /\ run[r].pc = "find"
        /\ run' = [run EXCEPT ![r] = [run[r] EXCEPT
              !.before = client.exists, !.enabled = client.enabled,
              !.pc = IF ~ client.exists
                     THEN CASE op = "create" -> "write"
                            [] op = "retire" -> "revoke"
                            [] OTHER -> "throw"
                     ELSE CASE op = "create" /\ ~ Exists(run[r].prev) -> "throw"
                            [] op = "validate" -> "observe"
                            [] op = "rotate" -> IF ~ plan.confidential THEN "observe"
                                                ELSE IF Active(run[r].prev) THEN "secret"
                                                ELSE "throw"
                            [] OTHER -> "write"]]
        /\ UNCHANGED Reads

\* POST, PUT or DELETE: fails if the client has come or gone meanwhile.
Write(r) ==
    LET op == run[r].op
    IN  /\ run[r].pc = "write"
        /\ IF client.exists # run[r].before
           THEN Goto(r, "throw") /\ UNCHANGED client
           ELSE /\ client' = IF op = "retire" THEN NoClient
                             ELSE IF client.exists THEN [client EXCEPT !.enabled = (op # "disable")]
                             ELSE [NoClient EXCEPT !.exists = TRUE, !.enabled = TRUE]
                /\ Goto(r, IF op = "retire" THEN "revoke" ELSE "reread")
        /\ UNCHANGED <<plan, overlap, now, rec, sink, requests, faults>>

\* Reads the client back.  A confidential client must have a tracked secret
\* before it is reconciled, and gets a new one when it is created.
Reread(r) ==
    LET op == run[r].op
    IN  /\ run[r].pc = "reread"
        /\ run' = [run EXCEPT ![r] = [run[r] EXCEPT
              !.enabled = client.enabled,
              !.pc = IF ~ client.exists THEN "throw"
                     ELSE CASE op = "create" /\ plan.confidential -> "secret"
                            [] op = "reconcile" /\ plan.confidential /\ run[r].prev.secret = None
                                 -> "throw"
                            [] OTHER -> "observe"]]
        /\ UNCHANGED Reads

\* The provider generates a secret, which the secret manager may fail to store.
GenerateSecret(r, s, stored) ==
    /\ run[r].pc = "secret"
    /\ sink[s] = "unused" /\ \A t \in Secrets : t < s => sink[t] # "unused"
    /\ stored \/ faults < MaxFaults
    /\ IF client.exists
       THEN /\ client' = [client EXCEPT !.secret = s]
            /\ sink' = [sink EXCEPT ![s] = IF stored THEN "active" ELSE "lost"]
            /\ run' = [run EXCEPT ![r] = [run[r] EXCEPT !.secret = s,
                                            !.pc = IF stored THEN "observe" ELSE "throw"]]
            /\ faults' = IF stored THEN faults ELSE faults + 1
       ELSE Goto(r, "throw") /\ UNCHANGED <<client, sink, faults>>
    /\ UNCHANGED <<plan, overlap, now, rec, requests>>

\* Operations that generate a secret, if the client is confidential.
Generating == {"create", "rotate"}

\* #verifyCredential, of the new version or of the previous record's, against
\* what the provider holds now.
Verified(r) ==
    IF ~ plan.confidential THEN run[r].op \in Generating \/ run[r].prev.secret = None
    ELSE IF run[r].op \in Generating THEN client.secret = run[r].secret
    ELSE Active(run[r].prev) /\ client.secret = run[r].prev.secret

\* Observes the client, `intact' or with callbacks, permissions or an issuer that
\* someone has changed.  This ends the adapter's work but for a rotation's, which
\* goes on only if all is well.
Observe(r, intact) ==
    LET op == run[r].op
        rotated == op = "rotate" /\ plan.confidential
        verified == Verified(r) /\ intact
    IN  /\ run[r].pc = "observe"
        /\ run' = [run EXCEPT ![r] = [run[r] EXCEPT
              !.verified = verified,
              !.result = IF op = "disable" THEN "disabled" ELSE "validating",
              !.pc = IF \/ plan.confidential /\ ~ client.exists
                        \/ rotated /\ ~ (verified /\ run[r].enabled)
                     THEN "throw" ELSE IF rotated THEN "revoke" ELSE "apply"]]
        /\ UNCHANGED Reads

\* Mutant: a rotation revokes the version it has just stored.
Superseded_New(r) == run[r].secret

\* The version a rotation or a retirement revokes.
Superseded(r) == run[r].prev.secret

Revoke(r) ==
    /\ run[r].pc = "revoke"
    /\ sink' = [s \in Secrets |-> IF s = Superseded(r) /\ sink[s] = "active"
                                  THEN "revoked" ELSE sink[s]]
    /\ run' = [run EXCEPT ![r] = [run[r] EXCEPT !.pc = "apply",
          !.result = IF run[r].op = "retire" THEN "retired" ELSE run[r].result]]
    /\ UNCHANGED <<plan, overlap, now, rec, client, requests, faults>>

\* A request of the adapter fails, or its answer is lost.
RequestFails(r) ==
    /\ run[r].pc \in AdapterSteps \cup {"apply"}
    /\ run[r].result # "awaiting-authority"
    /\ faults < MaxFaults
    /\ faults' = faults + 1
    /\ Goto(r, "throw")
    /\ UNCHANGED <<plan, overlap, now, rec, client, sink, requests>>

-----------------------------------------------------------------------------
(* #applyAdapterResult *)

\* An exception of the adapter leaves a failure that may be retried.
Throw(r) ==
    /\ run[r].pc = "throw"
    /\ Save(r, [run[r].cur EXCEPT !.state = "failed", !.error = "retryable"], "idle")
    /\ UNCHANGED <<plan, overlap, client, sink, requests, faults>>

\* Mutant: an observed client is ready.
Ready_Observed(r, next) == TRUE

\* evaluateIdentityProvisioningReadiness
Ready(r, next) == run[r].verified /\ run[r].enabled /\ (plan.confidential => Active(next))

\* The reference the adapter returns, the new one or the previous record's, with
\* the record's own in place of none.
SecretAfter(r) ==
    IF run[r].secret # None THEN run[r].secret
    ELSE IF run[r].op \notin Generating /\ run[r].prev.secret # None THEN run[r].prev.secret
    ELSE run[r].cur.secret

\* Mutant: the contract has nothing to say of retired records.
RetiredIsValid_Always(next) == TRUE

\* A retired record has a secret reference, and it is revoked.
RetiredIsValid(next) == next.secret # None /\ next.revoked

\* The record after the adapter's result.  A result the table has no transition
\* for, or a record that breaks the contract, is a failure for good.
Applied(r) ==
    LET cur  == run[r].cur
        next == [cur EXCEPT !.state = run[r].result, !.error = "none",
                   !.secret = SecretAfter(r),
                   !.revoked = run[r].result = "retired" \/ (run[r].secret = None /\ cur.revoked),
                   !.gate = IF cur.gate = "approved" THEN "approved" ELSE "none"]
        final == [cur EXCEPT !.state = "failed", !.error = "final"]
    IN  IF run[r].result \notin Transitions[cur.state] THEN final
        ELSE CASE run[r].result = "awaiting-authority" -> [next EXCEPT !.gate = "pending"]
               [] run[r].result = "disabled" -> next
               [] run[r].result = "retired" -> IF RetiredIsValid(next) THEN next ELSE final
               [] OTHER -> IF Ready(r, next) THEN [next EXCEPT !.state = "ready"]
                           ELSE [next EXCEPT !.state = "failed", !.error = "retryable"]

Apply(r) ==
    /\ run[r].pc = "apply"
    /\ Save(r, Applied(r), "idle")
    /\ UNCHANGED <<plan, overlap, client, sink, requests, faults>>

\* The process dies.
Crash(r) ==
    /\ run[r].pc # "idle"
    /\ faults < MaxFaults
    /\ faults' = faults + 1
    /\ run' = [run EXCEPT ![r] = Idle]
    /\ UNCHANGED <<plan, overlap, now, rec, client, sink, requests>>

RunStep(r) ==
    \/ Recover(r) \/ ReadLatest(r) \/ Start(r) \/ Execute(r)
    \/ RejectDecision(r) \/ \E decision \in Decisions : Decide(r, decision)
    \/ Find(r) \/ Write(r) \/ Reread(r) \/ Revoke(r)
    \/ \E intact \in BOOLEAN : Observe(r, intact)
    \/ \E s \in Secrets, stored \in BOOLEAN : GenerateSecret(r, s, stored)
    \/ Throw(r) \/ Apply(r)

Next ==
    \E r \in Runs :
        \/ \E k \in Keys, op \in Operations : BeginRun(r, k, op)
        \/ \E k \in Keys : BeginDecision(r, k)
        \/ RunStep(r)
        \/ RequestFails(r)
        \/ Crash(r)

Spec == Init /\ [][Next]_vars

-----------------------------------------------------------------------------
(* Properties *)

Record == [state : {"none"} \cup DOMAIN Transitions, op : Operations \cup {None}, updated : Nat,
           gate : {"none", "pending"} \cup Decisions, secret : Secrets \cup {None},
           revoked : BOOLEAN, error : {"none", "retryable", "final"}]

\* The records keep the contract of validateIdentityProvisioningRecord, and the
\* calls' variables their types.
TypeOK ==
    /\ plan \in [gated : BOOLEAN, confidential : BOOLEAN] /\ overlap \in BOOLEAN
    /\ now \in Nat /\ requests \in Nat /\ faults \in Nat
    /\ rec \in [Keys -> Record]
    /\ \A k \in Keys :
          /\ rec[k].state = "awaiting-authority" => rec[k].gate = "pending"
          /\ rec[k].state = "failed" <=> rec[k].error # "none" /\ rec[k].state # "recovering"
          /\ rec[k].state = "retired" => rec[k].revoked /\ rec[k].secret # None
    /\ client \in [exists : BOOLEAN, enabled : BOOLEAN, secret : Secrets \cup {None}]
    /\ sink \in [Secrets -> {"unused", "active", "revoked", "lost"}]
    /\ run \in [Runs -> [pc : {"idle", "latest", "start", "recover", "decide", "execute",
                               "throw", "apply"} \cup AdapterSteps,
                         key : Keys \cup {None}, op : Operations \cup {None},
                         cur : Record, prev : Record, secret : Secrets \cup {None},
                         before : BOOLEAN, enabled : BOOLEAN, verified : BOOLEAN,
                         result : {"none", "awaiting-authority", "validating", "disabled",
                                   "retired"}]]

\* The outcome of an idempotency key is final: a slower call of the same key, a
\* late decision or a retry never changes a completed or refused operation.
OutcomesAreFinal ==
    [][\A k \in Keys : Settled(rec[k]) => rec'[k] = rec[k]]_rec

\* Under a gated plan the provider is written to only behind an approved gate,
\* however decisions, expiries and retries race.
GateBeforeWrite ==
    plan.gated /\ client.exists => \E k \in Keys : rec[k].gate = "approved"

\* No overlap of rotations, retirements and creations revokes the version that
\* the provider accepts.
CurrentSecretIsKept ==
    client.exists /\ client.secret # None => sink[client.secret] # "revoked"

\* Where calls do not overlap and none is left unfinished, a client whose latest
\* record is ready can be used, whatever deaths and failures came before: it
\* exists and is enabled, and the record names the version that it accepts and
\* that the secret manager holds.
ReadyIsUsable ==
    (~ overlap /\ \A k \in Keys : rec[k].state \notin {"provisioning", "recovering"}) =>
        \A latest \in Latest : latest.state = "ready" =>
            /\ client.exists /\ client.enabled
            /\ plan.confidential => /\ latest.secret # None /\ latest.secret = client.secret
                                    /\ sink[latest.secret] = "active"

\* Every record and client keeps its form, and what a record calls ready can be used.
ReadyIsSound == TypeOK /\ ReadyIsUsable

=============================================================================
