----------------------------- MODULE AccountMerge -----------------------------
(***************************************************************************)
(* The merge of two accounts: proofs, preview, completion and rollback     *)
(* (createAccountMergeProof ... rollbackAccountMerge in src/worker.ts),    *)
(* next to the learners' own imports and changes of their accounts.        *)
(*                                                                         *)
(* An account is reduced to                                                *)
(*   prog, progAt  its learning_progress row (with the module, attempt,    *)
(*                 transcript, badge and import tables that are rewritten  *)
(*                 with it): a set of evidence and its updated_at;         *)
(*   ver, verAt    everything else the snapshot covers: profile, roles,    *)
(*                 consents, state; a version and its newest timestamp; a  *)
(*                 registered account has a role and the consents that a   *)
(*                 merge requires, a version 0 has none of this left;      *)
(*   item, itemAt  the last import of its event stream;                    *)
(*   keys          the import ids bound in the stream, with their item.    *)
(* captureMergeSnapshot reads table by table; what changes between two of  *)
(* its reads also may change right after the first of them, so the capture *)
(* is one step.  Every request reads the clock once, when it begins.  A    *)
(* preview lives longer than the proofs it rests on, so only the expiry of *)
(* a proof is modelled.                                                    *)
(***************************************************************************)
EXTENDS Integers, FiniteSets

CONSTANTS
  Accounts,     \* the accounts, each with an identity of its own
  Cases,        \* merge cases, by idempotency key
  Evidence,     \* what learners complete
  Calls,        \* the owner's requests
  MaxProofs,    \* proofs per account
  MaxClock,     \* requests begun
  MaxVersion,   \* changes of an account
  MaxActive,    \* requests under way at a time
  None          \* no account

VARIABLES
  clock,
  acct,      \* the accounts
  proof,     \* account_merge_proofs: account and number to status
  case,      \* account_merge_cases with their snapshot rows
  alias,     \* account_merge_aliases: source to survivor
  aliasOf,   \* the case of an alias
  receipts,  \* account_merge_receipts
  undone,    \* account_merge_recovery_receipts
  call,      \* the local state of the owner's requests
  import,    \* the local state of a learner's import, per identity
  told,      \* history: the evidence an identity was told is saved
  spent      \* history: the proofs each completion relied on

mergeVars == <<clock, acct, proof, case, alias, aliasOf, receipts, undone,
               call, import, told, spent>>

Proofs == Accounts \X (1..MaxProofs)
Fresh == [prog |-> {}, progAt |-> 0, ver |-> 1, verAt |-> 0,
          item |-> {}, itemAt |-> 0, keys |-> {}]
NoSnapshot == [x \in {} |-> Fresh]
NoCase == [status |-> "none", source |-> None, survivor |-> None,
           proofs |-> {}, digest |-> NoSnapshot, snap |-> NoSnapshot, at |-> 0,
           before |-> NoSnapshot]
NoCall == [op |-> "none", pc |-> "idle", id |-> "none", now |-> 0,
           read |-> NoCase, snap |-> NoSnapshot, todo |-> {}]
NoImport == [pc |-> "idle", into |-> None, item |-> {}, now |-> 0]

Init ==
  /\ clock = 0
  /\ acct = [x \in Accounts |-> Fresh]
  /\ proof = [p \in Proofs |-> "none"]
  /\ case = [c \in Cases |-> NoCase]
  /\ alias = [x \in Accounts |-> None]
  /\ aliasOf = [x \in Accounts |-> "none"]
  /\ receipts = {} /\ undone = {}
  /\ call = [o \in Calls |-> NoCall]
  /\ import = [x \in Accounts |-> NoImport]
  /\ told = [x \in Accounts |-> {}]
  /\ spent = {}

Active == {o \in Calls : call[o].pc # "idle"}
Importing == {x \in Accounts : import[x].pc # "idle"}
MayBegin ==
  /\ clock < MaxClock
  /\ Cardinality(Active) + Cardinality(Importing) < MaxActive

\* findAccount: an identity leads to its account or to the survivor of it.
Resolve(x) == IF alias[x] = None THEN x ELSE alias[x]

\* What the snapshot and its digest cover of an account.
Content(a) == [prog |-> a.prog, progAt |-> a.progAt, ver |-> a.ver, verAt |-> a.verAt]
Capture(s, v) == [x \in {s, v} |-> Content(acct[x])]

-----------------------------------------------------------------------------
(* The learners.                                                           *)

\* What getProgress shows: the row, if it differs from the last import and is
\* not older (it is then promoted), or else that import.
Promotable(a) == a.progAt # 0 /\ a.prog # a.item /\ a.progAt >= a.itemAt
Shown(x) == IF Promotable(acct[x]) THEN acct[x].prog ELSE acct[x].item

ReadProgress(x) ==
  /\ MayBegin
  /\ Promotable(acct[x])
  /\ acct' = [acct EXCEPT ![x] = [@ EXCEPT !.item = acct[x].prog, !.itemAt = acct[x].progAt]]
  /\ UNCHANGED <<clock, proof, case, alias, aliasOf, receipts, undone, call, import, told, spent>>

\* A session resolves to an account; the client has read the record, and sends
\* all it knows.
BeginImport(x, e) ==
  /\ MayBegin
  /\ import[x].pc = "idle"
  /\ clock' = clock + 1
  /\ import' = [import EXCEPT ![x] =
       [pc |-> "append", into |-> Resolve(x),
        item |-> Shown(Resolve(x)) \cup told[x] \cup {e}, now |-> clock + 1]]
  /\ UNCHANGED <<acct, proof, case, alias, aliasOf, receipts, undone, call, told, spent>>

\* importProgress: the event, then the projection.
AppendImport(x) ==
  LET i == import[x] IN
  /\ i.pc = "append"
  /\ acct' = [acct EXCEPT ![i.into].item = i.item, ![i.into].itemAt = i.now]
  /\ import' = [import EXCEPT ![x].pc = "row"]
  /\ UNCHANGED <<clock, proof, case, alias, aliasOf, receipts, undone, call, told, spent>>

WriteProgress(x) ==
  LET i == import[x] IN
  /\ i.pc = "row"
  /\ acct' = [acct EXCEPT ![i.into].prog = i.item, ![i.into].progAt = i.now]
  /\ told' = [told EXCEPT ![x] = @ \cup i.item]
  /\ import' = [import EXCEPT ![x] = NoImport]
  /\ UNCHANGED <<clock, proof, case, alias, aliasOf, receipts, undone, call, spent>>

\* A request that dies leaves what it has committed.
ImportDies(x) ==
  /\ import[x].pc # "idle"
  /\ import' = [import EXCEPT ![x] = NoImport]
  /\ UNCHANGED <<clock, acct, proof, case, alias, aliasOf, receipts, undone, call, told, spent>>

\* A profile, consent, role or state changes.
ChangeAccount(x) ==
  /\ MayBegin
  /\ acct[x].ver < MaxVersion
  /\ clock' = clock + 1
  /\ acct' = [acct EXCEPT ![x].ver = @ + 1, ![x].verAt = clock + 1]
  /\ UNCHANGED <<proof, case, alias, aliasOf, receipts, undone, call, import, told, spent>>

\* createAccountMergeProof: a number of unused proofs at most.
CreateProof(p) ==
  /\ MayBegin
  /\ proof[p] = "none" /\ \A i \in 1..(p[2] - 1) : proof[<<p[1], i>>] # "none"
  /\ proof' = [proof EXCEPT ![p] = "available"]
  /\ UNCHANGED <<clock, acct, case, alias, aliasOf, receipts, undone, call, import, told, spent>>

\* Fifteen minutes pass.
ProofsExpire ==
  /\ \E p \in Proofs : proof[p] = "available"
  /\ proof' = [p \in Proofs |-> IF proof[p] = "available" THEN "expired" ELSE proof[p]]
  /\ UNCHANGED <<clock, acct, case, alias, aliasOf, receipts, undone, call, import, told, spent>>

-----------------------------------------------------------------------------
(* The owner's requests.                                                   *)

Frame == <<clock, acct, proof, case, alias, aliasOf, receipts, undone, import, told, spent>>

Begin(o, op, c) ==
  /\ MayBegin
  /\ call[o].pc = "idle"
  /\ clock' = clock + 1
  /\ call' = [call EXCEPT ![o] = [NoCall EXCEPT !.op = op, !.pc = "read",
                                                !.id = c, !.now = clock + 1]]
  /\ UNCHANGED <<acct, proof, case, alias, aliasOf, receipts, undone, import, told, spent>>

End(o) == call' = [call EXCEPT ![o] = NoCall]

CallDies(o) ==
  /\ call[o].pc # "idle"
  /\ End(o)
  /\ UNCHANGED Frame

\* createAccountMergePreview: a known key answers; otherwise both accounts
\* must be unmerged and each has an available proof.
Mergeable(s, v) ==
  /\ s # v
  /\ alias[s] = None /\ alias[v] = None
  /\ \A x \in Accounts : alias[x] # s

ReadPreview(o) ==
  /\ call[o].op = "preview" /\ call[o].pc = "read"
  /\ \/ /\ case[call[o].id].status # "none"
        /\ End(o)
     \/ /\ case[call[o].id].status = "none"
        /\ \E s, v \in Accounts, i, j \in 1..MaxProofs :
             IF Mergeable(s, v) /\ proof[<<s, i>>] = "available" /\ proof[<<v, j>>] = "available"
             THEN call' = [call EXCEPT ![o].pc = "batch",
                    ![o].read = [NoCase EXCEPT !.status = "preview", !.source = s,
                                   !.survivor = v, !.proofs = {<<s, i>>, <<v, j>>}]]
             ELSE End(o)
  /\ UNCHANGED Frame

\* The snapshot is captured, then the case replaces the previews of its source.
\* one_live_merge_case_per_source refuses a source whose merge is completed.
CapturePreview(o) ==
  /\ call[o].op = "preview" /\ call[o].pc = "batch" /\ call[o].snap = NoSnapshot
  /\ call' = [call EXCEPT ![o].snap = Capture(call[o].read.source, call[o].read.survivor)]
  /\ UNCHANGED Frame

WritePreview(o) ==
  LET r == call[o].read IN
  /\ call[o].op = "preview" /\ call[o].pc = "batch" /\ call[o].snap # NoSnapshot
  /\ IF \/ case[call[o].id].status # "none"
        \/ \E d \in Cases : case[d].status = "completed" /\ case[d].source = r.source
     THEN UNCHANGED case
     ELSE case' = [d \in Cases |->
            IF d = call[o].id THEN [r EXCEPT !.digest = call[o].snap]
            ELSE IF case[d].status = "preview" /\ case[d].source = r.source
                 THEN [case[d] EXCEPT !.status = "cancelled"]
            ELSE case[d]]
  /\ End(o)
  /\ UNCHANGED <<clock, acct, proof, alias, aliasOf, receipts, undone, import, told, spent>>

-----------------------------------------------------------------------------
ProofsFit(r) == \A p \in r.proofs : proof[p] = "available"

\* completeAccountMerge: a completed case answers its receipt, after one more
\* promotion; a preview goes on with its proofs and a new snapshot.
ReadComplete(o) ==
  LET r == case[call[o].id] IN
  /\ call[o].op = "complete" /\ call[o].pc = "read"
  /\ \/ /\ r.status = "completed"
        /\ call' = [call EXCEPT ![o].read = r, ![o].pc = "promote",
                                ![o].todo = {r.survivor}]
     \/ /\ r.status = "preview" /\ ProofsFit(r)
        /\ call' = [call EXCEPT ![o].read = r, ![o].pc = "capture"]
     \/ /\ r.status \notin {"preview", "completed"} \/ (r.status = "preview" /\ ~ProofsFit(r))
        /\ End(o)
  /\ UNCHANGED Frame

\* The digest of the new snapshot is the one that was previewed.
Unchanged(r) == Capture(r.source, r.survivor) = r.digest

CaptureComplete(o) ==
  LET r == call[o].read IN
  /\ call[o].pc = "capture"
  /\ \/ /\ Unchanged(r)
        /\ call' = [call EXCEPT ![o].snap = Capture(r.source, r.survivor), ![o].pc = "merge"]
     \/ /\ ~Unchanged(r)
        /\ End(o)
  /\ UNCHANGED Frame

\* The keys of the snapshot rows, of the alias and of the receipt.
MergeThrows(o) ==
  \/ call[o].id \in receipts
  \/ alias[call[o].read.source] # None

\* mergeLearnerProgress keeps the evidence of both accounts.
Merged(snap, r) == snap[r.survivor].prog \cup snap[r.source].prog

\* The survivor's rows, and the source's, which move or are deleted.
Combined(a, snap, r, now) ==
  [a EXCEPT !.prog = Merged(snap, r), !.progAt = now, !.ver = a.ver + 1, !.verAt = now]
Emptied(a) == [a EXCEPT !.prog = {}, !.progAt = 0, !.ver = 0]

\* The batch: the snapshot is kept, the survivor gets the records of both, the
\* source is emptied and becomes an alias, the proofs are consumed if they are
\* available, the case is completed if it still is a preview.
MergeBatch(o) ==
  LET r == call[o].read
      snap == call[o].snap
  IN
  /\ call[o].pc = "merge" /\ ~MergeThrows(o)
  /\ acct' = [acct EXCEPT
       ![r.survivor] = Combined(acct[r.survivor], snap, r, call[o].now),
       ![r.source] = Emptied(acct[r.source])]
  /\ alias' = [alias EXCEPT ![r.source] = r.survivor]
  /\ aliasOf' = [aliasOf EXCEPT ![r.source] = call[o].id]
  /\ proof' = [p \in Proofs |-> IF p \in r.proofs /\ proof[p] = "available"
                                THEN "consumed" ELSE proof[p]]
  /\ case' = [case EXCEPT
       ![call[o].id].status = IF @ = "preview" THEN "completed" ELSE @,
       ![call[o].id].at = call[o].now, ![call[o].id].snap = snap,
       ![call[o].id].before = [x \in {r.source, r.survivor} |-> Shown(x)]]
  /\ receipts' = receipts \cup {call[o].id}
  /\ spent' = spent \cup {<<call[o].id, p>> : p \in r.proofs}
  /\ call' = [call EXCEPT ![o].pc = "promote", ![o].todo = {r.survivor}]
  /\ UNCHANGED <<clock, undone, import, told>>

\* The batch fails: the case is read again, and answered if it is completed.
MergeFails(o) ==
  /\ call[o].pc = "merge" /\ MergeThrows(o)
  /\ IF case[call[o].id].status = "completed"
     THEN call' = [call EXCEPT ![o].pc = "promote", ![o].todo = {call[o].read.survivor}]
     ELSE End(o)
  /\ UNCHANGED Frame

\* promoteCurrentLegacyProgress: the row becomes an import of the stream,
\* once per key; a key bound to another snapshot is a conflict.  The source of
\* a rollback comes first.
PromoteKey(o, x) == <<call[o].op, call[o].id, x>>
Promote(o, x) ==
  LET a == acct[x]
      k == PromoteKey(o, x)
      bound == {b \in a.keys : b[1] = k}
  IN
  /\ call[o].pc = "promote" /\ x \in call[o].todo
  /\ call[o].todo = {x} \/ x = call[o].read.source
  /\ \/ /\ bound = {} /\ a.progAt # 0
        /\ acct' = [acct EXCEPT ![x].item = a.prog, ![x].itemAt = call[o].now,
                                ![x].keys = @ \cup {<<k, a.prog>>}]
     \/ /\ bound # {} \/ a.progAt = 0
        /\ UNCHANGED acct
  /\ IF bound # {} /\ bound # {<<k, a.prog>>} THEN End(o)
     ELSE call' = [call EXCEPT ![o] = IF call[o].todo = {x} THEN NoCall
                                      ELSE [call[o] EXCEPT !.todo = @ \ {x}]]
  /\ UNCHANGED <<clock, proof, case, alias, aliasOf, receipts, undone, import, told, spent>>

-----------------------------------------------------------------------------
\* Mutant: the rollback does not look for later activity.
ChangedSince_Never(r) == FALSE

\* accountMergeHasPostCompletionChanges: timestamps of the survivor only.
ChangedSince(r) == acct[r.survivor].progAt > r.at \/ acct[r.survivor].verAt > r.at

\* rollbackAccountMerge: a rolled back case promotes once more; a completed
\* one is checked for later activity.
ReadRollback(o) ==
  LET r == case[call[o].id] IN
  /\ call[o].op = "rollback" /\ call[o].pc = "read"
  /\ \/ /\ r.status = "rolled-back"
        /\ call' = [call EXCEPT ![o].read = r, ![o].pc = "promote",
                                ![o].todo = {r.source, r.survivor}]
     \/ /\ r.status = "completed" /\ ~ChangedSince(r)
        /\ call' = [call EXCEPT ![o].read = r, ![o].pc = "restore"]
     \/ /\ r.status \notin {"completed", "rolled-back"} \/ (r.status = "completed" /\ ChangedSince(r))
        /\ End(o)
  /\ UNCHANGED Frame

Freed(c, x) == aliasOf[x] = c

\* The batch: alias gone, both accounts as in the snapshot, the case rolled
\* back.  A second recovery receipt for a case fails the batch.
RestoreBatch(o) ==
  LET r == call[o].read
      snap == r.snap
      back(x) == [acct[x] EXCEPT !.prog = snap[x].prog, !.progAt = snap[x].progAt,
                                 !.ver = snap[x].ver, !.verAt = snap[x].verAt]
  IN
  /\ call[o].pc = "restore"
  /\ \/ /\ call[o].id \in undone
        /\ End(o)
        /\ UNCHANGED <<acct, alias, aliasOf, case, undone>>
     \/ /\ call[o].id \notin undone
        /\ acct' = [x \in Accounts |-> IF x \in {r.source, r.survivor} THEN back(x) ELSE acct[x]]
        /\ alias' = [x \in Accounts |-> IF Freed(call[o].id, x) THEN None ELSE alias[x]]
        /\ aliasOf' = [x \in Accounts |-> IF Freed(call[o].id, x) THEN "none" ELSE aliasOf[x]]
        /\ case' = [case EXCEPT ![call[o].id].status = "rolled-back"]
        /\ undone' = undone \cup {call[o].id}
        /\ call' = [call EXCEPT ![o].pc = "promote", ![o].todo = {r.source, r.survivor}]
  /\ UNCHANGED <<clock, proof, receipts, import, told, spent>>

OwnerStep(o) ==
  \/ \E c \in Cases, op \in {"preview", "complete", "rollback"} : Begin(o, op, c)
  \/ ReadPreview(o) \/ CapturePreview(o) \/ WritePreview(o)
  \/ ReadComplete(o) \/ CaptureComplete(o) \/ MergeBatch(o) \/ MergeFails(o)
  \/ ReadRollback(o) \/ RestoreBatch(o)
  \/ \E x \in Accounts : Promote(o, x)
  \/ CallDies(o)

LearnerStep(x) ==
  \/ \E e \in Evidence : BeginImport(x, e)
  \/ AppendImport(x) \/ WriteProgress(x) \/ ImportDies(x)
  \/ ChangeAccount(x) \/ ReadProgress(x)

Next ==
  \/ \E o \in Calls : OwnerStep(o)
  \/ \E x \in Accounts : LearnerStep(x)
  \/ \E p \in Proofs : CreateProof(p)
  \/ ProofsExpire

Spec == Init /\ [][Next]_mergeVars

-----------------------------------------------------------------------------
(* What must hold.                                                         *)

\* Every variable has its type; no account is merged into itself.
MergeTypeOK ==
  /\ clock \in 0..MaxClock
  /\ \A x \in Accounts : /\ alias[x] \in (Accounts \ {x}) \cup {None}
                         /\ alias[x] = None <=> aliasOf[x] = "none"
  /\ \A p \in Proofs : proof[p] \in {"none", "available", "expired", "consumed"}
  /\ undone \subseteq receipts /\ receipts \subseteq Cases

\* Whatever merges and rollbacks an owner runs one after the other, and
\* wherever they die, a learner finds every piece of evidence that was
\* confirmed to them behind the identity they sign in with: a merge keeps the
\* records of both accounts, a rollback is refused once there is activity
\* (worker.ts:4378).
ConfirmedSurvives == \A x \in Accounts : told[x] \subseteq Shown(Resolve(x))

\* An account that was merged away is never the survivor of another merge:
\* findAccount follows one alias only (worker.ts:3008), and completion relies
\* on the preview's digest to refuse a case that another merge overtook.
AliasesAreFlat == \A x \in Accounts : alias[x] # None => alias[alias[x]] = None

\* A proof serves one merge, also when previews share it and the first merge is
\* rolled back, which restores the very data the others were previewed on.
ProofsServeOnce ==
  \A s, t \in spent : s[2] = t[2] => s[1] = t[1]

\* Every merge in force has a completed case, so that it can be rolled back
\* (worker.ts:4353 refuses any other case).
MergeIsRecoverable ==
  \A x \in Accounts : alias[x] # None => case[aliasOf[x]].status = "completed"

\* When a rollback has restored the accounts and promoted both of them, each
\* shows the record it showed before the merge (worker.ts:4520, 6091).
RollbackRestoresTheRecord ==
  [][\A o \in Calls :
       LET r == call[o].read IN
       /\ call[o].op = "rollback" /\ r.status = "completed"
       /\ \E x \in Accounts : call[o].todo = {x} /\ Promote(o, x)
       => \A x \in {r.source, r.survivor} : Shown(x)' = r.before[x]]_mergeVars
===============================================================================
