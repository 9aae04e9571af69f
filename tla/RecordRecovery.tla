---------------------------- MODULE RecordRecovery ----------------------------
(***************************************************************************)
(* Verified exports, deletion receipts, recovery backups and deletion      *)
(* replay of learning records (src/sql-learning-event-store.ts from        *)
(* exportVerified on, src/learning-record-receipts.ts,                     *)
(* src/learning-record-recovery-backup.ts, src/learning-record-recovery.ts)*)
(* while the source goes on appending and deleting.                        *)
(*                                                                         *)
(* An event is a number, fresh at every append, so a stream that was       *)
(* erased and begun again shares no event with its past.  A digest stands  *)
(* for what it is computed from: a receipt's id is its content.  A batch   *)
(* is one step on D1 (serial); on PostgreSQL another request may commit    *)
(* between the statement that checks the revision and the one that deletes.*)
(***************************************************************************)
EXTENDS Integers, Sequences, FiniteSets

CONSTANTS
  Learners,   \* learner scopes
  Deleters,   \* processes that delete with a receipt
  Keys,       \* operation keys of deletions
  Restores,   \* restore ids
  MaxEvents,  \* events ever appended
  MaxDeletes, \* deletions begun
  MaxRuns     \* recovery runs

VARIABLES
  serial,     \* does a batch exclude other requests?  On D1, not on PostgreSQL
  stream,     \* the source's learning_events, by learner
  last,       \* the last event number
  receipts,   \* learning_record_deletion_receipts, also kept off the database
  del,        \* local state of the deletions
  begun,      \* deletions begun
  export,     \* local state of the backup process
  backup,     \* the recovery artifact
  target,     \* the streams of the isolated target
  replays,    \* the target's learning_record_deletion_replays
  rec,        \* local state of a recovery run
  runs,       \* recovery runs begun
  erased,     \* history: what went with a receipt
  sealed,     \* history: the streams a backup was made of
  promoted    \* history: what was reported ready, and the receipts it honoured

recoveryVars == <<serial, stream, last, receipts, del, begun, export, backup, target,
                  replays, rec, runs, erased, sealed, promoted>>
sourceVars == <<serial, stream, last, receipts, del, begun, erased>>
backupVars == <<export, backup, sealed>>
targetVars == <<target, replays, rec, runs, promoted>>

Empty == [x \in Learners |-> <<>>]
NoReceipt == [learner |-> "none", key |-> "none", events |-> <<>>]
NoDelete == [pc |-> "idle", receipt |-> NoReceipt, inserted |-> FALSE]
NoExport == [pc |-> "idle", of |-> "none", streams |-> Empty, left |-> {}]
NoBackup == [made |-> FALSE, streams |-> Empty, receipts |-> Empty, manifest |-> Empty,
             old |-> FALSE]
NoRun == [pc |-> "idle", id |-> "none", of |-> "none", n |-> 0, left |-> {}, todo |-> {}, known |-> {}]
NoPromotion == [ready |-> FALSE, streams |-> Empty, receipts |-> {}]

Init ==
  /\ serial \in BOOLEAN
  /\ stream = Empty /\ last = 0 /\ receipts = {}
  /\ del = [d \in Deleters |-> NoDelete] /\ begun = 0
  /\ export = NoExport /\ backup = NoBackup
  /\ target = Empty /\ replays = {} /\ rec = NoRun /\ runs = 0
  /\ erased = {} /\ sealed = Empty /\ promoted = NoPromotion

\* The source's append (LearningRecord has its detail): a sequence number that
\* was never used, also after an erasure.
AppendEvent(x) ==
  /\ last < MaxEvents
  /\ last' = last + 1
  /\ stream' = [stream EXCEPT ![x] = Append(@, last + 1)]
  /\ UNCHANGED <<serial, receipts, del, begun, erased, backupVars, targetVars>>

-----------------------------------------------------------------------------
(* deleteVerified.                                                         *)

BoundTo(x, k) == {c \in receipts : c.learner = x /\ c.key = k}

\* An operation key that is bound answers its receipt.
FindReceipt(d, x, k) ==
  /\ del[d].pc = "idle" /\ begun < MaxDeletes
  /\ begun' = begun + 1
  /\ del' = [del EXCEPT ![d] =
       IF BoundTo(x, k) # {} THEN NoDelete
       ELSE [pc |-> "list", receipt |-> [learner |-> x, key |-> k, events |-> <<>>],
             inserted |-> FALSE]]
  /\ UNCHANGED <<serial, stream, last, receipts, erased, backupVars, targetVars>>

ListErased(d) ==
  /\ del[d].pc = "list"
  /\ del' = [del EXCEPT ![d].pc = "insert", ![d].receipt.events = stream[del[d].receipt.learner]]
  /\ UNCHANGED <<serial, stream, last, receipts, begun, erased, backupVars, targetVars>>

\* Mutant: the revision is not compared.
RevisionFits_Any(c) == TRUE

\* The receipt is inserted if the stream still has the listed number of events.
RevisionFits(c) == Len(stream[c.learner]) = Len(c.events)

Inserts(c) == RevisionFits(c) /\ BoundTo(c.learner, c.key) = {}

\* The deletes ask whether the receipt's id exists, whoever inserted it.
Erasing(c, there) == c \in there /\ stream[c.learner] # <<>>

EraseWith(c, there) ==
  /\ stream' = IF Erasing(c, there) THEN [stream EXCEPT ![c.learner] = <<>>] ELSE stream
  /\ erased' = IF Erasing(c, there) THEN erased \cup {<<c, stream[c.learner]>>} ELSE erased

DeleteBatch(d) ==
  LET c == del[d].receipt
      there == receipts \cup (IF Inserts(c) THEN {c} ELSE {})
  IN
  /\ serial /\ del[d].pc = "insert"
  /\ receipts' = there
  /\ EraseWith(c, there)
  /\ del' = [del EXCEPT ![d] = NoDelete]
  /\ UNCHANGED <<serial, last, begun, backupVars, targetVars>>

\* PostgreSQL: the insert; its receipt is seen by others once committed, and a
\* second insert of the key waits for it.
InsertReceipt(d) ==
  LET c == del[d].receipt IN
  /\ ~serial /\ del[d].pc = "insert"
  /\ \A e \in Deleters : del[e].inserted => del[e].receipt.key # c.key
  /\ del' = [del EXCEPT ![d].pc = "erase", ![d].inserted = Inserts(c)]
  /\ UNCHANGED <<serial, stream, last, receipts, begun, erased, backupVars, targetVars>>

EraseEvents(d) ==
  LET c == del[d].receipt
      there == receipts \cup (IF del[d].inserted THEN {c} ELSE {})
  IN
  /\ del[d].pc = "erase"
  /\ receipts' = there
  /\ EraseWith(c, there)
  /\ del' = [del EXCEPT ![d] = NoDelete]
  /\ UNCHANGED <<serial, last, begun, backupVars, targetVars>>

DeleteDies(d) ==
  /\ del[d].pc # "idle"
  /\ del' = [del EXCEPT ![d] = NoDelete]
  /\ UNCHANGED <<serial, stream, last, receipts, begun, erased, backupVars, targetVars>>

-----------------------------------------------------------------------------
(* exportVerified and createLearningRecordRecoveryBackup.                  *)

BeginBackup ==
  /\ export.pc = "idle" /\ ~backup.made
  /\ export' = [NoExport EXCEPT !.pc = "list", !.left = Learners]
  /\ UNCHANGED <<sourceVars, backup, sealed, targetVars>>

ListExport(x) ==
  /\ export.pc = "list" /\ x \in export.left
  /\ export' = [export EXCEPT !.pc = "again", !.of = x, !.streams[x] = stream[x]]
  /\ UNCHANGED <<sourceVars, backup, sealed, targetVars>>

\* The stream is listed again; a change fails the export.
ListAgain ==
  LET x == export.of IN
  /\ export.pc = "again"
  /\ export' = IF stream[x] = export.streams[x]
               THEN [export EXCEPT !.pc = "list", !.left = export.left \ {x}]
               ELSE NoExport
  /\ UNCHANGED <<sourceVars, backup, sealed, targetVars>>

\* The artifact: the streams, each with its receipt, and a manifest that binds
\* them.
Seal ==
  /\ export.pc = "list" /\ export.left = {}
  /\ backup' = [made |-> TRUE, streams |-> export.streams, receipts |-> export.streams,
                manifest |-> export.streams, old |-> FALSE]
  /\ sealed' = export.streams
  /\ export' = NoExport
  /\ UNCHANGED <<sourceVars, targetVars>>

\* The stored payload loses the last event of a stream; the manifest may have
\* been computed again over what is left.
Damage(x, resigned) ==
  LET cut == [backup.streams EXCEPT ![x] = SubSeq(@, 1, Len(@) - 1)] IN
  /\ backup.made /\ rec.pc = "idle" /\ backup.streams = sealed /\ sealed[x] # <<>>
  /\ backup' = [backup EXCEPT !.streams = cut, !.manifest = IF resigned THEN cut ELSE @]
  /\ UNCHANGED <<sourceVars, export, sealed, targetVars>>

\* The retention window of the artifact ends.
Age ==
  /\ backup.made /\ ~backup.old
  /\ backup' = [backup EXCEPT !.old = TRUE]
  /\ UNCHANGED <<sourceVars, export, sealed, targetVars>>

-----------------------------------------------------------------------------
(* The recovery run.                                                       *)

\* verifyLearningRecordExport, for every stream of the artifact.
StreamReceiptsFit(b) == b.receipts = b.streams

\* verifyLearningRecordRecoveryBackup: age, manifest and the stream receipts;
\* a manifest of no events is refused.
Verified(b) ==
  /\ ~b.old
  /\ b.manifest = b.streams
  /\ \E x \in Learners : b.streams[x] # <<>>
  /\ StreamReceiptsFit(b)

\* The deletions after the backup are known to the run.
BeginRecovery(id) ==
  /\ backup.made /\ rec.pc = "idle" /\ runs < MaxRuns /\ ~promoted.ready
  /\ runs' = runs + 1
  /\ rec' = IF Verified(backup)
            THEN [NoRun EXCEPT !.pc = "restore", !.id = id, !.left = Learners,
                                !.todo = receipts, !.known = receipts]
            ELSE NoRun
  /\ UNCHANGED <<sourceVars, backupVars, target, replays, promoted>>

\* restoreVerifiedLearningRecordExport refuses a target that is not empty ...
OpenTarget(x) ==
  /\ rec.pc = "restore" /\ x \in rec.left
  /\ rec' = IF target[x] # <<>> THEN NoRun
            ELSE [rec EXCEPT !.pc = "append", !.of = x, !.n = 0]
  /\ UNCHANGED <<sourceVars, backupVars, target, replays, runs, promoted>>

\* ... appends event by event, and compares what is there in the end.
RestoreEvent ==
  LET x == rec.of
      s == backup.streams[x]
  IN
  /\ rec.pc = "append" /\ rec.n < Len(s) /\ Len(target[x]) = rec.n
  /\ target' = [target EXCEPT ![x] = Append(@, s[rec.n + 1])]
  /\ rec' = [rec EXCEPT !.n = rec.n + 1]
  /\ UNCHANGED <<sourceVars, backupVars, replays, runs, promoted>>

CompareRestored ==
  LET x == rec.of IN
  /\ rec.pc = "append" /\ rec.n = Len(backup.streams[x])
  /\ IF target[x] = backup.streams[x]
     THEN rec' = [rec EXCEPT !.pc = "restore", !.left = rec.left \ {x}] /\ UNCHANGED target
     ELSE rec' = NoRun /\ target' = [target EXCEPT ![x] = <<>>]
  /\ UNCHANGED <<sourceVars, backupVars, replays, runs, promoted>>

\* An append fails: the stream is cleared, unless that fails too.
RestoreFails ==
  /\ rec.pc = "append"
  /\ target' = [target EXCEPT ![rec.of] = <<>>] \/ UNCHANGED target
  /\ rec' = NoRun
  /\ UNCHANGED <<sourceVars, backupVars, replays, runs, promoted>>

\* A replay is known by its deletion receipt and its restore id.
ReplayId(c) == <<c, rec.id>>

\* replayDeletion: a replay that is recorded for this restore id answers at
\* once; otherwise it is recorded and the stream is deleted in one batch.
ReplayDeletion(c) ==
  /\ rec.pc = "restore" /\ rec.left = {} /\ c \in rec.todo
  /\ IF ReplayId(c) \in replays THEN UNCHANGED <<replays, target>>
     ELSE /\ replays' = replays \cup {ReplayId(c)}
          /\ target' = [target EXCEPT ![c.learner] = <<>>]
  /\ rec' = [rec EXCEPT !.pc = "remaining", !.of = c.learner, !.todo = @ \ {c}]
  /\ UNCHANGED <<sourceVars, backupVars, runs, promoted>>

\* replayPostBackupDeletion lists the stream once more.
NothingLeft(x) == target[x] = <<>>

ListRemaining ==
  /\ rec.pc = "remaining"
  /\ rec' = IF NothingLeft(rec.of) THEN [rec EXCEPT !.pc = "restore"] ELSE NoRun
  /\ UNCHANGED <<sourceVars, backupVars, target, replays, runs, promoted>>

\* The report: ready for promotion.
Report ==
  /\ rec.pc = "restore" /\ rec.left = {} /\ rec.todo = {}
  /\ promoted' = [ready |-> TRUE, streams |-> target, receipts |-> rec.known]
  /\ rec' = NoRun
  /\ UNCHANGED <<sourceVars, backupVars, target, replays, runs>>

RecoveryDies ==
  /\ rec.pc # "idle"
  /\ rec' = NoRun
  /\ UNCHANGED <<sourceVars, backupVars, target, replays, runs, promoted>>

\* The store's delete, with which an operator empties a target for a new run.
ClearTarget(x) ==
  /\ rec.pc = "idle" /\ target[x] # <<>> /\ ~promoted.ready
  /\ target' = [target EXCEPT ![x] = <<>>]
  /\ UNCHANGED <<sourceVars, backupVars, replays, rec, runs, promoted>>

SourceStep ==
  \/ \E x \in Learners : AppendEvent(x)
  \/ \E d \in Deleters : \/ \E x \in Learners, k \in Keys : FindReceipt(d, x, k)
                         \/ ListErased(d) \/ DeleteBatch(d)
                         \/ InsertReceipt(d) \/ EraseEvents(d) \/ DeleteDies(d)

BackupStep ==
  \/ BeginBackup \/ ListAgain \/ Seal \/ Age
  \/ \E x \in Learners : ListExport(x) \/ \E b \in BOOLEAN : Damage(x, b)

RecoveryStep ==
  \/ \E id \in Restores : BeginRecovery(id)
  \/ \E x \in Learners : OpenTarget(x) \/ ClearTarget(x)
  \/ RestoreEvent \/ CompareRestored \/ RestoreFails
  \/ \E c \in receipts : ReplayDeletion(c)
  \/ ListRemaining \/ Report \/ RecoveryDies

Next == SourceStep \/ BackupStep \/ RecoveryStep

Spec == Init /\ [][Next]_recoveryVars

-----------------------------------------------------------------------------
(* What must hold.                                                         *)

\* Every variable has its type; the events of a stream ascend.
RecoveryTypeOK ==
  /\ \A x \in Learners : \A i \in 2..Len(stream[x]) : stream[x][i - 1] < stream[x][i]
  /\ last \in 0..MaxEvents /\ runs \in 0..MaxRuns /\ begun \in 0..MaxDeletes
  /\ \A x \in Learners : \A s \in {stream[x], target[x], backup.streams[x]} : s \in Seq(1..MaxEvents)
  /\ rec.left \subseteq Learners /\ rec.todo \subseteq receipts

\* A deletion receipt names exactly the events that went with it, whatever was
\* appended between the listing and the batch (sql-learning-event-store.ts:
\* 317), on either database.
ReceiptIsExactEverywhere ==
  /\ \A e \in erased : e[2] = e[1].events
  /\ \A c \in receipts : c.events # <<>> => <<c, c.events>> \in erased

\* On D1, where a batch is one step.
ReceiptIsExact == serial => ReceiptIsExactEverywhere

\* Nothing a deletion after the backup erased is reported ready, also when an
\* earlier run died after its replay and the target was filled again under the
\* same restore id (learning-record-recovery.ts:482).
ErasedIsNotPromoted ==
  promoted.ready => \A c \in promoted.receipts : promoted.streams[c.learner] = <<>>

\* Every other learner's stream is reported ready as the source had it when the
\* backup was made, event by event: no partial stream of a run that died, no
\* damaged artifact.
RetainedIsComplete ==
  promoted.ready => \A x \in Learners :
    (\A c \in promoted.receipts : c.learner # x) => promoted.streams[x] = sealed[x]
===============================================================================
