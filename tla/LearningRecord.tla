---------------------------- MODULE LearningRecord ----------------------------
(***************************************************************************)
(* One learner's event stream and its materialised learning_progress row,  *)
(* as LearningEventEngine.execute, SqlLearningEventStore and the worker's  *)
(* getProgress, importProgress and executeProgressImport drive them.       *)
(*                                                                         *)
(* A request is a call of the library (op "command"), a progress import    *)
(* over HTTP ("import") or a progress read ("read").  Each await is a step *)
(* of its own; a batch of statements is one step, as on D1.  The answer    *)
(* of a batch may be lost after it committed, and the account may be       *)
(* deleted under a request.  A request that dies takes no further step:    *)
(* nothing waits for it, so every prefix of its steps is a crash.          *)
(***************************************************************************)
EXTENDS LearningProjection

CONSTANTS
  Requests,    \* the calls, concurrent or one after the other
  Commands,    \* the library commands a caller may send
  Imports,     \* the imports a client may send: records [id, item]
  OldRows,     \* what learning_progress may hold before events were adopted
  MaxTries,    \* 5 in appendWithProjectionGuard
  MaxClock,    \* bound on the clock
  MaxActive,   \* bound on the requests under way at a time
  Silent       \* a request without a command

ASSUME RequestsAssumption == IsFiniteSet(Requests)
ASSUME OldRowsAssumption == \A o \in OldRows : o.at \in Nat
ASSUME TriesAssumption == MaxTries \in Nat \ {0}
ASSUME ClockAssumption == MaxClock \in Nat
ASSUME CommandAssumption == \A c \in Commands : c.type \in CommandTypes

VARIABLES
  clock,
  account,   \* the users row exists
  stream,    \* learning_events in sequence order
  revision,  \* learning_event_streams.revision, NoStream without a row
  row,       \* learning_progress, NoRow without one
  audited,   \* the import keys with an audit record
  run,       \* the local state of every request
  ever       \* history: every entry ever committed

vars == <<clock, account, stream, revision, row, audited, run, ever>>

NoStream == -1
NoRow == [item |-> {}, revision |-> -1, at |-> 0]

\* The locals of a request: the row it read and whether it will promote it,
\* the length of the list it guarded its append with, the revision of the
\* projection it will answer, whether the key was in that list, whether the
\* batch threw, and the turns of the loop behind it.
Idle == [op |-> "none", pc |-> "idle", cmd |-> Silent, now |-> 0,
         legacy |-> NoRow, migrate |-> FALSE, expected |-> 0, shown |-> 0,
         known |-> FALSE, broken |-> FALSE, tries |-> 0, replayed |-> FALSE,
         answer |-> "none"]

\* The command executeProgressImport builds; its key is a digest of the
\* import id, so two ids never share one.
ImportCommand(key, item, source, at) ==
  [type |-> "import", key |-> key, path |-> "none", module |-> "none",
   item |-> item, ref |-> {}, source |-> source, at |-> at]

ClientImport(q, at) == ImportCommand(<<"import", q.id, 0>>, q.item, "client", at)

\* importId `legacy-${revision}-${checksum}`: the row's revision and content.
LegacyImport(l, now) ==
  ImportCommand(<<"legacy", l.item, l.revision>>, l.item, "legacy",
                IF l.at <= now THEN l.at ELSE now)

\* Every command a request may bring to the engine.  A row that is promoted is
\* an old one, or shows the revision that an import left.
ClientCommands == {ClientImport(q, t) : q \in Imports, t \in 0..MaxClock}
Revisions == {o.revision : o \in OldRows} \cup 0..Cardinality(Requests)
LegacyCommands ==
  {LegacyImport([item |-> x, revision |-> n, at |-> t], t) :
     x \in {q.item : q \in Imports} \cup {o.item : o \in OldRows},
     n \in Revisions, t \in 0..MaxClock}
AllCommands == Commands \cup ClientCommands \cup LegacyCommands

ASSUME SilenceAssumption == Silent \notin AllCommands

Init ==
  /\ clock = 0
  /\ account = TRUE
  /\ stream = <<>>
  /\ revision = NoStream
  /\ row \in OldRows \cup {NoRow}
  /\ audited = {}
  /\ run = [r \in Requests |-> Idle]
  /\ ever = {}

Shared == <<clock, account, stream, revision, row, audited, ever>>

Goto(r, pc) == run' = [run EXCEPT ![r].pc = pc]
Finish(r, a) ==
  run' = [run EXCEPT ![r] = [Idle EXCEPT !.pc = "done", !.cmd = run[r].cmd,
                                         !.answer = a]]

Tick ==
  /\ clock < MaxClock
  /\ clock' = clock + 1
  /\ UNCHANGED <<account, stream, revision, row, audited, run, ever>>

-----------------------------------------------------------------------------
(* The three kinds of request.  A session belongs to an account.           *)

Active == {r \in Requests : run[r].pc \notin {"idle", "done"}}
MayBegin(r) == run[r].pc = "idle" /\ account /\ Cardinality(Active) < MaxActive

BeginCommand(r, c) ==
  /\ MayBegin(r)
  /\ run' = [run EXCEPT ![r] = [Idle EXCEPT !.op = "command", !.pc = "list",
                                            !.cmd = c, !.now = clock]]
  /\ UNCHANGED Shared

BeginImport(r, q) ==
  /\ MayBegin(r)
  /\ run' = [run EXCEPT ![r] = [Idle EXCEPT !.op = "import", !.pc = "precheck",
                                            !.cmd = ClientImport(q, clock),
                                            !.now = clock]]
  /\ UNCHANGED Shared

BeginRead(r) ==
  /\ MayBegin(r)
  /\ run' = [run EXCEPT ![r] = [Idle EXCEPT !.op = "read", !.pc = "readRow",
                                            !.now = clock]]
  /\ UNCHANGED Shared

-----------------------------------------------------------------------------
(* getProgress: the row, the events, and the rebuild's own list.           *)

ReadRow(r) ==
  /\ run[r].pc = "readRow"
  /\ run' = [run EXCEPT ![r].legacy = row, ![r].pc = "readEvents"]
  /\ UNCHANGED Shared

\* The row is promoted when no event exists, or when it differs from the
\* last import and is not older than it.
ShouldMigrate(l, s) ==
  /\ l # NoRow
  /\ \/ s = <<>>
     \/ \E i \in LatestImport(s) : At(s, i).item # l.item /\ l.at >= At(s, i).at

ReadEvents(r) ==
  /\ run[r].pc = "readEvents"
  /\ run' = [run EXCEPT ![r].migrate = ShouldMigrate(run[r].legacy, stream),
                        ![r].pc = "rebuild"]
  /\ UNCHANGED Shared

Rebuild(r) ==
  /\ run[r].pc = "rebuild"
  /\ \/ /\ ~Projectable(stream)
        /\ Finish(r, "failed")
     \/ /\ Projectable(stream) /\ ~run[r].migrate
        /\ Finish(r, "read")
     \/ /\ Projectable(stream) /\ run[r].migrate
        /\ run' = [run EXCEPT ![r].cmd = LegacyImport(run[r].legacy, clock),
                              ![r].pc = "precheck"]
  /\ UNCHANGED Shared

-----------------------------------------------------------------------------
(* executeProgressImport: a list of its own before the engine is called.   *)

\* A promotion gives way to an import that is not older.
Superseded(c) ==
  /\ c.source = "legacy"
  /\ \E i \in LatestImport(stream) : At(stream, i).at >= c.at

\* The same import id with the same source and checksum; the time may differ.
SameImport(i, c) ==
  /\ At(stream, i).type = "import"
  /\ At(stream, i).source = c.source
  /\ At(stream, i).item = c.item

\* What follows the command: a library call and a promoting read answer, an
\* import goes on to its second batch.  (Both handlers list the events once
\* more, for the recent module and the time of the envelope only.)
Settled(r, a) ==
  CASE run[r].op \in {"command", "read"} -> Finish(r, a)
    [] run[r].op = "import" ->
         run' = [run EXCEPT ![r].answer = a, ![r].replayed = (a # "stored"),
                            ![r].shown = Len(stream), ![r].pc = "row"]

\* Mutant: the materialised row is written before the event is appended.
FirstBatch_Row == "row"

\* The event is appended before anything is materialised.
FirstBatch == "list"

Precheck(r) ==
  LET c == run[r].cmd IN
  /\ run[r].pc = "precheck"
  /\ \/ /\ Superseded(c)
        /\ IF Projectable(stream) THEN Settled(r, "superseded")
                                  ELSE Finish(r, "failed")
     \/ /\ ~Superseded(c)
        /\ WithKey(stream, c.key) = {}
        /\ Goto(r, FirstBatch)
     \/ /\ ~Superseded(c)
        /\ \E i \in WithKey(stream, c.key) :
             IF ~SameImport(i, c) THEN Finish(r, "conflict")
             ELSE IF Projectable(stream) THEN Settled(r, "replayed")
             ELSE Finish(r, "failed")
  /\ UNCHANGED Shared

-----------------------------------------------------------------------------
(* LearningEventEngine.appendWithProjectionGuard and the store's append.   *)

\* projectLearningEvents accepts the listed events with the candidate.
Guarded(r) == Projectable(Append(stream, Entry(run[r].cmd, r)))

\* execute refuses a command that the storage clock has not reached.  Then one
\* turn of the loop: list, and refuse what the projection would refuse.
List(r) ==
  LET c == run[r].cmd
      known == WithKey(stream, c.key) # {}
      allowed == c.at <= run[r].now /\ (known \/ Guarded(r))
  IN
  /\ run[r].pc = "list"
  /\ \/ /\ allowed
        /\ run' = [run EXCEPT ![r].expected = Len(stream), ![r].known = known,
                              ![r].pc = "find"]
     \/ /\ ~allowed
        /\ Finish(r, "refused")
  /\ UNCHANGED Shared

\* Mutant: the key alone decides.
SameDigest_Key(r, i) == TRUE

\* The stored command digest is the one of this command.
SameDigest(r, i) == At(stream, i) = run[r].cmd

\* compareIdempotent on what findByIdempotencyKey returned.
Compare(r, i) ==
  IF SameDigest(r, i)
  THEN run' = [run EXCEPT ![r].replayed = TRUE, ![r].pc = "project"]
  ELSE Finish(r, "conflict")

Find(r) ==
  /\ run[r].pc = "find"
  /\ \/ \E i \in WithKey(stream, run[r].cmd.key) : Compare(r, i)
     \/ /\ WithKey(stream, run[r].cmd.key) = {}
        /\ Goto(r, "batch")
  /\ UNCHANGED Shared

\* The batch throws: no user for the foreign key, or, once the revision
\* matched, one of the three unique indexes.
RevisionMatches(r) == run[r].expected = IF revision = NoStream THEN 0 ELSE revision
BatchThrows(r) ==
  \/ ~account
  \/ /\ RevisionMatches(r)
     /\ \/ WithKey(stream, run[r].cmd.key) # {}
        \/ DuplicateEvidence(stream, run[r].cmd)

NextRevision(r) == run[r].expected + 1

\* Insert the stream row, advance the revision if it is the one expected,
\* and insert the event if it was.  The answer may be lost.
Commits(r) ==
  IF RevisionMatches(r)
  THEN /\ revision' = NextRevision(r)
       /\ stream' = Append(stream, Entry(run[r].cmd, r))
       /\ ever' = ever \cup {Entry(run[r].cmd, r)}
  ELSE /\ revision' = IF revision = NoStream THEN 0 ELSE revision
       /\ UNCHANGED <<stream, ever>>

Batch(r) ==
  /\ run[r].pc = "batch"
  /\ ~BatchThrows(r)
  /\ Commits(r)
  /\ \E lost \in BOOLEAN :
       run' = [run EXCEPT ![r].broken = lost,
                          ![r].pc = IF lost THEN "error" ELSE "stored"]
  /\ UNCHANGED <<clock, account, row, audited>>

\* The batch is rolled back: by a constraint, or before it reached the database.
BatchFails(r) ==
  /\ run[r].pc = "batch"
  /\ run' = [run EXCEPT ![r].broken = TRUE, ![r].pc = "error"]
  /\ UNCHANGED Shared

\* The catch clause looks for the event before it reports the error.
ErrorPath(r) ==
  /\ run[r].pc = "error"
  /\ \/ \E i \in WithKey(stream, run[r].cmd.key) : Compare(r, i)
     \/ /\ WithKey(stream, run[r].cmd.key) = {}
        /\ Goto(r, "evidence")
  /\ UNCHANGED Shared

\* Mutant: an event that is found is taken for one's own.
Ours_Always(r, i) == TRUE

\* The stored append token is the one of this call.
Ours(r, i) == stream[i].by = r

\* After a batch that answered: the event is ours, another's, or missing.
Stored(r) ==
  /\ run[r].pc = "stored"
  /\ \/ \E i \in WithKey(stream, run[r].cmd.key) :
          IF ~SameDigest(r, i) THEN Finish(r, "conflict")
          ELSE run' = [run EXCEPT ![r].replayed = ~Ours(r, i),
                                  ![r].pc = "project"]
     \/ /\ WithKey(stream, run[r].cmd.key) = {}
        /\ Goto(r, "evidence")
  /\ UNCHANGED Shared

\* Mutant: the loop has no end.
LastTurn_Never(r) == FALSE

LastTurn(r) == run[r].tries + 1 = MaxTries

\* throwDuplicateEvidence; then the error itself, or a concurrency conflict
\* that starts the next turn unless the key was already known.
Evidence(r) ==
  /\ run[r].pc = "evidence"
  /\ \/ /\ DuplicateEvidence(stream, run[r].cmd)
        /\ Finish(r, "refused")
     \/ /\ ~DuplicateEvidence(stream, run[r].cmd)
        /\ run[r].broken
        /\ Finish(r, "failed")
     \/ /\ ~DuplicateEvidence(stream, run[r].cmd)
        /\ ~run[r].broken
        /\ IF run[r].known \/ LastTurn(r)
           THEN Finish(r, "contention")
           ELSE run' = [run EXCEPT ![r].tries = @ + 1, ![r].pc = "list"]
  /\ UNCHANGED Shared

\* execute lists once more and projects what it finds.
Project(r) ==
  /\ run[r].pc = "project"
  /\ IF Projectable(stream)
     THEN Settled(r, IF run[r].replayed THEN "replayed" ELSE "stored")
     ELSE Finish(r, "failed")
  /\ UNCHANGED Shared

-----------------------------------------------------------------------------
(* importProgress: the second batch.                                       *)

\* Every import that was not refused, a replay too, rewrites the row, and
\* with it the module, attempt, transcript and badge tables.
WriteRow(r) ==
  /\ run[r].pc = "row"
  /\ account
  /\ row' = [item |-> run[r].cmd.item, revision |-> run[r].shown,
             at |-> run[r].now]
  /\ audited' = IF run[r].replayed THEN audited
                ELSE audited \cup {run[r].cmd.key}
  /\ Finish(r, run[r].answer)
  /\ UNCHANGED <<clock, account, stream, revision, ever>>

WriteRowFails(r) ==
  /\ run[r].pc = "row"
  /\ Finish(r, "failed")
  /\ UNCHANGED Shared

-----------------------------------------------------------------------------
\* The users row goes, and the learner's rows with it.
DeleteAccount ==
  /\ account
  /\ account' = FALSE
  /\ stream' = <<>>
  /\ revision' = NoStream
  /\ row' = NoRow
  /\ UNCHANGED <<clock, audited, run, ever>>

\* Everything is answered and nobody can start.
Quiet ==
  /\ \A r \in Requests : run[r].pc = "done" \/ (run[r].pc = "idle" /\ ~account)
  /\ UNCHANGED vars

Step(r) ==
  \/ ReadRow(r) \/ ReadEvents(r) \/ Rebuild(r) \/ Precheck(r)
  \/ List(r) \/ Find(r) \/ Batch(r) \/ BatchFails(r) \/ ErrorPath(r)
  \/ Stored(r) \/ Evidence(r) \/ Project(r)
  \/ WriteRow(r) \/ WriteRowFails(r)

Begin(r) ==
  \/ \E c \in Commands : BeginCommand(r, c)
  \/ \E q \in Imports : BeginImport(r, q)
  \/ BeginRead(r)

Next ==
  \/ Tick \/ DeleteAccount \/ Quiet
  \/ \E r \in Requests : Begin(r) \/ Step(r)

Spec == Init /\ [][Next]_vars

-----------------------------------------------------------------------------
(* What must hold.                                                         *)

Pcs == {"idle", "readRow", "readEvents", "rebuild", "precheck", "list", "find",
        "batch", "error", "stored", "evidence", "project", "row", "done"}

\* Every variable has its type, and the revision of the stream row is the number
\* of events, which is what every append takes as its expected revision
\* (sql-learning-event-store.ts:123).
TypeOK ==
  /\ clock \in 0..MaxClock
  /\ account \in BOOLEAN
  /\ \A i \in DOMAIN stream : stream[i].by \in Requests
  /\ IF revision = NoStream THEN stream = <<>> ELSE revision = Len(stream)
  /\ \A r \in Requests :
       /\ run[r].pc \in Pcs
       /\ run[r].tries \in 0..(MaxTries - 1)
       /\ run[r].now \in 0..clock

\* A caller that was told its command is stored, now or by an earlier call,
\* finds it in the stream as long as the account exists, also when the answer
\* of the batch was lost (sql-learning-event-store.ts:167).
AnsweredIsKept ==
  \A r \in Requests :
    /\ run[r].pc = "done" /\ run[r].answer \in {"stored", "replayed"} /\ account
    => \E i \in WithKey(stream, run[r].cmd.key) : At(stream, i).item = run[r].cmd.item

\* learning_progress never shows a snapshot that is not in the stream: the
\* import appends first and writes the row in a second batch (worker.ts:5763),
\* so a crash between the two leaves the row behind and never ahead.
RowFollowsStream ==
  \/ row \in OldRows \cup {NoRow}
  \/ \E i \in OfType(stream, "import") : At(stream, i).item = row.item

\* A badge that the projection shows is taken away only by an import, which
\* replaces the whole snapshot, or with the account: no later command of the
\* library can redefine the path it was earned for (learning-event-engine.ts:593).
BadgesAreKept ==
  [][OfType(stream', "import") = OfType(stream, "import") /\ account'
       => Badges(stream) \subseteq Badges(stream')]_vars

\* A lazy promotion never brings back a snapshot that an import had already
\* replaced (worker.ts:5672, 5763).
SupersededStaysSuperseded ==
  \A i, j, k \in OfType(stream, "import") :
    /\ i < j /\ j < k
    /\ At(stream, k).source = "legacy"
    /\ At(stream, i).item = At(stream, k).item
    => At(stream, j).item = At(stream, i).item

Abstract ==
  INSTANCE LearnerStream WITH
    Commands <- AllCommands,
    log <- stream,
    request <- [r \in Requests |-> run[r].cmd],
    answer <- [r \in Requests |->
                 IF run[r].pc = "done" THEN run[r].answer ELSE "none"]

\* The SQL store keeps all that LearnerStream promises: requests take effect at
\* once, at most one time, on a log that stays projectable (the guard each append
\* took against the list it read still holds where it commits,
\* learning-event-engine.ts:415), and answers are truthful.
ImplementsLearnerStream == Abstract!Spec
===============================================================================
