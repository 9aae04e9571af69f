------------------------ MODULE LearningRecordProofs ------------------------
(***************************************************************************)
(* Proofs about LearningRecord, for every finite set of requests, every    *)
(* set of commands, imports and old rows and every value of the limits:    *)
(* what a caller was told is kept, the row follows the stream, badges are  *)
(* kept, and the SQL store implements LearnerStream.                       *)
(***************************************************************************)
EXTENDS LearningRecord, FiniteSetTheorems, TLAPS

-----------------------------------------------------------------------------
(* The inductive invariant *)

Entries == [cmd : AllCommands, by : Requests]

Rows == OldRows \cup {NoRow}
        \cup [item : {q.item : q \in Imports}, revision : 0..Cardinality(Requests), at : 0..MaxClock]

Answers == {"none", "stored", "replayed", "superseded", "conflict",
            "refused", "contention", "read", "failed"}

Call == [op : {"none", "command", "import", "read"}, pc : Pcs, cmd : AllCommands \cup {Silent},
         now : 0..MaxClock, legacy : Rows, migrate : BOOLEAN, expected : Nat,
         shown : 0..Cardinality(Requests), known : BOOLEAN, broken : BOOLEAN,
         tries : 0..(MaxTries - 1), replayed : BOOLEAN, answer : Answers]

\* The stream is the history while the account exists, one entry of each request, and
\* the stream row counts it.
StreamFits ==
  /\ account \in BOOLEAN /\ clock \in 0..MaxClock /\ row \in Rows
  /\ stream \in Seq(Entries) /\ ever \subseteq Entries
  /\ \A i \in DOMAIN stream : stream[i] \in ever
  /\ \A i, j \in DOMAIN stream : stream[i].by = stream[j].by => i = j
  /\ IF revision = NoStream THEN stream = <<>> ELSE revision = Len(stream)

\* The steps before a request has its command.
Early == {"idle", "readRow", "readEvents", "rebuild"}

\* What a request holds at its step.
ShapeFits(c) ==
  /\ c \in Call /\ c.now <= clock
  /\ c.pc \notin {"idle", "done"} => c.op # "none"
  /\ c.pc \in Early => c.cmd = Silent
  /\ c.pc \notin Early \cup {"done"} => c.cmd # Silent
  /\ c.pc = "precheck" => c.cmd.type = "import"
  /\ c.op = "import" => c.cmd \in ClientCommands
  /\ c.pc = "row" => c.op = "import" /\ c.answer \in {"stored", "replayed"}
  /\ c.pc = "rebuild" /\ c.migrate => c.legacy # NoRow

\* A request that found its event, or answered so, still finds it while the
\* account exists.
Found(c) ==
  c.pc = "project" \/ (c.pc \in {"row", "done"} /\ c.answer \in {"stored", "replayed"})

KeptFits(c) ==
  Found(c) /\ account =>
    \E i \in WithKey(stream, c.cmd.key) :
      At(stream, i).item = c.cmd.item /\ At(stream, i).type = c.cmd.type

\* What a request is about to answer is true.
Said(c) ==
  IF c.pc = "project" THEN (IF c.replayed THEN "replayed" ELSE "stored") ELSE c.answer

TruthFits(r, c) == c.pc \in {"project", "row"} => Abstract!Truthful(c.cmd, r, Said(c))

\* The list that a request took is still the stream, or a longer stream has another
\* revision; in the first case the stream can be projected with its event, unless the
\* key was known, and then the unique index knows it.
GuardFits(r, c) ==
  c.pc \in {"find", "batch"} /\ account =>
    /\ c.expected <= Len(stream)
    /\ c.known => WithKey(stream, c.cmd.key) # {}
    /\ ~ c.known /\ c.expected = Len(stream)
         => Projectable(Append(stream, Entry(c.cmd, r)))

\* Did request r commit its event?
Committed(r) == \E x \in ever : x.by = r

\* A request that committed is on its way to find that event.
OnceFits(r, c) ==
  Committed(r) /\ account =>
    /\ c.pc \in {"error", "stored", "project", "row", "done"}
    /\ c.pc \in {"error", "stored"} => \E i \in WithKey(stream, c.cmd.key) : stream[i].by = r

Fits(r, c) ==
  ShapeFits(c) /\ KeptFits(c) /\ TruthFits(r, c) /\ GuardFits(r, c) /\ OnceFits(r, c)

StoreInv ==
  /\ StreamFits
  /\ RowFollowsStream
  /\ run \in [Requests -> Call]
  /\ \A r \in Requests : Fits(r, run[r])

-----------------------------------------------------------------------------
(* Types *)

LEMMA CommandTypesFit ==
  /\ ClientCommands \subseteq AllCommands
  /\ \A c \in ClientCommands : c.type = "import" /\ c.source = "client"
  /\ \A c \in LegacyCommands : c.type = "import" /\ c.source = "legacy"
  /\ Commands \subseteq AllCommands /\ Silent \notin AllCommands
  BY SilenceAssumption DEF AllCommands, ClientCommands, LegacyCommands, ClientImport,
     LegacyImport, ImportCommand

LEMMA ClientImportFits ==
  ASSUME NEW q \in Imports, NEW t \in 0..MaxClock
  PROVE  ClientImport(q, t) \in ClientCommands
  BY DEF ClientCommands

\* The promotion of a row is a command of its own.
LEMMA LegacyImportFits ==
  ASSUME NEW l \in Rows, l # NoRow, NEW t \in 0..MaxClock
  PROVE  LegacyImport(l, t) \in LegacyCommands
  <1> DEFINE at == IF l.at <= t THEN l.at ELSE t
             x == [item |-> l.item, revision |-> l.revision, at |-> at]
  <1>1. at \in 0..MaxClock
    BY OldRowsAssumption, ClockAssumption DEF Rows
  <1>2. /\ l.item \in {q.item : q \in Imports} \cup {o.item : o \in OldRows}
        /\ l.revision \in Revisions
    BY DEF Rows, Revisions
  <1>3. LegacyImport(x, at) \in LegacyCommands
    BY SMTT(30), <1>1, <1>2 DEF LegacyCommands
  <1>4. LegacyImport(x, at) = LegacyImport(l, t)
    BY <1>1 DEF LegacyImport, ImportCommand
  <1> QED BY <1>3, <1>4

LEMMA IdleFits == Idle \in Call /\ 0 \in 0..MaxClock /\ 0 \in 0..(MaxTries - 1)
  <1>1. 0 \in 0..MaxClock /\ 0 \in 0..(MaxTries - 1)
    BY ClockAssumption, TriesAssumption
  <1>2. 0 \in 0..Cardinality(Requests)
    BY RequestsAssumption, FS_CardinalityType
  <1> QED BY <1>1, <1>2 DEF Idle, Call, Rows, Pcs, Answers

\* A finished request.
Done(r, a) == [Idle EXCEPT !.pc = "done", !.cmd = run[r].cmd, !.answer = a]

LEMMA DoneFits ==
  ASSUME StoreInv, NEW r \in Requests, NEW a \in Answers
  PROVE  /\ Done(r, a) \in Call /\ Done(r, a).pc = "done" /\ Done(r, a).cmd = run[r].cmd
         /\ Done(r, a).answer = a /\ Done(r, a).op = "none" /\ Done(r, a).now = 0
  <1>1. run[r].cmd \in AllCommands \cup {Silent}
    BY DEF StoreInv, Call
  <1> QED BY <1>1, IdleFits DEF Done, Call, Pcs, Idle

LEMMA InvParts ==
  ASSUME StoreInv, NEW r \in Requests
  PROVE  /\ run \in [Requests -> Call] /\ run[r] \in Call /\ Fits(r, run[r]) /\ StreamFits
         /\ ShapeFits(run[r]) /\ KeptFits(run[r]) /\ TruthFits(r, run[r])
         /\ GuardFits(r, run[r]) /\ OnceFits(r, run[r])
  BY DEF StoreInv, Fits

LEMMA StreamTypes ==
  ASSUME StreamFits
  PROVE  /\ stream \in Seq(Entries) /\ Len(stream) \in Nat /\ DOMAIN stream = 1..Len(stream)
         /\ \A i \in DOMAIN stream : stream[i] \in Entries /\ stream[i] \in ever
  BY DEF StreamFits

-----------------------------------------------------------------------------
(* A step of one request on its own *)

\* What the callers see of it: nothing, a command, or a true answer.
Visible(r, c) ==
  /\ run[r].pc # "done"
  /\ \/ c.cmd = run[r].cmd /\ c.pc # "done"
     \/ run[r].cmd = Silent /\ c.cmd \in AllCommands /\ c.pc # "done"
     \/ /\ c.cmd = run[r].cmd /\ c.pc = "done" /\ c.answer \in Answers \ {"none"}
        /\ c.cmd = Silent => c.answer \in {"read", "failed"}
        /\ c.cmd # Silent => Abstract!Truthful(c.cmd, r, c.answer)

QuietBy(r, c) ==
  run' = [run EXCEPT ![r] = c] /\ Fits(r, c) /\ Visible(r, c) /\ UNCHANGED Shared

LEMMA Uncommitted ==
  ASSUME StoreInv, NEW r \in Requests, run[r].pc \notin {"error", "stored", "project", "row", "done"}
  PROVE  ~ (Committed(r) /\ account)
  BY InvParts DEF OnceFits

LEMMA BeginCommandQuiet ==
  ASSUME StoreInv, NEW r \in Requests, NEW c0 \in Commands, BeginCommand(r, c0)
  PROVE  \E c : QuietBy(r, c)
  <1> DEFINE c == [Idle EXCEPT !.op = "command", !.pc = "list", !.cmd = c0, !.now = clock]
  <1>1. /\ run' = [run EXCEPT ![r] = c] /\ run[r].pc = "idle" /\ run[r].cmd = Silent
        /\ UNCHANGED Shared /\ clock \in 0..MaxClock
    BY InvParts DEF BeginCommand, MayBegin, ShapeFits, Early, StreamFits
  <1>2. c0 \in AllCommands /\ Silent \notin AllCommands
    BY CommandTypesFit
  <1>3. /\ c \in Call /\ c.op = "command" /\ c.pc = "list" /\ c.cmd = c0 /\ c.now = clock
    BY <1>1, <1>2, IdleFits DEF Call, Pcs
  <1> HIDE DEF c
  <1>4. Fits(r, c)
    BY <1>1, <1>2, <1>3, Uncommitted
       DEF Fits, ShapeFits, KeptFits, TruthFits, GuardFits, OnceFits, Found, Early
  <1>5. QuietBy(r, c)
    BY <1>1, <1>2, <1>3, <1>4 DEF QuietBy, Visible
  <1> QED BY <1>5

LEMMA BeginImportQuiet ==
  ASSUME StoreInv, NEW r \in Requests, NEW q \in Imports, BeginImport(r, q)
  PROVE  \E c : QuietBy(r, c)
  <1> DEFINE c == [Idle EXCEPT !.op = "import", !.pc = "precheck",
                               !.cmd = ClientImport(q, clock), !.now = clock]
  <1>1. /\ run' = [run EXCEPT ![r] = c] /\ run[r].pc = "idle" /\ run[r].cmd = Silent
        /\ UNCHANGED Shared /\ clock \in 0..MaxClock
    BY InvParts DEF BeginImport, MayBegin, ShapeFits, Early, StreamFits
  <1>2. /\ ClientImport(q, clock) \in ClientCommands /\ ClientImport(q, clock) \in AllCommands
        /\ ClientImport(q, clock).type = "import" /\ Silent \notin AllCommands
    BY <1>1, ClientImportFits, CommandTypesFit
  <1>3. /\ c \in Call /\ c.op = "import" /\ c.pc = "precheck" /\ c.cmd = ClientImport(q, clock)
        /\ c.now = clock
    BY <1>1, <1>2, IdleFits DEF Call, Pcs
  <1> HIDE DEF c
  <1>4. Fits(r, c)
    BY <1>1, <1>2, <1>3, Uncommitted
       DEF Fits, ShapeFits, KeptFits, TruthFits, GuardFits, OnceFits, Found, Early
  <1>5. QuietBy(r, c)
    BY <1>1, <1>2, <1>3, <1>4 DEF QuietBy, Visible
  <1> QED BY <1>5

LEMMA BeginReadQuiet ==
  ASSUME StoreInv, NEW r \in Requests, BeginRead(r)
  PROVE  \E c : QuietBy(r, c)
  <1> DEFINE c == [Idle EXCEPT !.op = "read", !.pc = "readRow", !.now = clock]
  <1>1. /\ run' = [run EXCEPT ![r] = c] /\ run[r].pc = "idle" /\ run[r].cmd = Silent
        /\ UNCHANGED Shared /\ clock \in 0..MaxClock
    BY InvParts DEF BeginRead, MayBegin, ShapeFits, Early, StreamFits
  <1>3. c \in Call /\ c.op = "read" /\ c.pc = "readRow" /\ c.cmd = Silent /\ c.now = clock
    BY ZenonT(40), <1>1, IdleFits DEF Call, Pcs, Idle
  <1> HIDE DEF c
  <1>4. Fits(r, c)
    BY <1>1, <1>3, Uncommitted
       DEF Fits, ShapeFits, KeptFits, TruthFits, GuardFits, OnceFits, Found, Early
  <1>5. QuietBy(r, c)
    BY <1>1, <1>3, <1>4 DEF QuietBy, Visible
  <1> QED BY <1>5

LEMMA ReadRowQuiet ==
  ASSUME StoreInv, NEW r \in Requests, ReadRow(r)
  PROVE  \E c : QuietBy(r, c)
  <1> DEFINE c == [run[r] EXCEPT !.legacy = row, !.pc = "readEvents"]
  <1>1. /\ run' = [run EXCEPT ![r] = c] /\ run[r].pc = "readRow" /\ UNCHANGED Shared
        /\ run[r] \in Call /\ row \in Rows
    BY InvParts DEF ReadRow, StreamFits
  <1>2. /\ c \in Call /\ c.op = run[r].op /\ c.pc = "readEvents" /\ c.cmd = run[r].cmd
        /\ c.now = run[r].now
    BY <1>1 DEF Call, Pcs
  <1> HIDE DEF c
  <1>3. Fits(r, c)
    BY <1>1, <1>2, Uncommitted, InvParts
       DEF Fits, ShapeFits, KeptFits, TruthFits, GuardFits, OnceFits, Found, Early
  <1>4. QuietBy(r, c)
    BY <1>1, <1>2, <1>3 DEF QuietBy, Visible
  <1> QED BY <1>4

LEMMA ReadEventsQuiet ==
  ASSUME StoreInv, NEW r \in Requests, ReadEvents(r)
  PROVE  \E c : QuietBy(r, c)
  <1> DEFINE migrate == ShouldMigrate(run[r].legacy, stream)
             c == [run[r] EXCEPT !.migrate = migrate, !.pc = "rebuild"]
  <1>1. /\ run' = [run EXCEPT ![r] = c] /\ run[r].pc = "readEvents" /\ UNCHANGED Shared
        /\ run[r] \in Call
    BY InvParts DEF ReadEvents
  <1>2. migrate \in BOOLEAN /\ (migrate => run[r].legacy # NoRow)
    BY Zenon DEF ShouldMigrate
  <1> HIDE DEF migrate
  <1>3. /\ c \in Call /\ c.op = run[r].op /\ c.pc = "rebuild" /\ c.cmd = run[r].cmd
        /\ c.now = run[r].now /\ c.migrate = migrate /\ c.legacy = run[r].legacy
    BY <1>1, <1>2 DEF Call, Pcs
  <1> HIDE DEF c
  <1>4. Fits(r, c)
    BY <1>1, <1>2, <1>3, Uncommitted, InvParts
       DEF Fits, ShapeFits, KeptFits, TruthFits, GuardFits, OnceFits, Found, Early
  <1>5. QuietBy(r, c)
    BY <1>1, <1>3, <1>4 DEF QuietBy, Visible
  <1> QED BY <1>5

\* The event of a key and a payload is there to be found.
Present(c) ==
  \E i \in WithKey(stream, c.key) : At(stream, i).item = c.item /\ At(stream, i).type = c.type

\* A request finishes with an answer that is true.
LEMMA FinishQuiet ==
  ASSUME StoreInv, NEW r \in Requests, NEW a \in Answers \ {"none"}, Finish(r, a),
         UNCHANGED Shared, run[r].pc # "done",
         a \in {"stored", "replayed"} /\ account => Present(run[r].cmd),
         run[r].cmd = Silent => a \in {"read", "failed"},
         run[r].cmd # Silent => Abstract!Truthful(run[r].cmd, r, a)
  PROVE  \E c : QuietBy(r, c)
  <1>1. /\ Done(r, a) \in Call /\ Done(r, a).pc = "done" /\ Done(r, a).cmd = run[r].cmd
        /\ Done(r, a).answer = a /\ Done(r, a).op = "none" /\ Done(r, a).now = 0
    BY DoneFits
  <1>2. clock \in 0..MaxClock
    BY DEF StoreInv, StreamFits
  <1>3. Fits(r, Done(r, a))
    BY <1>1, <1>2, ClockAssumption
       DEF Fits, ShapeFits, KeptFits, TruthFits, GuardFits, OnceFits, Found, Early, Present
  <1>4. QuietBy(r, Done(r, a))
    BY <1>1, <1>3 DEF QuietBy, Visible, Finish, Done
  <1> QED BY <1>4

\* These answers promise nothing.
LEMMA PlainIsTruthful ==
  ASSUME NEW c, NEW r, NEW a \in {"read", "failed", "refused", "contention"}
  PROVE  Abstract!Truthful(c, r, a)
  BY DEF Abstract!Truthful

LEMMA PlainFinishQuiet ==
  ASSUME StoreInv, NEW r \in Requests, NEW a \in {"read", "failed", "refused", "contention"},
         Finish(r, a), UNCHANGED Shared, run[r].pc # "done",
         run[r].cmd = Silent => a \in {"read", "failed"}
  PROVE  \E c : QuietBy(r, c)
  <1>1. a \in Answers \ {"none"} /\ a \notin {"stored", "replayed"}
    BY DEF Answers
  <1>2. Abstract!Truthful(run[r].cmd, r, a)
    BY PlainIsTruthful
  <1> QED BY <1>1, <1>2, FinishQuiet

LEMMA RebuildQuiet ==
  ASSUME StoreInv, NEW r \in Requests, Rebuild(r)
  PROVE  \E c : QuietBy(r, c)
  <1>1. run[r].pc = "rebuild" /\ run[r].cmd = Silent /\ UNCHANGED Shared /\ run[r] \in Call
        /\ clock \in 0..MaxClock
    BY InvParts DEF Rebuild, ShapeFits, Early, StreamFits
  <1>2. CASE Finish(r, "failed") \/ Finish(r, "read")
    BY <1>1, <1>2, PlainFinishQuiet
  <1>3. CASE /\ Projectable(stream) /\ run[r].migrate
             /\ run' = [run EXCEPT ![r].cmd = LegacyImport(run[r].legacy, clock),
                                   ![r].pc = "precheck"]
    <2> DEFINE c == [run[r] EXCEPT !.cmd = LegacyImport(run[r].legacy, clock), !.pc = "precheck"]
    <2>1. /\ run' = [run EXCEPT ![r] = c]
      BY <1>3
    <2>2. LegacyImport(run[r].legacy, clock) \in LegacyCommands
      BY <1>1, <1>3, LegacyImportFits, InvParts DEF ShapeFits, Call
    <2>3. /\ LegacyImport(run[r].legacy, clock) \in AllCommands \ {Silent}
          /\ LegacyImport(run[r].legacy, clock).type = "import"
      BY <2>2, CommandTypesFit DEF AllCommands
    <2>4. /\ c \in Call /\ c.op = run[r].op /\ c.pc = "precheck" /\ c.now = run[r].now
          /\ c.cmd = LegacyImport(run[r].legacy, clock)
      BY <1>1, <2>3 DEF Call, Pcs
    <2> HIDE DEF c
    <2>5. run[r].op # "import"
      BY <1>1, CommandTypesFit, InvParts DEF ShapeFits
    <2>6. Fits(r, c)
      BY <1>1, <2>3, <2>4, <2>5, Uncommitted, InvParts
         DEF Fits, ShapeFits, KeptFits, TruthFits, GuardFits, OnceFits, Found, Early
    <2>7. QuietBy(r, c)
      BY <1>1, <2>1, <2>3, <2>4, <2>6 DEF QuietBy, Visible
    <2> QED BY <2>7
  <1> QED BY <1>2, <1>3 DEF Rebuild

-----------------------------------------------------------------------------
(* The steps of an import before and after the engine *)

\* Every entry has a request of its own, so that there are no more of them.
LEMMA LengthBound ==
  ASSUME StreamFits PROVE Len(stream) \in 0..Cardinality(Requests)
  <1> DEFINE f == [i \in 1..Len(stream) |-> stream[i].by]
  <1>1. Len(stream) \in Nat /\ DOMAIN stream = 1..Len(stream)
        /\ \A i \in 1..Len(stream) : stream[i].by \in Requests
    BY StreamTypes DEF Entries
  <1>2. f \in Injection(1..Len(stream), Requests)
    BY <1>1 DEF StreamFits, Injection, IsInjective
  <1> HIDE DEF f
  <1>3. Cardinality(1..Len(stream)) <= Cardinality(Requests)
    BY <1>2, RequestsAssumption, FS_Injection
  <1>4. Cardinality(1..Len(stream)) = Len(stream)
    BY <1>1, FS_Interval
  <1>5. Cardinality(Requests) \in Nat
    BY RequestsAssumption, FS_CardinalityType
  <1> QED BY <1>1, <1>3, <1>4, <1>5

\* An event that is found makes the answer true.
LEMMA FoundIsTruthful ==
  ASSUME StreamFits, NEW c, NEW r, NEW i \in WithKey(stream, c.key),
         At(stream, i).item = c.item, At(stream, i).type = c.type
  PROVE  Present(c) /\ Abstract!Truthful(c, r, "replayed")
  <1>1. stream[i] \in ever /\ stream[i].cmd.key = c.key
    BY StreamTypes DEF WithKey, At
  <1> QED BY <1>1 DEF Present, Abstract!Truthful, At

LEMMA ConflictIsTruthful ==
  ASSUME StreamFits, NEW c, NEW r, NEW i \in WithKey(stream, c.key), At(stream, i) # c
  PROVE  Abstract!Truthful(c, r, "conflict")
  <1>1. stream[i] \in ever /\ stream[i].cmd.key = c.key
    BY StreamTypes DEF WithKey, At
  <1> QED BY <1>1 DEF Abstract!Truthful, At

LEMMA SettledQuiet ==
  ASSUME StoreInv, NEW r \in Requests, NEW a \in {"stored", "replayed", "superseded"},
         Settled(r, a), UNCHANGED Shared, run[r].pc \in {"precheck", "project"},
         a \in {"stored", "replayed"} /\ account => Present(run[r].cmd),
         run[r].op = "import" => a # "superseded",
         Abstract!Truthful(run[r].cmd, r, a)
  PROVE  \E c : QuietBy(r, c)
  <1>1. run[r] \in Call /\ ShapeFits(run[r]) /\ OnceFits(r, run[r]) /\ StreamFits
    BY InvParts
  <1>2. /\ run[r].op \in {"command", "read", "import"} /\ run[r].cmd # Silent
        /\ a \in Answers \ {"none"}
    BY <1>1 DEF ShapeFits, Call, Early, Answers
  <1>3. CASE run[r].op \in {"command", "read"}
    <2>1. Finish(r, a)
      BY <1>3 DEF Settled
    <2> QED BY <1>2, <2>1, FinishQuiet
  <1>4. CASE run[r].op = "import"
    <2> DEFINE replayed == a # "stored"
               c == [run[r] EXCEPT !.answer = a, !.replayed = replayed,
                                   !.shown = Len(stream), !.pc = "row"]
    <2>1. run' = [run EXCEPT ![r] = c]
      BY <1>4 DEF Settled
    <2>2. replayed \in BOOLEAN /\ Len(stream) \in 0..Cardinality(Requests)
      BY <1>1, LengthBound
    <2> HIDE DEF replayed
    <2>3. /\ c \in Call /\ c.op = "import" /\ c.pc = "row" /\ c.now = run[r].now
          /\ c.cmd = run[r].cmd /\ c.answer = a
      BY <1>1, <1>2, <1>4, <2>2 DEF Call, Pcs
    <2> HIDE DEF c
    <2>4. ShapeFits(c) /\ KeptFits(c)
      BY <1>1, <1>2, <1>4, <2>3 DEF ShapeFits, KeptFits, Found, Early, Present
    <2>5. TruthFits(r, c) /\ GuardFits(r, c) /\ OnceFits(r, c)
      BY <2>3 DEF TruthFits, Said, GuardFits, OnceFits
    <2>6. QuietBy(r, c)
      BY <1>1, <2>1, <2>3, <2>4, <2>5 DEF QuietBy, Visible, Fits
    <2> QED BY <2>6
  <1> QED BY <1>2, <1>3, <1>4

\* A request goes on with the same command and all its locals.
LEMMA GotoFits ==
  ASSUME StoreInv, NEW r \in Requests, NEW pc \in {"list", "batch", "evidence"}, Goto(r, pc),
         UNCHANGED Shared, run[r].pc \notin Early \cup {"done"},
         ~ (Committed(r) /\ account), pc = "batch" => run[r].pc = "find"
  PROVE  \E c : QuietBy(r, c)
  <1> DEFINE c == [run[r] EXCEPT !.pc = pc]
  <1>1. run' = [run EXCEPT ![r] = c] /\ Fits(r, run[r]) /\ run[r] \in Call
    BY InvParts DEF Goto
  <1>2. /\ c \in Call /\ c.op = run[r].op /\ c.pc = pc /\ c.now = run[r].now
        /\ c.cmd = run[r].cmd /\ c.expected = run[r].expected /\ c.known = run[r].known
    BY <1>1 DEF Call, Pcs
  <1> HIDE DEF c
  <1>3. ShapeFits(c) /\ KeptFits(c) /\ TruthFits(r, c) /\ OnceFits(r, c)
    BY <1>1, <1>2 DEF Fits, ShapeFits, KeptFits, Found, TruthFits, OnceFits, Early
  <1>4. GuardFits(r, c)
    BY <1>1, <1>2 DEF Fits, GuardFits
  <1>5. QuietBy(r, c)
    BY <1>1, <1>2, <1>3, <1>4 DEF QuietBy, Visible, Fits, Early
  <1> QED BY <1>5

LEMMA PrecheckQuiet ==
  ASSUME StoreInv, NEW r \in Requests, Precheck(r)
  PROVE  \E c : QuietBy(r, c)
  <1> DEFINE c0 == run[r].cmd
  <1>1. /\ run[r].pc = "precheck" /\ UNCHANGED Shared /\ run[r] \in Call
        /\ ShapeFits(run[r]) /\ StreamFits /\ ~ (Committed(r) /\ account)
    BY InvParts, Uncommitted DEF Precheck
  <1>2. c0.type = "import" /\ c0 # Silent /\ (run[r].op = "import" => c0.source = "client")
    BY <1>1, CommandTypesFit DEF ShapeFits, Early
  <1>3. CASE /\ Superseded(c0)
             /\ IF Projectable(stream) THEN Settled(r, "superseded") ELSE Finish(r, "failed")
    <2>1. PICK i \in LatestImport(stream) : At(stream, i).at >= c0.at /\ c0.source = "legacy"
      BY <1>3 DEF Superseded
    <2>2. stream[i] \in ever /\ stream[i].cmd.type = "import"
      BY <1>1, StreamTypes DEF LatestImport, OfType, At
    <2>3. Abstract!Truthful(c0, r, "superseded") /\ run[r].op # "import"
      BY <1>2, <2>1, <2>2 DEF Abstract!Truthful, At
    <2> QED BY <1>1, <1>2, <1>3, <2>3, SettledQuiet, PlainFinishQuiet
  <1>4. CASE Goto(r, FirstBatch)
    BY <1>1, <1>4, GotoFits DEF FirstBatch, Early
  <1>5. ASSUME NEW i \in WithKey(stream, c0.key),
               IF ~SameImport(i, c0) THEN Finish(r, "conflict")
               ELSE IF Projectable(stream) THEN Settled(r, "replayed")
               ELSE Finish(r, "failed")
        PROVE  \E c : QuietBy(r, c)
    <2>1. CASE ~ SameImport(i, c0)
      <3>1. At(stream, i) # c0
        BY <1>2, <2>1 DEF SameImport
      <3>2. Abstract!Truthful(c0, r, "conflict")
        BY <1>1, <3>1, ConflictIsTruthful
      <3> QED BY <1>1, <1>2, <1>5, <2>1, <3>2, FinishQuiet DEF Answers
    <2>2. CASE SameImport(i, c0)
      <3>1. Present(c0) /\ Abstract!Truthful(c0, r, "replayed")
        BY <1>1, <1>2, <2>2, FoundIsTruthful DEF SameImport
      <3> QED BY <1>1, <1>2, <1>5, <2>2, <3>1, SettledQuiet, PlainFinishQuiet
    <2> QED BY <2>1, <2>2
  <1> QED BY <1>3, <1>4, <1>5 DEF Precheck

LEMMA WriteRowFailsQuiet ==
  ASSUME StoreInv, NEW r \in Requests, WriteRowFails(r)
  PROVE  \E c : QuietBy(r, c)
  <1>1. run[r].pc = "row" /\ Finish(r, "failed") /\ UNCHANGED Shared
    BY DEF WriteRowFails
  <1> QED BY <1>1, PlainFinishQuiet

-----------------------------------------------------------------------------
(* The steps of the append, but for the batch *)

LEMMA ListQuiet ==
  ASSUME StoreInv, NEW r \in Requests, List(r)
  PROVE  \E c : QuietBy(r, c)
  <1> DEFINE known == WithKey(stream, run[r].cmd.key) # {}
             allowed == run[r].cmd.at <= run[r].now /\ (known \/ Guarded(r))
             c == [run[r] EXCEPT !.expected = Len(stream), !.known = known, !.pc = "find"]
  <1>1. /\ run[r].pc = "list" /\ UNCHANGED Shared /\ run[r] \in Call
        /\ ShapeFits(run[r]) /\ StreamFits /\ ~ (Committed(r) /\ account) /\ run[r].cmd # Silent
    BY InvParts, Uncommitted DEF List, ShapeFits, Early
  <1>2. CASE ~ allowed /\ Finish(r, "refused")
    BY <1>1, <1>2, PlainFinishQuiet
  <1>3. CASE allowed /\ run' = [run EXCEPT ![r].expected = Len(stream), ![r].known = known,
                                           ![r].pc = "find"]
    <2>1. run' = [run EXCEPT ![r] = c]
      BY <1>3
    <2>2. known \in BOOLEAN /\ Len(stream) \in Nat /\ (known \/ Guarded(r))
          /\ (known <=> WithKey(stream, run[r].cmd.key) # {})
      BY <1>1, <1>3, StreamTypes
    <2> HIDE DEF known
    <2>3. /\ c \in Call /\ c.op = run[r].op /\ c.pc = "find" /\ c.now = run[r].now
          /\ c.cmd = run[r].cmd /\ c.expected = Len(stream) /\ c.known = known
      BY <1>1, <2>2 DEF Call, Pcs
    <2> HIDE DEF c
    <2>4. ShapeFits(c) /\ KeptFits(c) /\ TruthFits(r, c) /\ OnceFits(r, c)
      BY <1>1, <2>3 DEF ShapeFits, KeptFits, Found, TruthFits, OnceFits, Early
    <2>5. GuardFits(r, c)
      BY <2>2, <2>3 DEF GuardFits, Guarded
    <2>6. QuietBy(r, c)
      BY <1>1, <2>1, <2>3, <2>4, <2>5 DEF QuietBy, Visible, Fits
    <2> QED BY <2>6
  <1> QED BY <1>2, <1>3 DEF List

\* An event of the same digest was found: the request goes on to project.
LEMMA ProjectFits ==
  ASSUME StoreInv, NEW r \in Requests, NEW replayed \in BOOLEAN,
         run' = [run EXCEPT ![r].replayed = replayed, ![r].pc = "project"], UNCHANGED Shared,
         run[r].pc \in {"find", "error", "stored"},
         NEW i \in WithKey(stream, run[r].cmd.key), At(stream, i) = run[r].cmd,
         ~ replayed => Ours(r, i)
  PROVE  \E c : QuietBy(r, c)
  <1> DEFINE c == [run[r] EXCEPT !.replayed = replayed, !.pc = "project"]
  <1>1. /\ run' = [run EXCEPT ![r] = c] /\ run[r] \in Call
        /\ ShapeFits(run[r]) /\ StreamFits
    BY InvParts
  <1>2. /\ c \in Call /\ c.op = run[r].op /\ c.pc = "project" /\ c.now = run[r].now
        /\ c.cmd = run[r].cmd /\ c.replayed = replayed
    BY <1>1 DEF Call, Pcs
  <1> HIDE DEF c
  <1>3. Present(c.cmd) /\ Abstract!Truthful(c.cmd, r, "replayed")
    BY <1>1, <1>2, FoundIsTruthful
  <1>4. ~ replayed => Abstract!Truthful(c.cmd, r, "stored")
    <2> SUFFICES ASSUME ~ replayed PROVE Abstract!Truthful(c.cmd, r, "stored")
      OBVIOUS
    <2>1. stream[i] \in Entries /\ stream[i] \in ever
      BY <1>1, StreamTypes DEF WithKey
    <2>2. stream[i] = [cmd |-> c.cmd, by |-> r]
      BY <1>2, <2>1 DEF Entries, Ours, At
    <2> QED BY <2>1, <2>2 DEF Abstract!Truthful, Abstract!Entry
  <1>5. ShapeFits(c) /\ KeptFits(c)
    BY <1>1, <1>2, <1>3 DEF ShapeFits, KeptFits, Found, Early, Present
  <1>6. TruthFits(r, c) /\ GuardFits(r, c) /\ OnceFits(r, c)
    BY <1>2, <1>3, <1>4 DEF TruthFits, Said, GuardFits, OnceFits
  <1>7. QuietBy(r, c)
    BY <1>1, <1>2, <1>5, <1>6 DEF QuietBy, Visible, Fits
  <1> QED BY <1>7

LEMMA DigestConflictQuiet ==
  ASSUME StoreInv, NEW r \in Requests, Finish(r, "conflict"), UNCHANGED Shared,
         run[r].pc \in {"find", "error", "stored"},
         NEW i \in WithKey(stream, run[r].cmd.key), ~ SameDigest(r, i)
  PROVE  \E c : QuietBy(r, c)
  <1>1. Abstract!Truthful(run[r].cmd, r, "conflict") /\ run[r].cmd # Silent
    BY InvParts, ConflictIsTruthful DEF SameDigest, ShapeFits, Early
  <1> QED BY <1>1, FinishQuiet DEF Answers

LEMMA CompareQuiet ==
  ASSUME StoreInv, NEW r \in Requests, NEW i \in WithKey(stream, run[r].cmd.key), Compare(r, i),
         UNCHANGED Shared, run[r].pc \in {"find", "error"}
  PROVE  \E c : QuietBy(r, c)
  <1>1. CASE SameDigest(r, i)
    <2>1. /\ run' = [run EXCEPT ![r].replayed = TRUE, ![r].pc = "project"]
          /\ At(stream, i) = run[r].cmd
      BY <1>1 DEF Compare, SameDigest
    <2> QED BY <2>1, ProjectFits
  <1>2. CASE ~ SameDigest(r, i)
    BY <1>2, DigestConflictQuiet DEF Compare
  <1> QED BY <1>1, <1>2

LEMMA FindQuiet ==
  ASSUME StoreInv, NEW r \in Requests, Find(r)
  PROVE  \E c : QuietBy(r, c)
  <1>1. /\ run[r].pc = "find" /\ UNCHANGED Shared /\ ~ (Committed(r) /\ account)
        /\ run[r].pc \notin Early \cup {"done"}
    BY Uncommitted DEF Find, Early
  <1>2. ASSUME NEW i \in WithKey(stream, run[r].cmd.key), Compare(r, i)
        PROVE  \E c : QuietBy(r, c)
    BY <1>1, <1>2, CompareQuiet
  <1>3. CASE Goto(r, "batch")
    BY <1>1, <1>3, GotoFits
  <1> QED BY <1>2, <1>3 DEF Find

LEMMA BatchFailsQuiet ==
  ASSUME StoreInv, NEW r \in Requests, BatchFails(r)
  PROVE  \E c : QuietBy(r, c)
  <1> DEFINE c == [run[r] EXCEPT !.broken = TRUE, !.pc = "error"]
  <1>1. /\ run' = [run EXCEPT ![r] = c] /\ run[r] \in Call /\ run[r].pc = "batch"
        /\ ShapeFits(run[r]) /\ ~ (Committed(r) /\ account) /\ UNCHANGED Shared
    BY InvParts, Uncommitted DEF BatchFails
  <1>2. /\ c \in Call /\ c.op = run[r].op /\ c.pc = "error" /\ c.now = run[r].now
        /\ c.cmd = run[r].cmd
    BY <1>1 DEF Call, Pcs
  <1> HIDE DEF c
  <1>3. Fits(r, c)
    BY <1>1, <1>2
       DEF Fits, ShapeFits, KeptFits, TruthFits, GuardFits, OnceFits, Found, Early
  <1>4. QuietBy(r, c)
    BY <1>1, <1>2, <1>3 DEF QuietBy, Visible
  <1> QED BY <1>4

\* A request whose event is nowhere to be found has not committed it, or the
\* account is gone.
LEMMA MissingQuiet ==
  ASSUME StoreInv, NEW r \in Requests, run[r].pc \in {"error", "stored"},
         WithKey(stream, run[r].cmd.key) = {}, Goto(r, "evidence"), UNCHANGED Shared
  PROVE  \E c : QuietBy(r, c)
  <1>1. ~ (Committed(r) /\ account)
    BY InvParts DEF OnceFits
  <1> QED BY <1>1, GotoFits DEF Early

LEMMA ErrorPathQuiet ==
  ASSUME StoreInv, NEW r \in Requests, ErrorPath(r)
  PROVE  \E c : QuietBy(r, c)
  <1>1. ASSUME NEW i \in WithKey(stream, run[r].cmd.key), Compare(r, i)
        PROVE  \E c : QuietBy(r, c)
    BY <1>1, CompareQuiet DEF ErrorPath
  <1>2. CASE WithKey(stream, run[r].cmd.key) = {} /\ Goto(r, "evidence")
    BY <1>2, MissingQuiet DEF ErrorPath
  <1> QED BY <1>1, <1>2 DEF ErrorPath

LEMMA StoredQuiet ==
  ASSUME StoreInv, NEW r \in Requests, Stored(r)
  PROVE  \E c : QuietBy(r, c)
  <1>1. run[r].pc = "stored" /\ UNCHANGED Shared
    BY DEF Stored
  <1>2. ASSUME NEW i \in WithKey(stream, run[r].cmd.key),
               IF ~SameDigest(r, i) THEN Finish(r, "conflict")
               ELSE run' = [run EXCEPT ![r].replayed = ~Ours(r, i), ![r].pc = "project"]
        PROVE  \E c : QuietBy(r, c)
    <2>1. CASE ~ SameDigest(r, i)
      BY <1>1, <1>2, <2>1, DigestConflictQuiet
    <2>2. CASE SameDigest(r, i)
      <3> DEFINE replayed == ~ Ours(r, i)
      <3>1. /\ replayed \in BOOLEAN /\ (~ replayed => Ours(r, i))
            /\ run' = [run EXCEPT ![r].replayed = replayed, ![r].pc = "project"]
            /\ At(stream, i) = run[r].cmd
        BY <1>2, <2>2 DEF SameDigest
      <3> HIDE DEF replayed
      <3> QED BY <1>1, <3>1, ProjectFits
    <2> QED BY <2>1, <2>2
  <1>3. CASE WithKey(stream, run[r].cmd.key) = {} /\ Goto(r, "evidence")
    BY <1>1, <1>3, MissingQuiet
  <1> QED BY <1>2, <1>3 DEF Stored

LEMMA EvidenceQuiet ==
  ASSUME StoreInv, NEW r \in Requests, Evidence(r)
  PROVE  \E c : QuietBy(r, c)
  <1>1. /\ run[r].pc = "evidence" /\ UNCHANGED Shared /\ run[r] \in Call /\ run[r].cmd # Silent
        /\ ShapeFits(run[r]) /\ ~ (Committed(r) /\ account)
    BY InvParts, Uncommitted DEF Evidence, ShapeFits, Early
  <1>2. CASE Finish(r, "refused") \/ Finish(r, "failed") \/ Finish(r, "contention")
    BY <1>1, <1>2, PlainFinishQuiet
  <1>3. CASE ~ LastTurn(r) /\ run' = [run EXCEPT ![r].tries = @ + 1, ![r].pc = "list"]
    <2> DEFINE c == [run[r] EXCEPT !.tries = run[r].tries + 1, !.pc = "list"]
    <2>1. run' = [run EXCEPT ![r] = c]
      BY <1>3
    <2>2. run[r].tries + 1 \in 0..(MaxTries - 1)
      BY <1>1, <1>3, TriesAssumption DEF Call, LastTurn
    <2>3. /\ c \in Call /\ c.op = run[r].op /\ c.pc = "list" /\ c.now = run[r].now
          /\ c.cmd = run[r].cmd
      BY <1>1, <2>2 DEF Call, Pcs
    <2> HIDE DEF c
    <2>4. Fits(r, c)
      BY <1>1, <2>3
         DEF Fits, ShapeFits, KeptFits, TruthFits, GuardFits, OnceFits, Found, Early
    <2>5. QuietBy(r, c)
      BY <1>1, <2>1, <2>3, <2>4 DEF QuietBy, Visible
    <2> QED BY <2>5
  <1> QED BY <1>2, <1>3 DEF Evidence

LEMMA ProjectQuiet ==
  ASSUME StoreInv, NEW r \in Requests, Project(r)
  PROVE  \E c : QuietBy(r, c)
  <1>1. /\ run[r].pc = "project" /\ UNCHANGED Shared /\ run[r].cmd # Silent
        /\ KeptFits(run[r]) /\ TruthFits(r, run[r])
    BY InvParts DEF Project, ShapeFits, Early
  <1> DEFINE a == IF run[r].replayed THEN "replayed" ELSE "stored"
  <1>2. CASE Settled(r, a)
    <2>1. a \in {"stored", "replayed", "superseded"} /\ a # "superseded"
      OBVIOUS
    <2>2. /\ Abstract!Truthful(run[r].cmd, r, a)
          /\ account => Present(run[r].cmd)
      BY <1>1 DEF TruthFits, Said, KeptFits, Found, Present
    <2> HIDE DEF a
    <2> QED BY <1>1, <1>2, <2>1, <2>2, SettledQuiet
  <1>3. CASE Finish(r, "failed")
    BY <1>1, <1>3, PlainFinishQuiet
  <1> QED BY <1>2, <1>3 DEF Project


-----------------------------------------------------------------------------
(* Every step keeps the invariant *)

\* What a request holds depends on no more than this.
Promised == <<clock, account, stream, ever>>

LEMMA PromisedKeepsFits ==
  ASSUME UNCHANGED Promised, NEW r, NEW c, run'[r] = c, Fits(r, c)
  PROVE  Fits(r, run[r])'
  <1>1. /\ clock' = clock /\ account' = account /\ stream' = stream /\ ever' = ever
    BY DEF Promised
  <1>2. ShapeFits(run[r])'
    BY <1>1 DEF Fits, ShapeFits
  <1>3. KeptFits(run[r])'
    BY <1>1 DEF Fits, KeptFits, Found
  <1>4. TruthFits(r, run[r])'
    BY <1>1 DEF Fits, TruthFits, Said, Abstract!Truthful
  <1>5. GuardFits(r, run[r])'
    BY <1>1 DEF Fits, GuardFits
  <1>6. OnceFits(r, run[r])'
    BY <1>1 DEF Fits, OnceFits, Committed
  <1> QED BY <1>2, <1>3, <1>4, <1>5, <1>6 DEF Fits

\* A step of request r that leaves all this alone.
LEMMA PromisedKeepsAll ==
  ASSUME StoreInv, UNCHANGED Promised, NEW r \in Requests, NEW c, c \in Call, Fits(r, c),
         run' = [run EXCEPT ![r] = c]
  PROVE  run' \in [Requests -> Call] /\ \A x \in Requests : Fits(x, run[x])'
  <1>1. run \in [Requests -> Call]
    BY DEF StoreInv
  <1>2. ASSUME NEW x \in Requests PROVE Fits(x, run[x])'
    <2>1. Fits(x, run'[x])
      BY <1>1 DEF StoreInv
    <2> QED BY <2>1, PromisedKeepsFits
  <1> QED BY <1>1, <1>2

LEMMA SharedKeepsStore ==
  ASSUME StoreInv, UNCHANGED Shared
  PROVE  StreamFits' /\ RowFollowsStream'
  <1>1. /\ clock' = clock /\ account' = account /\ stream' = stream /\ ever' = ever
        /\ row' = row /\ revision' = revision
    BY DEF Shared
  <1> QED BY <1>1 DEF StoreInv, StreamFits, RowFollowsStream

LEMMA QuietKeeps ==
  ASSUME StoreInv, NEW r \in Requests, NEW c, QuietBy(r, c)
  PROVE  StoreInv'
  <1>1. /\ run' = [run EXCEPT ![r] = c] /\ Fits(r, c) /\ c \in Call
        /\ UNCHANGED Shared /\ UNCHANGED Promised
    BY DEF QuietBy, Fits, ShapeFits, Shared, Promised
  <1> QED BY <1>1, PromisedKeepsAll, SharedKeepsStore DEF StoreInv

LEMMA StutterKeeps ==
  ASSUME StoreInv, UNCHANGED vars
  PROVE  StoreInv'
  <1>1. UNCHANGED Shared /\ UNCHANGED Promised /\ run' = run
    BY DEF vars, Shared, Promised
  <1>2. ASSUME NEW x \in Requests PROVE Fits(x, run[x])'
    BY <1>1, PromisedKeepsFits DEF StoreInv
  <1> QED BY <1>1, <1>2, SharedKeepsStore DEF StoreInv

LEMMA TickKeeps ==
  ASSUME StoreInv, Tick
  PROVE  StoreInv'
  <1>1. /\ clock' = clock + 1 /\ clock' \in 0..MaxClock /\ clock \in 0..MaxClock
        /\ account' = account /\ stream' = stream
        /\ ever' = ever /\ row' = row /\ revision' = revision /\ run' = run
    BY ClockAssumption DEF Tick, StoreInv, StreamFits
  <1>2. StreamFits' /\ RowFollowsStream'
    BY <1>1 DEF StoreInv, StreamFits, RowFollowsStream
  <1>3. ASSUME NEW x \in Requests PROVE Fits(x, run[x])'
    <2>1. Fits(x, run[x]) /\ run'[x] = run[x]
      BY <1>1 DEF StoreInv
    <2>2. ShapeFits(run[x])'
      <3>1. run[x].now \in 0..MaxClock /\ run[x].now <= clock
        BY <2>1 DEF Fits, ShapeFits, Call
      <3>2. run'[x].now <= clock'
        BY <1>1, <2>1, <3>1
      <3> QED BY <2>1, <3>2 DEF Fits, ShapeFits
    <2>3. KeptFits(run[x])'
      BY <1>1, <2>1 DEF Fits, KeptFits, Found
    <2>4. TruthFits(x, run[x])'
      BY <1>1, <2>1 DEF Fits, TruthFits, Said, Abstract!Truthful
    <2>5. GuardFits(x, run[x])'
      BY <1>1, <2>1 DEF Fits, GuardFits
    <2>6. OnceFits(x, run[x])'
      BY <1>1, <2>1 DEF Fits, OnceFits, Committed
    <2> QED BY <2>2, <2>3, <2>4, <2>5, <2>6 DEF Fits
  <1> QED BY <1>1, <1>2, <1>3 DEF StoreInv

\* Without the account nothing is promised but that the answers were true.
LEMMA DeleteKeeps ==
  ASSUME StoreInv, DeleteAccount
  PROVE  StoreInv'
  <1>1. /\ clock' = clock /\ account' = FALSE /\ stream' = <<>> /\ revision' = NoStream
        /\ row' = NoRow /\ ever' = ever /\ run' = run
    BY DEF DeleteAccount
  <1>2. <<>> \in Seq(Entries) /\ DOMAIN <<>> = {}
    OBVIOUS
  <1>4. StreamFits'
    BY <1>1, <1>2 DEF StoreInv, StreamFits, Rows
  <1>5. RowFollowsStream'
    BY <1>1 DEF RowFollowsStream
  <1>3. ASSUME NEW x \in Requests PROVE Fits(x, run[x])'
    <2>1. Fits(x, run[x]) /\ run'[x] = run[x]
      BY <1>1 DEF StoreInv
    <2>2. ShapeFits(run[x])'
      BY <1>1, <2>1 DEF Fits, ShapeFits
    <2>3. KeptFits(run[x])'
      BY <1>1 DEF KeptFits
    <2>4. TruthFits(x, run[x])'
      BY <1>1, <2>1 DEF Fits, TruthFits, Said, Abstract!Truthful
    <2>5. GuardFits(x, run[x])'
      BY <1>1 DEF GuardFits
    <2>6. OnceFits(x, run[x])'
      BY <1>1 DEF OnceFits
    <2> QED BY <2>2, <2>3, <2>4, <2>5, <2>6 DEF Fits
  <1> QED BY <1>1, <1>3, <1>4, <1>5 DEF StoreInv

LEMMA WriteRowKeeps ==
  ASSUME StoreInv, NEW r \in Requests, WriteRow(r)
  PROVE  StoreInv'
  <1> DEFINE c == Done(r, run[r].answer)
             written == [item |-> run[r].cmd.item, revision |-> run[r].shown, at |-> run[r].now]
  <1>1. /\ run[r].pc = "row" /\ account /\ row' = written /\ run' = [run EXCEPT ![r] = c]
        /\ clock' = clock /\ account' = account /\ stream' = stream /\ revision' = revision
        /\ ever' = ever
    BY DEF WriteRow, Finish, Done
  <1>2. /\ run[r] \in Call /\ run \in [Requests -> Call] /\ ShapeFits(run[r]) /\ KeptFits(run[r])
        /\ OnceFits(r, run[r]) /\ StreamFits
    BY InvParts
  <1>3. /\ run[r].cmd \in ClientCommands /\ run[r].answer \in {"stored", "replayed"}
        /\ run[r].cmd.type = "import" /\ run[r].shown \in 0..Cardinality(Requests)
        /\ run[r].now \in 0..MaxClock
    BY <1>1, <1>2, CommandTypesFit DEF ShapeFits, Call
  <1>4. run[r].cmd.item \in {q.item : q \in Imports}
    BY <1>3 DEF ClientCommands, ClientImport, ImportCommand
  <1>5. written \in Rows
    BY <1>3, <1>4 DEF Rows
  <1>6. \E i \in WithKey(stream, run[r].cmd.key) :
          At(stream, i).item = run[r].cmd.item /\ At(stream, i).type = run[r].cmd.type
    BY <1>1, <1>2, <1>3 DEF KeptFits, Found
  <1>7. \E i \in OfType(stream, "import") : At(stream, i).item = written.item
    BY <1>3, <1>6 DEF OfType, WithKey
  <1>8. StreamFits'
    BY <1>1, <1>2, <1>5 DEF StreamFits
  <1>9. RowFollowsStream'
    BY <1>1, <1>7 DEF RowFollowsStream
  <1>10. /\ c \in Call /\ c.pc = "done" /\ c.cmd = run[r].cmd
         /\ c.answer = run[r].answer /\ c.op = "none" /\ c.now = 0
    BY <1>3, DoneFits DEF Answers
  <1> HIDE DEF c, written
  <1>11. Fits(r, c) /\ clock \in 0..MaxClock
    BY <1>2, <1>3, <1>6, <1>10, ClockAssumption
       DEF Fits, ShapeFits, KeptFits, TruthFits, GuardFits, OnceFits, Found, Early, StreamFits
  <1> QED BY <1>1, <1>8, <1>9, <1>10, <1>11, PromisedKeepsAll DEF StoreInv, Promised

-----------------------------------------------------------------------------
(* The batch *)

LEMMA AppendFacts ==
  ASSUME NEW s \in Seq(Entries), NEW e \in Entries
  PROVE  /\ Append(s, e) \in Seq(Entries) /\ Len(Append(s, e)) = Len(s) + 1
         /\ DOMAIN Append(s, e) = 1..(Len(s) + 1) /\ DOMAIN s = 1..Len(s)
         /\ Append(s, e)[Len(s) + 1] = e
         /\ \A i \in DOMAIN s : Append(s, e)[i] = s[i] /\ At(Append(s, e), i) = At(s, i)
         /\ \A k : WithKey(s, k) \subseteq WithKey(Append(s, e), k)
         /\ \A t : OfType(s, t) \subseteq OfType(Append(s, e), t)
  <1>1. /\ Append(s, e) \in Seq(Entries) /\ Len(Append(s, e)) = Len(s) + 1
        /\ DOMAIN Append(s, e) = 1..(Len(s) + 1) /\ DOMAIN s = 1..Len(s) /\ Len(s) \in Nat
        /\ Append(s, e)[Len(s) + 1] = e
        /\ \A i \in DOMAIN s : Append(s, e)[i] = s[i]
    OBVIOUS
  <1>2. \A i \in DOMAIN s : At(Append(s, e), i) = At(s, i) /\ i \in DOMAIN Append(s, e)
    BY <1>1 DEF At
  <1> QED BY <1>1, <1>2 DEF WithKey, OfType

\* A batch that commits the event of request r: the list that r took is the stream, and
\* the stream stays projectable.
Commit(r) ==
  /\ run[r].pc = "batch" /\ account /\ ~ Committed(r) /\ run[r].cmd \in AllCommands
  /\ WithKey(stream, run[r].cmd.key) = {}
  /\ Projectable(Append(stream, Entry(run[r].cmd, r)))
  /\ stream' = Append(stream, Entry(run[r].cmd, r))
  /\ ever' = ever \cup {Entry(run[r].cmd, r)}
  /\ revision' = Len(stream) + 1
  /\ UNCHANGED <<clock, account, row, audited>>
  /\ \E lost \in BOOLEAN :
       run' = [run EXCEPT ![r].broken = lost, ![r].pc = IF lost THEN "error" ELSE "stored"]

\* A batch that only makes the stream row.
Miss(r) ==
  /\ run[r].pc = "batch"
  /\ revision' = IF revision = NoStream THEN 0 ELSE revision
  /\ UNCHANGED <<clock, account, stream, ever, row, audited>>
  /\ \E lost \in BOOLEAN :
       run' = [run EXCEPT ![r].broken = lost, ![r].pc = IF lost THEN "error" ELSE "stored"]

LEMMA BatchCases ==
  ASSUME StoreInv, NEW r \in Requests, Batch(r)
  PROVE  Commit(r) \/ Miss(r)
  <1>1. /\ run[r].pc = "batch" /\ run[r] \in Call /\ ShapeFits(run[r]) /\ GuardFits(r, run[r])
        /\ StreamFits /\ ~ (Committed(r) /\ account)
    BY InvParts, Uncommitted DEF Batch
  <1>2. /\ account /\ run[r].cmd \in AllCommands
        /\ UNCHANGED <<clock, account, row, audited>>
    BY <1>1 DEF Batch, BatchThrows, ShapeFits, Early, Call
  <1>3. CASE RevisionMatches(r)
    <2>1. WithKey(stream, run[r].cmd.key) = {}
      BY <1>3 DEF Batch, BatchThrows
    <2>2. run[r].expected = Len(stream)
      BY <1>1, <1>3, StreamTypes DEF RevisionMatches, StreamFits
    <2>3. ~ run[r].known
      BY <1>1, <1>2, <2>1 DEF GuardFits
    <2>4. Projectable(Append(stream, Entry(run[r].cmd, r)))
      BY <1>1, <1>2, <2>2, <2>3 DEF GuardFits
    <2>5. /\ stream' = Append(stream, Entry(run[r].cmd, r))
          /\ ever' = ever \cup {Entry(run[r].cmd, r)}
          /\ revision' = Len(stream) + 1
      BY <1>3, <2>2 DEF Batch, Commits, NextRevision
    <2> QED BY <1>1, <1>2, <2>1, <2>4, <2>5 DEF Commit, Batch
  <1>4. CASE ~ RevisionMatches(r)
    BY <1>1, <1>2, <1>4 DEF Miss, Batch, Commits
  <1> QED BY <1>3, <1>4

\* What request r holds after its batch.
LEMMA AfterBatch ==
  ASSUME StoreInv, NEW r \in Requests, run[r].pc = "batch", NEW lost \in BOOLEAN,
         run' = [run EXCEPT ![r].broken = lost, ![r].pc = IF lost THEN "error" ELSE "stored"]
  PROVE  \E c : /\ run' = [run EXCEPT ![r] = c] /\ c \in Call /\ c.pc \in {"error", "stored"}
                /\ c.cmd = run[r].cmd /\ ShapeFits(c)
  <1> DEFINE pc == IF lost THEN "error" ELSE "stored"
             c == [run[r] EXCEPT !.broken = lost, !.pc = pc]
  <1>1. run' = [run EXCEPT ![r] = c] /\ run[r] \in Call /\ ShapeFits(run[r])
    BY InvParts
  <1>2. pc \in {"error", "stored"}
    OBVIOUS
  <1> HIDE DEF pc
  <1>3. /\ c \in Call /\ c.pc = pc /\ c.cmd = run[r].cmd /\ c.op = run[r].op
        /\ c.now = run[r].now
    BY <1>1, <1>2 DEF Call, Pcs
  <1> HIDE DEF c
  <1>4. ShapeFits(c)
    BY <1>1, <1>2, <1>3 DEF ShapeFits, Early
  <1> QED BY <1>1, <1>2, <1>3, <1>4

LEMMA MissKeeps ==
  ASSUME StoreInv, NEW r \in Requests, Miss(r)
  PROVE  StoreInv'
  <1>1. run[r].pc = "batch" /\ UNCHANGED Promised /\ row' = row
    BY DEF Miss, Promised
  <1>2. PICK c : /\ run' = [run EXCEPT ![r] = c] /\ c \in Call /\ c.pc \in {"error", "stored"}
                 /\ c.cmd = run[r].cmd /\ ShapeFits(c)
    BY AfterBatch DEF Miss
  <1>3. StreamFits /\ ~ (Committed(r) /\ account)
    BY <1>1, InvParts, Uncommitted
  <1>4. Fits(r, c)
    BY <1>2, <1>3 DEF Fits, KeptFits, Found, TruthFits, GuardFits, OnceFits
  <1>5. IF revision' = NoStream THEN stream = <<>> ELSE revision' = Len(stream)
    <2>1. CASE revision = NoStream
      <3>1. stream = <<>> /\ revision' = 0
        BY <1>3, <2>1 DEF StreamFits, Miss
      <3> QED BY <3>1 DEF NoStream
    <2>2. CASE revision # NoStream
      BY <1>3, <2>2 DEF StreamFits, Miss
    <2> QED BY <2>1, <2>2
  <1>6. StreamFits'
    BY <1>1, <1>3, <1>5 DEF StreamFits, Promised
  <1>7. RowFollowsStream'
    BY <1>1 DEF StoreInv, RowFollowsStream, Promised
  <1> QED BY <1>1, <1>2, <1>4, <1>6, <1>7, PromisedKeepsAll DEF StoreInv

LEMMA CommitKeeps ==
  ASSUME StoreInv, NEW r \in Requests, Commit(r)
  PROVE  StoreInv'
  <1> DEFINE e == Entry(run[r].cmd, r)
  <1>1. /\ run[r].pc = "batch" /\ clock' = clock /\ account' = account /\ row' = row
        /\ stream' = Append(stream, e) /\ ever' = ever \cup {e} /\ revision' = Len(stream) + 1
        /\ ~ Committed(r) /\ run[r].cmd \in AllCommands
    BY DEF Commit
  <1>2. PICK c : /\ run' = [run EXCEPT ![r] = c] /\ c \in Call /\ c.pc \in {"error", "stored"}
                 /\ c.cmd = run[r].cmd /\ ShapeFits(c)
    BY AfterBatch DEF Commit
  <1>3. StreamFits /\ run \in [Requests -> Call] /\ RowFollowsStream
    BY DEF StoreInv
  <1>4. e \in Entries /\ e.by = r /\ e.cmd = run[r].cmd
    BY <1>1 DEF Entry, Entries
  <1>5. stream \in Seq(Entries) /\ Len(stream) \in Nat
    BY <1>3, StreamTypes
  <1>6. /\ stream' \in Seq(Entries) /\ Len(stream') = Len(stream) + 1
        /\ DOMAIN stream' = 1..(Len(stream) + 1) /\ DOMAIN stream = 1..Len(stream)
        /\ stream'[Len(stream) + 1] = e
        /\ \A i \in DOMAIN stream : stream'[i] = stream[i] /\ At(stream', i) = At(stream, i)
        /\ \A k : WithKey(stream, k) \subseteq WithKey(stream', k)
        /\ \A t : OfType(stream, t) \subseteq OfType(stream', t)
    BY <1>1, <1>4, <1>5, AppendFacts
  <1> HIDE DEF e
  <1>7. \A i \in DOMAIN stream : stream[i] \in ever /\ stream[i].by # r
    BY <1>1, <1>3 DEF StreamFits, Committed
  <1>8. \A i, j \in DOMAIN stream' : stream'[i].by = stream'[j].by => i = j
    <2> SUFFICES ASSUME NEW i \in DOMAIN stream', NEW j \in DOMAIN stream',
                        stream'[i].by = stream'[j].by
                 PROVE  i = j
      OBVIOUS
    <2>1. /\ i \in DOMAIN stream \/ i = Len(stream) + 1
          /\ j \in DOMAIN stream \/ j = Len(stream) + 1
      BY <1>5, <1>6
    <2> QED BY <1>3, <1>4, <1>6, <1>7, <2>1 DEF StreamFits
  <1>9. \A i \in DOMAIN stream' : stream'[i] \in ever'
    <2> SUFFICES ASSUME NEW i \in DOMAIN stream' PROVE stream'[i] \in ever'
      OBVIOUS
    <2>1. i \in DOMAIN stream \/ i = Len(stream) + 1
      BY <1>5, <1>6
    <2> QED BY <1>1, <1>6, <1>7, <2>1
  <1>10. IF revision' = NoStream THEN stream' = <<>> ELSE revision' = Len(stream')
    BY <1>1, <1>5, <1>6 DEF NoStream
  <1>11. StreamFits'
    BY <1>1, <1>3, <1>4, <1>6, <1>8, <1>9, <1>10 DEF StreamFits
  <1>12. RowFollowsStream'
    <2>1. CASE row \in OldRows \cup {NoRow}
      BY <1>1, <2>1 DEF RowFollowsStream
    <2>2. ASSUME NEW i \in OfType(stream, "import"), At(stream, i).item = row.item
          PROVE  RowFollowsStream'
      <3>1. i \in DOMAIN stream /\ i \in OfType(stream', "import")
        BY <1>6, <2>2 DEF OfType
      <3>2. At(stream', i).item = row'.item
        BY <1>1, <1>6, <2>2, <3>1
      <3> QED BY <3>1, <3>2 DEF RowFollowsStream
    <2> QED BY <1>3, <2>1, <2>2 DEF RowFollowsStream
  <1>13. run' \in [Requests -> Call]
    BY <1>2, <1>3
  <1>14. ASSUME NEW x \in Requests, x # r PROVE Fits(x, run[x])'
    <2>1. run'[x] = run[x] /\ run[x] \in Call /\ Fits(x, run[x])
      BY <1>2, <1>3, <1>14 DEF StoreInv
    <2>2. ShapeFits(run[x])'
      BY <1>1, <2>1 DEF Fits, ShapeFits
    <2>3. KeptFits(run[x])'
      <3> SUFFICES ASSUME Found(run[x]), account
                   PROVE  \E i \in WithKey(stream', run[x].cmd.key) :
                            /\ At(stream', i).item = run[x].cmd.item
                            /\ At(stream', i).type = run[x].cmd.type
        BY <1>1, <2>1 DEF KeptFits, Found
      <3>1. PICK i \in WithKey(stream, run[x].cmd.key) :
              At(stream, i).item = run[x].cmd.item /\ At(stream, i).type = run[x].cmd.type
        BY <2>1 DEF Fits, KeptFits
      <3>2. i \in DOMAIN stream /\ i \in WithKey(stream', run[x].cmd.key)
        BY <1>6, <3>1 DEF WithKey
      <3>3. At(stream', i) = At(stream, i)
        BY <1>6, <3>2
      <3> QED BY <3>1, <3>2, <3>3
    <2>4. TruthFits(x, run[x])'
      BY <1>1, <2>1 DEF Fits, TruthFits, Said, Abstract!Truthful
    <2>5. GuardFits(x, run[x])'
      <3> SUFFICES ASSUME run[x].pc \in {"find", "batch"}, account
                   PROVE  /\ run[x].expected <= Len(stream') /\ run[x].expected # Len(stream')
                          /\ run[x].known => WithKey(stream', run[x].cmd.key) # {}
        BY <1>1, <2>1 DEF GuardFits
      <3>1. /\ run[x].expected <= Len(stream)
            /\ run[x].known => WithKey(stream, run[x].cmd.key) # {}
        BY <2>1 DEF Fits, GuardFits
      <3>2. run[x].expected \in Nat
        BY <2>1 DEF Call
      <3>3. run[x].expected <= Len(stream') /\ run[x].expected # Len(stream')
        BY <1>5, <1>6, <3>1, <3>2
      <3> QED BY <1>6, <3>1, <3>3
    <2>6. OnceFits(x, run[x])'
      <3> SUFFICES ASSUME Committed(x), account
                   PROVE  /\ run[x].pc \in {"error", "stored", "project", "row", "done"}
                          /\ run[x].pc \in {"error", "stored"} =>
                               \E i \in WithKey(stream', run[x].cmd.key) : stream'[i].by = x
        BY <1>1, <1>4, <1>14, <2>1 DEF OnceFits, Committed
      <3>1. /\ run[x].pc \in {"error", "stored", "project", "row", "done"}
            /\ run[x].pc \in {"error", "stored"} =>
                 \E i \in WithKey(stream, run[x].cmd.key) : stream[i].by = x
        BY <2>1 DEF Fits, OnceFits
      <3>2. ASSUME NEW i \in WithKey(stream, run[x].cmd.key), stream[i].by = x
            PROVE  i \in WithKey(stream', run[x].cmd.key) /\ stream'[i].by = x
        <4>1. i \in DOMAIN stream /\ i \in WithKey(stream', run[x].cmd.key)
          BY <1>6, <3>2 DEF WithKey
        <4> QED BY <1>6, <3>2, <4>1
      <3> QED BY <3>1, <3>2
    <2> QED BY <2>2, <2>3, <2>4, <2>5, <2>6 DEF Fits
  <1>15. Fits(r, run[r])'
    <2>1. run'[r] = c
      BY <1>2, <1>3
    <2>2. Len(stream) + 1 \in WithKey(stream', c.cmd.key) /\ stream'[Len(stream) + 1].by = r
      BY <1>2, <1>4, <1>5, <1>6 DEF WithKey, At
    <2>3. OnceFits(r, run[r])'
      BY <1>2, <2>1, <2>2 DEF OnceFits
    <2>4. ShapeFits(run[r])'
      BY <1>1, <1>2, <2>1 DEF ShapeFits
    <2>5. KeptFits(run[r])' /\ TruthFits(r, run[r])' /\ GuardFits(r, run[r])'
      BY <1>2, <2>1 DEF KeptFits, Found, TruthFits, GuardFits
    <2> QED BY <2>3, <2>4, <2>5 DEF Fits
  <1> QED BY <1>11, <1>12, <1>13, <1>14, <1>15 DEF StoreInv

-----------------------------------------------------------------------------
(* The invariant *)

\* Every step is one of these.
Moves(r) ==
  \/ \E c : QuietBy(r, c)
  \/ Commit(r) \/ Miss(r) \/ WriteRow(r)

LEMMA StepCases ==
  ASSUME StoreInv, [Next]_vars
  PROVE  Tick \/ DeleteAccount \/ UNCHANGED vars \/ \E r \in Requests : Moves(r)
  <1>1. ASSUME NEW r \in Requests, Begin(r) PROVE Moves(r)
    BY <1>1, BeginCommandQuiet, BeginImportQuiet, BeginReadQuiet DEF Begin, Moves
  <1>2. ASSUME NEW r \in Requests, Step(r) PROVE Moves(r)
    <2>1. CASE ReadRow(r) \/ ReadEvents(r) \/ Rebuild(r) \/ Precheck(r)
      BY <2>1, ReadRowQuiet, ReadEventsQuiet, RebuildQuiet, PrecheckQuiet DEF Moves
    <2>2. CASE List(r) \/ Find(r) \/ BatchFails(r) \/ ErrorPath(r)
      BY <2>2, ListQuiet, FindQuiet, BatchFailsQuiet, ErrorPathQuiet DEF Moves
    <2>3. CASE Stored(r) \/ Evidence(r) \/ Project(r) \/ WriteRowFails(r)
      BY <2>3, StoredQuiet, EvidenceQuiet, ProjectQuiet, WriteRowFailsQuiet DEF Moves
    <2>4. CASE Batch(r)
      BY <2>4, BatchCases DEF Moves
    <2>5. CASE WriteRow(r)
      BY <2>5 DEF Moves
    <2> QED BY <1>2, <2>1, <2>2, <2>3, <2>4, <2>5 DEF Step
  <1>3. CASE Quiet
    BY <1>3 DEF Quiet
  <1> QED BY <1>1, <1>2, <1>3 DEF Next

LEMMA StepKeeps ==
  ASSUME StoreInv, [Next]_vars
  PROVE  StoreInv'
  <1>1. ASSUME NEW r \in Requests, Moves(r) PROVE StoreInv'
    BY <1>1, QuietKeeps, CommitKeeps, MissKeeps, WriteRowKeeps DEF Moves
  <1> QED BY <1>1, StepCases, TickKeeps, DeleteKeeps, StutterKeeps

LEMMA InitFits ==
  ASSUME Init
  PROVE  StoreInv
  <1>1. /\ clock = 0 /\ account = TRUE /\ stream = <<>> /\ revision = NoStream
        /\ row \in OldRows \cup {NoRow} /\ run = [r \in Requests |-> Idle] /\ ever = {}
    BY DEF Init
  <1>2. 0 \in 0..MaxClock /\ Idle \in Call
    BY IdleFits
  <1>3. <<>> \in Seq(Entries) /\ DOMAIN <<>> = {}
    OBVIOUS
  <1>4. StreamFits
    BY <1>1, <1>2, <1>3 DEF StreamFits, Rows
  <1>5. RowFollowsStream
    BY <1>1 DEF RowFollowsStream
  <1>6. ASSUME NEW r \in Requests PROVE Fits(r, run[r])
    <2>1. run[r] = Idle
      BY <1>1
    <2>2. Idle.pc = "idle" /\ Idle.op = "none" /\ Idle.cmd = Silent /\ Idle.now = 0
      BY DEF Idle
    <2>3. ShapeFits(Idle)
      BY <1>1, <1>2, <2>2 DEF ShapeFits, Early
    <2>4. KeptFits(Idle) /\ TruthFits(r, Idle) /\ GuardFits(r, Idle)
      BY <2>2 DEF KeptFits, Found, TruthFits, GuardFits
    <2>5. OnceFits(r, Idle)
      BY <1>1 DEF OnceFits, Committed
    <2> QED BY <2>1, <2>3, <2>4, <2>5 DEF Fits
  <1> QED BY <1>1, <1>2, <1>4, <1>5, <1>6 DEF StoreInv

LEMMA StoreInvariant == Spec => []StoreInv
  <1>1. Init => StoreInv
    BY InitFits
  <1>2. StoreInv /\ [Next]_vars => StoreInv'
    BY StepKeeps
  <1> QED BY <1>1, <1>2, PTL DEF Spec

-----------------------------------------------------------------------------
(* What follows from it *)

LEMMA InvImpliesTypes ==
  ASSUME StoreInv
  PROVE  TypeOK
  <1>1. StreamFits
    BY DEF StoreInv
  <1>2. ASSUME NEW i \in DOMAIN stream PROVE stream[i].by \in Requests
    BY <1>1, StreamTypes DEF Entries
  <1>3. ASSUME NEW r \in Requests
        PROVE  /\ run[r].pc \in Pcs /\ run[r].tries \in 0..(MaxTries - 1)
               /\ run[r].now \in 0..clock
    <2>1. run[r] \in Call /\ run[r].now <= clock
      BY InvParts DEF ShapeFits
    <2>2. run[r].now \in 0..MaxClock /\ clock \in 0..MaxClock
      BY <1>1, <2>1 DEF Call, StreamFits
    <2>3. run[r].now \in 0..clock
      BY <2>1, <2>2, ClockAssumption
    <2> QED BY <2>1, <2>3 DEF Call
  <1> QED BY <1>1, <1>2, <1>3 DEF TypeOK, StreamFits

\* Every variable has its type, and the stream row counts the events.
THEOREM RecordTypes == Spec => []TypeOK
  <1>1. StoreInv => TypeOK
    BY InvImpliesTypes
  <1> QED BY <1>1, StoreInvariant, PTL

\* A caller that was told its command is stored finds it in the stream as long as the
\* account exists: nothing the other requests do takes it away, and the answer was not
\* given for an event that a lost batch never wrote (sql-learning-event-store.ts:167).
THEOREM AnswersAreKept == Spec => []AnsweredIsKept
  <1>1. StoreInv => AnsweredIsKept
    <2> SUFFICES ASSUME StoreInv, NEW r \in Requests, run[r].pc = "done",
                        run[r].answer \in {"stored", "replayed"}, account
                 PROVE  \E i \in WithKey(stream, run[r].cmd.key) :
                          At(stream, i).item = run[r].cmd.item
      BY DEF AnsweredIsKept
    <2> QED BY InvParts DEF KeptFits, Found
  <1> QED BY <1>1, StoreInvariant, PTL

\* The materialised row never shows a snapshot that no event carries: a crash between
\* the two batches of an import leaves it behind, never ahead (worker.ts:5763).
THEOREM RowNeverLeads == Spec => []RowFollowsStream
  <1>1. StoreInv => RowFollowsStream
    BY DEF StoreInv
  <1> QED BY <1>1, StoreInvariant, PTL

-----------------------------------------------------------------------------
(* Badges *)

\* The stream of a step that is not the deletion grows at its end or not at all, and what
\* it gains was accepted by the projection.
LEMMA StreamGrows ==
  ASSUME StoreInv, [Next]_vars
  PROVE  \/ stream' = stream
         \/ ~ account'
         \/ \E e \in Entries : stream' = Append(stream, e) /\ Projectable(Append(stream, e))
  <1>1. CASE DeleteAccount
    BY <1>1 DEF DeleteAccount
  <1>2. CASE Tick \/ UNCHANGED vars
    BY <1>2 DEF Tick, vars
  <1>3. ASSUME NEW r \in Requests, Moves(r)
        PROVE  \/ stream' = stream
               \/ \E e \in Entries : stream' = Append(stream, e) /\ Projectable(Append(stream, e))
    <2>1. CASE \E c : QuietBy(r, c)
      BY <2>1 DEF QuietBy, Shared
    <2>2. CASE Commit(r)
      <3>1. Entry(run[r].cmd, r) \in Entries
        BY <2>2 DEF Commit, Entry, Entries
      <3> QED BY <2>2, <3>1 DEF Commit
    <2>3. CASE Miss(r) \/ WriteRow(r)
      BY <2>3 DEF Miss, WriteRow
    <2> QED BY <1>3, <2>1, <2>2, <2>3 DEF Moves
  <1> QED BY <1>1, <1>2, <1>3, StepCases

LEMMA GrowthKeepsBadges ==
  ASSUME NEW s \in Seq(Entries), NEW e \in Entries, Projectable(Append(s, e)),
         OfType(Append(s, e), "import") = OfType(s, "import")
  PROVE  Badges(s) \subseteq Badges(Append(s, e))
  <1> DEFINE t == Append(s, e)
             n == Len(s) + 1
  <1>1. /\ Len(s) \in Nat /\ Len(t) = n /\ DOMAIN t = 1..n /\ DOMAIN s = 1..Len(s)
        /\ \A i \in DOMAIN s : At(t, i) = At(s, i)
    BY AppendFacts
  <1>2. /\ Projectable(t) /\ OfType(t, "import") = OfType(s, "import")
    OBVIOUS
  <1> SUFFICES Badges(s) \subseteq Badges(t)
    OBVIOUS
  <1> HIDE DEF t
  <1>3. n \in DOMAIN t /\ n \notin DOMAIN s /\ n \in Nat
    BY <1>1
  <1>4. At(t, n).type # "import"
    BY <1>2, <1>3 DEF OfType
  <1>5. \A i \in Since(s) : i \in DOMAIN s /\ i \in Since(t) /\ i \in Window(t, n)
    <2> SUFFICES ASSUME NEW i \in Since(s)
                 PROVE  i \in DOMAIN s /\ i \in Since(t) /\ i \in Window(t, n)
      OBVIOUS
    <2>1. i \in 1..Len(s) /\ \A k \in i..Len(s) : At(s, k).type # "import"
      BY <1>1 DEF Since, Window
    <2>2. ASSUME NEW k \in i..Len(s) PROVE At(t, k).type # "import"
      BY <1>1, <2>1
    <2>3. ASSUME NEW k \in i..n PROVE At(t, k).type # "import"
      BY <1>1, <1>4, <2>1, <2>2
    <2>4. n - 1 = Len(s) /\ (Len(t) + 1) - 1 = n /\ i \in 1..n
      BY <1>1, <2>1
    <2> QED BY <1>1, <2>1, <2>2, <2>3, <2>4 DEF Since, Window
  <1>6. \A i \in Since(t) : i = n \/ (i \in DOMAIN s /\ i \in Since(s))
    <2> SUFFICES ASSUME NEW i \in Since(t), i # n PROVE i \in DOMAIN s /\ i \in Since(s)
      OBVIOUS
    <2>1. i \in 1..n /\ \A k \in i..n : At(t, k).type # "import"
      BY <1>1 DEF Since, Window
    <2>2. i \in DOMAIN s
      BY <1>1, <2>1
    <2>3. ASSUME NEW k \in i..Len(s) PROVE At(s, k).type # "import"
      BY <1>1, <2>1, <2>2
    <2>4. n - 1 = Len(s)
      BY <1>1
    <2> QED BY <1>1, <2>2, <2>3, <2>4 DEF Since, Window
  <1>7. \A i \in DOMAIN s : \A ty : i \in OfType(t, ty) <=> i \in OfType(s, ty)
    BY <1>1 DEF OfType
  <1>8. Completed(s) \subseteq Completed(t)
    BY <1>1, <1>5, <1>7 DEF Completed
  <1>9. Enrollments(s) \subseteq Enrollments(t)
    BY <1>1, <1>5, <1>7 DEF Enrollments
  <1> SUFFICES ASSUME NEW p \in Badges(s) PROVE p \in Badges(t)
    OBVIOUS
  <1>10. p \in Enrollments(t)
    BY <1>9 DEF Badges
  <1> SUFFICES ASSUME NEW i \in Since(t) \cap OfType(t, "enroll"), At(t, i).path = p,
                      NEW m \in At(t, i).item
               PROVE  <<p, m>> \in Completed(s)
    BY <1>8, <1>10 DEF Badges
  <1>11. \A j \in Since(s) \cap OfType(s, "enroll") :
           At(s, j).path = p => \A x \in At(s, j).item : <<p, x>> \in Completed(s)
    BY DEF Badges
  <1>12. CASE i # n
    BY <1>1, <1>6, <1>7, <1>11, <1>12
  <1>13. CASE i = n
    <2>1. PICK j \in Since(s) \cap OfType(s, "enroll") : At(s, j).path = p
      BY DEF Badges, Enrollments
    <2>2. SameDefinition(t, n)
      BY <1>2, <1>3, <1>13 DEF Projectable, Applies, OfType
    <2>3. j \in InWindow(t, n, "enroll") /\ At(t, j) = At(s, j)
      BY <1>1, <1>5, <1>7, <2>1 DEF InWindow, OfType
    <2>4. At(t, j).item = At(t, n).item
      BY <1>13, <2>1, <2>2, <2>3 DEF SameDefinition
    <2> QED BY <1>11, <1>13, <2>1, <2>3, <2>4
  <1> QED BY <1>12, <1>13

\* A badge is never taken away but by an import or with the account: an append was
\* projected before it was committed, and the projection refuses to redefine a path
\* (learning-event-engine.ts:593).
THEOREM BadgesStay == Spec => BadgesAreKept
  <1>1. StoreInv /\ [Next]_vars
          => [OfType(stream', "import") = OfType(stream, "import") /\ account'
                => Badges(stream) \subseteq Badges(stream')]_vars
    <2> SUFFICES ASSUME StoreInv, [Next]_vars,
                        OfType(stream', "import") = OfType(stream, "import"), account'
                 PROVE  Badges(stream) \subseteq Badges(stream')
      OBVIOUS
    <2>1. stream \in Seq(Entries)
      BY DEF StoreInv, StreamFits
    <2>2. CASE stream' = stream
      BY <2>2
    <2>3. ASSUME NEW e \in Entries, stream' = Append(stream, e), Projectable(Append(stream, e))
          PROVE  Badges(stream) \subseteq Badges(stream')
      BY <2>1, <2>3, GrowthKeepsBadges
    <2> QED BY <2>2, <2>3, StreamGrows
  <1> QED BY <1>1, StoreInvariant, PTL DEF Spec, BadgesAreKept

-----------------------------------------------------------------------------
(* The SQL store implements LearnerStream *)

\* The state that LearnerStream sees.
Request == [r \in Requests |-> run[r].cmd]
Told(c) == IF c.pc = "done" THEN c.answer ELSE "none"
Answer == [r \in Requests |-> Told(run[r])]

LEMMA SameOperators ==
  ASSUME NEW s, NEW c, NEW r
  PROVE  /\ Abstract!Projectable(s) = Projectable(s)
         /\ Abstract!WithKey(s, c) = WithKey(s, c)
         /\ Abstract!Entry(c, r) = Entry(c, r)
  BY DEF Projectable, Applies, SameDefinition, EnrolledModule, NewAttempt, SoundCorrection,
     InWindow, Window, At, WithKey, Entry,
     Abstract!Projectable, Abstract!Applies, Abstract!SameDefinition, Abstract!EnrolledModule,
     Abstract!NewAttempt, Abstract!SoundCorrection, Abstract!InWindow, Abstract!Window,
     Abstract!At, Abstract!WithKey, Abstract!Entry

\* A step of request r changes what LearnerStream sees of r only.
LEMMA SeenMoves ==
  ASSUME run \in [Requests -> Call], NEW r \in Requests, NEW c, run' = [run EXCEPT ![r] = c]
  PROVE  /\ Request' = [Request EXCEPT ![r] = c.cmd] /\ Request[r] = run[r].cmd
         /\ Answer' = [Answer EXCEPT ![r] = Told(c)] /\ Answer[r] = Told(run[r])
  BY DEF Request, Answer, Told

LEMMA SeenStays ==
  ASSUME run' = run
  PROVE  Request' = Request /\ Answer' = Answer
  BY DEF Request, Answer, Told

LEMMA SeenInit ==
  ASSUME Init
  PROVE  Abstract!Init
  <1>1. stream = <<>> /\ ever = {} /\ run = [r \in Requests |-> Idle]
    BY DEF Init
  <1>2. Idle.cmd = Silent /\ Idle.pc = "idle"
    BY DEF Idle
  <1>3. /\ [r \in Requests |-> run[r].cmd] = [r \in Requests |-> Silent]
        /\ [r \in Requests |-> IF run[r].pc = "done" THEN run[r].answer ELSE "none"]
             = [r \in Requests |-> "none"]
    BY <1>1, <1>2
  <1> QED BY <1>1, <1>3 DEF Abstract!Init

\* A step of a request on its own is an Ask, a Reply or nothing.
LEMMA QuietRefines ==
  ASSUME StoreInv, NEW r \in Requests, NEW c, QuietBy(r, c)
  PROVE  [Abstract!Next]_<<stream, ever, Request, Answer>>
  <1>1. /\ run \in [Requests -> Call] /\ run' = [run EXCEPT ![r] = c] /\ Visible(r, c)
        /\ stream' = stream /\ ever' = ever
    BY DEF StoreInv, QuietBy, Shared
  <1>2. /\ Request' = [Request EXCEPT ![r] = c.cmd] /\ Request[r] = run[r].cmd
        /\ Answer' = [Answer EXCEPT ![r] = Told(c)] /\ Answer[r] = "none"
        /\ Request \in [Requests -> AllCommands \cup {Silent}]
        /\ DOMAIN Request = Requests /\ DOMAIN Answer = Requests
    <2>1. Told(run[r]) = "none"
      BY <1>1 DEF Visible, Told
    <2> QED BY <1>1, <2>1, SeenMoves DEF Request, Answer, Call
  <1>3. CASE c.cmd = run[r].cmd /\ c.pc # "done"
    <2>1. Told(c) = "none"
      BY <1>3 DEF Told
    <2>2. Request' = Request /\ Answer' = Answer
      BY <1>2, <1>3, <2>1 DEF Request, Answer
    <2> QED BY <1>1, <2>2
  <1>4. CASE run[r].cmd = Silent /\ c.cmd \in AllCommands /\ c.pc # "done"
    <2>1. Told(c) = "none"
      BY <1>4 DEF Told
    <2>2. Answer' = Answer
      BY <1>2, <2>1 DEF Answer
    <2>3. Abstract!Ask(r)
      BY <1>1, <1>2, <1>4, <2>2 DEF Abstract!Ask, Request, Answer, Told
    <2> QED BY <2>3 DEF Abstract!Next
  <1>5. CASE /\ c.cmd = run[r].cmd /\ c.pc = "done" /\ c.answer \in Answers \ {"none"}
             /\ c.cmd = Silent => c.answer \in {"read", "failed"}
             /\ c.cmd # Silent => Abstract!Truthful(c.cmd, r, c.answer)
    <2>1. Told(c) = c.answer
      BY <1>5 DEF Told
    <2>2. Request' = Request
      BY <1>2, <1>5 DEF Request
    <2>3. Abstract!Reply(r)
      BY <1>1, <1>2, <1>5, <2>1, <2>2
         DEF Abstract!Reply, Abstract!Answers, Answers, Request, Answer, Told
    <2> QED BY <2>3 DEF Abstract!Next
  <1> QED BY <1>1, <1>3, <1>4, <1>5 DEF Visible

LEMMA CommitRefines ==
  ASSUME StoreInv, NEW r \in Requests, Commit(r)
  PROVE  Abstract!Next
  <1> DEFINE e == Entry(run[r].cmd, r)
  <1>1. PICK c : /\ run' = [run EXCEPT ![r] = c] /\ c \in Call /\ c.pc \in {"error", "stored"}
                 /\ c.cmd = run[r].cmd /\ ShapeFits(c)
    BY AfterBatch DEF Commit
  <1>2. run \in [Requests -> Call] /\ run[r].pc = "batch"
    BY DEF StoreInv, Commit
  <1>3. Told(c) = "none" /\ Told(run[r]) = "none"
    BY <1>1, <1>2 DEF Told
  <1>4. /\ Request' = Request /\ Answer' = Answer /\ Answer[r] = "none"
        /\ Request[r] = run[r].cmd
    BY <1>1, <1>2, <1>3, SeenMoves DEF Request, Answer
  <1>5. /\ WithKey(stream, run[r].cmd.key) = {} /\ Projectable(Append(stream, e))
        /\ stream' = Append(stream, e) /\ ever' = ever \cup {e}
        /\ run[r].cmd # Silent /\ \A x \in ever : x.by # r
    BY SilenceAssumption DEF Commit, Committed
  <1>6. /\ Abstract!Entry(run[r].cmd, r) = e
        /\ Abstract!WithKey(stream, run[r].cmd.key) = {}
        /\ Abstract!Projectable(Append(stream, e))
    BY <1>5, SameOperators
  <1> HIDE DEF e
  <1>7. Abstract!Commit(r)
    BY <1>4, <1>5, <1>6 DEF Abstract!Commit, Request, Answer, Told
  <1> QED BY <1>7 DEF Abstract!Next

\* An import that has written its row tells what it was going to tell.
LEMMA WriteRowRefines ==
  ASSUME StoreInv, NEW r \in Requests, WriteRow(r)
  PROVE  Abstract!Next
  <1> DEFINE c == Done(r, run[r].answer)
  <1>1. /\ run[r].pc = "row" /\ run' = [run EXCEPT ![r] = c] /\ stream' = stream /\ ever' = ever
    BY DEF WriteRow, Finish, Done
  <1>2. /\ run[r] \in Call /\ run \in [Requests -> Call] /\ ShapeFits(run[r])
        /\ TruthFits(r, run[r])
    BY InvParts
  <1>3. /\ run[r].cmd # Silent /\ run[r].answer \in {"stored", "replayed"}
        /\ Abstract!Truthful(run[r].cmd, r, run[r].answer)
    BY <1>1, <1>2 DEF ShapeFits, Early, TruthFits, Said
  <1>4. /\ c.pc = "done" /\ c.cmd = run[r].cmd /\ c.answer = run[r].answer
    BY <1>3, DoneFits DEF Answers
  <1> HIDE DEF c
  <1>5. Told(run[r]) = "none" /\ Told(c) = run[r].answer
    BY <1>1, <1>4 DEF Told
  <1>6. /\ Request' = Request /\ Answer[r] = "none" /\ Request[r] = run[r].cmd
        /\ Answer' = [Answer EXCEPT ![r] = run[r].answer]
    <2>1. /\ Request' = [Request EXCEPT ![r] = c.cmd] /\ Request[r] = run[r].cmd
          /\ Answer' = [Answer EXCEPT ![r] = Told(c)] /\ Answer[r] = Told(run[r])
      BY <1>1, <1>2, SeenMoves
    <2>2. Request' = Request
      BY <1>4, <2>1 DEF Request
    <2> QED BY <1>5, <2>1, <2>2
  <1>7. Abstract!Reply(r)
    BY <1>1, <1>3, <1>6
       DEF Abstract!Reply, Abstract!Answers, Request, Answer, Told
  <1> QED BY <1>7 DEF Abstract!Next

LEMMA StepRefines ==
  ASSUME StoreInv, [Next]_vars
  PROVE  [Abstract!Next]_<<stream, ever, Request, Answer>>
  <1>1. CASE Tick \/ UNCHANGED vars
    <2>1. stream' = stream /\ ever' = ever /\ run' = run
      BY <1>1 DEF Tick, vars
    <2> QED BY <2>1, SeenStays
  <1>2. CASE DeleteAccount
    <2>1. stream' = <<>> /\ ever' = ever /\ run' = run
      BY <1>2 DEF DeleteAccount
    <2>2. Request' = Request /\ Answer' = Answer
      BY <2>1, SeenStays
    <2>3. Abstract!Erase
      BY <2>1, <2>2 DEF Abstract!Erase, Request, Answer, Told
    <2> QED BY <2>3 DEF Abstract!Next
  <1>3. ASSUME NEW r \in Requests, Moves(r)
        PROVE  [Abstract!Next]_<<stream, ever, Request, Answer>>
    <2>1. CASE Miss(r)
      <3>1. PICK c : /\ run' = [run EXCEPT ![r] = c] /\ c \in Call
                     /\ c.pc \in {"error", "stored"} /\ c.cmd = run[r].cmd /\ ShapeFits(c)
        BY <2>1, AfterBatch DEF Miss
      <3>2. run \in [Requests -> Call] /\ run[r].pc = "batch" /\ stream' = stream /\ ever' = ever
        BY <2>1 DEF StoreInv, Miss
      <3>3. Told(c) = "none" /\ Told(run[r]) = "none"
        BY <3>1, <3>2 DEF Told
      <3>4. Request' = Request /\ Answer' = Answer
        BY <3>1, <3>2, <3>3, SeenMoves DEF Request, Answer
      <3> QED BY <3>2, <3>4
    <2> QED BY <1>3, <2>1, QuietRefines, CommitRefines, WriteRowRefines DEF Moves
  <1> QED BY <1>1, <1>2, <1>3, StepCases

\* The SQL store implements LearnerStream: every step of a request is invisible, or is
\* the moment at which the request is asked, takes effect or is answered; it takes effect
\* at most once and on a log that stays projectable, and the answer is true
\* (sql-learning-event-store.ts:123, learning-event-engine.ts:415).
THEOREM StoreImplementsStream == Spec => ImplementsLearnerStream
  <1>1. Init => Abstract!Init
    BY SeenInit
  <1>2. StoreInv /\ [Next]_vars => [Abstract!Next]_(Abstract!abstractVars)
    <2> SUFFICES ASSUME StoreInv, [Next]_vars
                 PROVE  [Abstract!Next]_(Abstract!abstractVars)
      OBVIOUS
    <2>1. [Abstract!Next]_<<stream, ever, Request, Answer>>
      BY StepRefines
    <2> QED BY <2>1 DEF Abstract!abstractVars, Request, Answer, Told
  <1> QED BY <1>1, <1>2, StoreInvariant, PTL DEF Spec, ImplementsLearnerStream, Abstract!Spec
=============================================================================
