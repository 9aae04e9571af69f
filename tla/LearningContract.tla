--------------------------- MODULE LearningContract ---------------------------
(***************************************************************************)
(* One learning record and all those who judge it: the forms that make it, *)
(* the portable file and the record kept on the device                     *)
(* (src/portable-record.ts), the route that saves it (src/worker.ts), the  *)
(* contract of commands and events (src/learning-events.ts), and the       *)
(* engine that stores events and answers with a record made of them        *)
(* (src/learning-event-engine.ts).  Each has its own idea of a valid       *)
(* record.  The races of these requests are the business of LearningRecord *)
(* and ProgressSync; here each request is one step.                        *)
(*                                                                         *)
(* A value is reduced to the classes that some check tells apart:          *)
(*   text    "plain"; "padded" with outer blanks; "blank"; "long", over    *)
(*           the limit of its field; "control", with a control character;  *)
(*   time    "exact" UTC in the contract's form; "ahead", the same in the  *)
(*           future; "loose", what only Date.parse can read; "none";       *)
(*   score   "whole", "fraction", or "outside" of 0 to 100;                *)
(*   list    of texts: "distinct", "empty", "repeated", or "padded";       *)
(*   keys    of an object: "known", with an "extra" one, or "other" when   *)
(*           required ones are missing or of another type.                 *)
(***************************************************************************)
EXTENDS Naturals, Sequences, FiniteSets

CONSTANTS
    InputsFit,     \* the learner's inputs, and the rows written before there was a
                   \* contract, keep its limits; the forms and the worker do not see to it
    MaxSteps,      \* changes of the record and commands
    None

VARIABLES
    device,        \* the record in the browser; `own' while the application made all of it
    name,          \* users.display_name, a class of text
    legacy,        \* the row of learning_progress that has no event yet, or None
    stream,        \* the learner's events
    steps

contractVars == <<device, name, legacy, stream, steps>>

Learner == "ann"

-------------------------------------------------------------------------------
(* The checks of single values: the contract's, and those of a portable    *)
(* record.                                                                 *)

validateProgressString(t) == t = "plain"
validateDisplayText(t) == t \in {"plain", "control"}
validateStableId(t) == t = "plain"
validateVersion(t) == t = "plain"
validateUniqueIds(l) == l \in {"distinct", "empty"}
validateProgressStringArray(l) == l \in {"distinct", "empty"}
validTimestamp(t) == t \in {"exact", "ahead"}
validateProgressScore(s) == s \in {"whole", "fraction"}
validateScore(s) == s = "whole"
rejectUnknownKeys(k) == k = "known"

isNonEmptyString(t) == t # "blank"
isUniqueStringArray(l) == l \in {"distinct", "empty", "padded"}
isIsoDate(t) == t # "none"

-------------------------------------------------------------------------------
(* A record.  Its attempts, submissions and badges are sets; `unique' says *)
(* that no id stands for two of them.  Of `size', "heavy" is over 1 MB,    *)
(* and "many" is more attempts or badges than the contract allows, which   *)
(* is over 1 MB as well.                                                   *)

Attempt(id) ==
    [id |-> id, keys |-> "known", text |-> "plain", score |-> "whole", at |-> "exact"]

Capstone(refs, reflection) ==
    [keys |-> "known", text |-> "plain", at |-> "exact", refs |-> refs, points |-> "whole",
     criteria |-> "distinct", score |-> "whole", reflection |-> reflection]

Badge == [keys |-> "known", text |-> "plain", label |-> "plain", at |-> "exact",
          evidence |-> "distinct"]

Visit == [keys |-> "known", text |-> "plain", at |-> "exact"]

createEmptyProgress(n) ==
    [keys |-> "known", name |-> n, lists |-> "empty", attempts |-> {}, capstones |-> {},
     badges |-> {}, recent |-> None, unique |-> TRUE, updated |-> "exact", size |-> "few"]

hasLearningEvidence(p) ==
    \/ p.lists # "empty" \/ p.recent # None
    \/ p.attempts # {} \/ p.capstones # {} \/ p.badges # {}

(* The contract.                                                           *)

validateProgressAttempt(x) ==
    /\ rejectUnknownKeys(x.keys) /\ validateProgressString(x.text)
    /\ validateProgressScore(x.score) /\ validTimestamp(x.at)

validateProgressCriterionScore(x) ==
    /\ x.points = "whole" /\ x.criteria = "distinct"

validateProgressCapstone(x) ==
    /\ rejectUnknownKeys(x.keys) /\ validateProgressString(x.text) /\ validTimestamp(x.at)
    /\ validateProgressStringArray(x.refs) /\ validateProgressCriterionScore(x)
    /\ validateProgressScore(x.score) /\ validateDisplayText(x.reflection)

validateProgressBadge(x) ==
    /\ rejectUnknownKeys(x.keys) /\ validateProgressString(x.text)
    /\ validateDisplayText(x.label) /\ validTimestamp(x.at)
    /\ validateProgressStringArray(x.evidence)

validateProgressRecentModule(x) ==
    rejectUnknownKeys(x.keys) /\ validateProgressString(x.text) /\ validTimestamp(x.at)

validateUniqueProgressRecords(p) == p.unique

validateProgressSnapshot(p) ==
    /\ rejectUnknownKeys(p.keys)
    /\ validateDisplayText(p.name) /\ validateProgressStringArray(p.lists)
    /\ validTimestamp(p.updated) /\ p.size # "many" /\ validateUniqueProgressRecords(p)
    /\ \A x \in p.attempts : validateProgressAttempt(x)
    /\ \A x \in p.capstones : validateProgressCapstone(x)
    /\ \A x \in p.badges : validateProgressBadge(x)
    /\ p.recent # None => validateProgressRecentModule(p.recent)

(* The portable record: a key too many is kept, as structuredClone keeps it. *)

isAssessmentAttempt(x) ==
    /\ x.keys # "other" /\ isNonEmptyString(x.text)
    /\ x.score # "outside" /\ isIsoDate(x.at)

isCapstoneCriterionScore(x) == x.points = "whole" /\ x.criteria = "distinct"

isCapstoneSubmission(x) ==
    /\ x.keys # "other" /\ isNonEmptyString(x.text) /\ isIsoDate(x.at)
    /\ isUniqueStringArray(x.refs) /\ x.refs # "empty"
    /\ isCapstoneCriterionScore(x)
    /\ x.score # "outside" /\ isNonEmptyString(x.reflection)

isEarnedBadge(x) ==
    /\ x.keys # "other" /\ isNonEmptyString(x.text) /\ isNonEmptyString(x.label)
    /\ isIsoDate(x.at) /\ isUniqueStringArray(x.evidence)

isRecentModule(x) == x.keys # "other" /\ isNonEmptyString(x.text) /\ isIsoDate(x.at)

isLearnerProgress(p) ==
    /\ p.keys # "other" /\ p.name # "long"
    /\ isUniqueStringArray(p.lists) /\ p.unique /\ isIsoDate(p.updated)
    /\ \A x \in p.attempts : isAssessmentAttempt(x)
    /\ \A x \in p.capstones : isCapstoneSubmission(x)
    /\ \A x \in p.badges : isEarnedBadge(x)
    /\ p.recent # None => isRecentModule(p.recent)

\* A file: the record and what is written around it.
buildPortableLearnerRecord(p) == [format |-> "plain", exported |-> "exact", learner |-> p]

validatePortableLearnerRecord(f) ==
    f.format = "plain" /\ isIsoDate(f.exported) /\ isLearnerProgress(f.learner)

-------------------------------------------------------------------------------
(* Commands and events.  A command has one `id' for the ids it names, one  *)
(* `text' for its display texts, one `list' for moduleIds or evidenceRefs. *)

Types == {"enroll", "visit", "record", "complete", "correct", "import"}

(* LearningEventAccess *)
Access(i, t, u, S) == [inst |-> i, type |-> t, user |-> u, may |-> S]
Accesses ==
    {Access("here", "learner", "ann", {"self"}), Access("here", "learner", "bob", {"self"}),
     Access("here", "owner", "olga", {"any"}), Access("here", "system", None, {"any"}),
     Access("elsewhere", "learner", "ann", {"self"})}

Actor(a) == [type |-> a.type, user |-> a.user]

Command(type, a, payload) ==
    [type |-> type, keys |-> "known", schema |-> "1.1", inst |-> "here", id |-> "plain",
     key |-> "plain", version |-> "plain", at |-> "exact", actor |-> Actor(a),
     text |-> "plain", list |-> "distinct", answers |-> "some", score |-> "whole",
     source |-> "account-backed-v1", payload |-> payload]

\* The sources that the route lets in, and those that the contract knows.
PROGRESS_IMPORT_SOURCES == {"browser-local-v1", "project42-portable-json", "account-backed-v1"}

\* Mutant: the contract does not know the source of the application's own saves.
LearningProgressImportSource_Imports ==
    {"browser-local-v1", "project42-portable-json", "legacy-hosted-v1", "account-merge-v1"}

LearningProgressImportSource ==
    {"browser-local-v1", "project42-portable-json", "legacy-hosted-v1", "account-merge-v1",
     "account-backed-v1"}

validateActor(a) ==
    IF a.type = "system" THEN a.user = None ELSE a.type \in {"learner", "owner"} /\ a.user # None

validatePathPayload(c) ==
    /\ validateStableId(c.id) /\ validateDisplayText(c.text)
    /\ validateUniqueIds(c.list) /\ c.list # "empty"
validateModulePayload(c) == validateStableId(c.id)
validateAssessmentPayload(c) ==
    validateStableId(c.id) /\ c.answers = "some" /\ validateScore(c.score)
validateCompletionPayload(c) ==
    validateStableId(c.id) /\ validateUniqueIds(c.list) /\ c.list # "empty"
validateCorrectionPayload(c) ==
    validateStableId(c.id) /\ validateScore(c.score) /\ validateDisplayText(c.text)
validateProgressImportPayload(c) ==
    c.source \in LearningProgressImportSource /\ validateProgressSnapshot(c.payload)

validateCommandPayload(c) ==
    CASE c.type = "enroll" -> validatePathPayload(c)
      [] c.type = "visit" -> validateModulePayload(c)
      [] c.type = "record" -> validateAssessmentPayload(c)
      [] c.type = "complete" -> validateCompletionPayload(c)
      [] c.type = "correct" -> validateCorrectionPayload(c)
      [] c.type = "import" -> validateProgressImportPayload(c)

validateContractVersion(c) ==
    c.schema \in {"1.0", "1.1"} /\ (c.type = "import" => c.schema = "1.1")

validateLearningCommand(c) ==
    /\ rejectUnknownKeys(c.keys) /\ validateContractVersion(c)
    /\ validateStableId(c.key) /\ validateVersion(c.version) /\ validTimestamp(c.at)
    /\ validateActor(c.actor) /\ validateCommandPayload(c)

\* commandToEvent: an event of the current version, whatever the command's was; its id and
\* digest are computed, and `n' is the next sequence number.
commandToEvent(c, n) == [seq |-> n, cmd |-> [c EXCEPT !.schema = "1.1"], recorded |-> "exact"]

validateEventPayload(e) == validateCommandPayload(e.cmd)

\* `recordedAt' is the time of storing, which must not be before `occurredAt'.
validateLearningEvent(e) ==
    /\ e.seq >= 1 /\ rejectUnknownKeys(e.cmd.keys) /\ validateContractVersion(e.cmd)
    /\ validateStableId(e.cmd.key) /\ validateVersion(e.cmd.version)
    /\ validTimestamp(e.cmd.at) /\ validTimestamp(e.recorded) /\ e.cmd.at # "ahead"
    /\ validateActor(e.cmd.actor) /\ validateEventPayload(e)

assertCanWrite(c, a) ==
    /\ a.inst = c.inst /\ c.actor = Actor(a)
    /\ "any" \in a.may \/ (a.user = Learner /\ "self" \in a.may)

assertCanRead(a) ==
    /\ a.inst = "here" /\ ("any" \in a.may \/ (a.user = Learner /\ "self" \in a.may))

\* The events since the last import, by type.
Since(s, t) ==
    {i \in DOMAIN s : s[i].cmd.type = t /\ \A j \in i..Len(s) : s[j].cmd.type # "import"}

\* projectLearningEvents returns: every event is valid and follows from those before it.
\* One path of one module; LearningProjection has the rules in full.
Projects(s) ==
    \A i \in DOMAIN s :
        LET before == SubSeq(s, 1, i - 1) IN
        /\ validateLearningEvent(s[i]) /\ s[i].seq = i
        /\ s[i].cmd.type \in {"visit", "record", "complete"} => Since(before, "enroll") # {}
        /\ s[i].cmd.type = "record" => Since(before, "record") = {}
        /\ s[i].cmd.type = "correct" => Since(before, "record") # {} /\ Since(before, "correct") = {}

\* LearningEventEngine.execute answers; `clock-invalid' is the last condition.
Executes(c, a) ==
    /\ validateLearningCommand(c) /\ assertCanWrite(c, a)
    /\ c.at # "ahead"
    /\ Projects(Append(stream, commandToEvent(c, Len(stream) + 1)))

-------------------------------------------------------------------------------
(* The account's answer: the last snapshot, or an empty record under the   *)
(* account's name, and what events have added since.                       *)

progressEnvelopeFromProjection(s) ==
    LET imports == {i \in DOMAIN s : s[i].cmd.type = "import"}
        last == CHOOSE i \in imports : \A j \in imports : j <= i
        base == IF imports = {} THEN createEmptyProgress(name) ELSE s[last].cmd.payload
        done == Since(s, "complete") # {}
    IN  [base EXCEPT
           !.lists = IF Since(s, "enroll") # {} \/ done THEN "distinct" ELSE @,
           !.attempts = @ \cup {Attempt("event") : i \in Since(s, "record")},
           !.badges = @ \cup {Badge : i \in Since(s, "complete")},
           !.recent = IF Since(s, "visit") # {} THEN Visit ELSE @]

\* validateProgress: only the shape and the counts.
validateProgress(p) == p.keys # "other" /\ p.size # "many"

\* PUT /v1/me/progress answers 200.
Saves(p, source) ==
    LET ann == Access("here", "learner", Learner, {"self"})
        c == [Command("import", ann, p) EXCEPT !.source = source]
    IN  /\ p.size = "few" /\ source \in PROGRESS_IMPORT_SOURCES
        /\ validateProgress(p) /\ Executes(c, ann)

\* The event of the legacy row that a read of the account appends first.
LegacyImport ==
    [Command("import", Access("here", "system", None, {"any"}), legacy)
       EXCEPT !.source = "legacy-hosted-v1"]

\* shouldMigrate, with no import in the stream that is newer than the row.
Migrated ==
    IF legacy = None \/ stream # <<>> THEN stream
    ELSE Append(stream, commandToEvent(LegacyImport, 1))

\* GET /v1/me/progress answers 200.
Answers ==
    /\ assertCanRead(Access("here", "learner", Learner, {"self"}))
    /\ legacy # None => validateProgress(legacy)
    /\ Projects(Migrated)

-------------------------------------------------------------------------------
(* What is put in: in a command or a file made elsewhere at most one value *)
(* is not as it should be.                                                 *)

OddText == {"padded", "blank", "long", "control"}
OddTime == {"loose", "none"}
OddList == {"empty", "repeated", "padded"}
OddKeys == {"extra", "other"}

Odd(x, field, S) == {[x EXCEPT ![field] = v] : v \in S}

OddAttempts ==
    LET x == Attempt("file") IN
    Odd(x, "keys", OddKeys) \cup Odd(x, "text", OddText) \cup Odd(x, "at", OddTime)
    \cup Odd(x, "score", {"fraction", "outside"})
OddCapstones ==
    LET x == Capstone("distinct", "plain") IN
    Odd(x, "keys", OddKeys) \cup Odd(x, "text", OddText) \cup Odd(x, "at", OddTime)
    \cup Odd(x, "refs", OddList) \cup Odd(x, "points", {"fraction"})
    \cup Odd(x, "criteria", {"empty", "repeated"}) \cup Odd(x, "reflection", OddText)
OddBadges ==
    Odd(Badge, "keys", OddKeys) \cup Odd(Badge, "text", OddText) \cup Odd(Badge, "label", OddText)
    \cup Odd(Badge, "at", OddTime) \cup Odd(Badge, "evidence", OddList)
OddVisits == Odd(Visit, "keys", OddKeys) \cup Odd(Visit, "text", OddText) \cup Odd(Visit, "at", OddTime)

PlainRecord == [createEmptyProgress("plain") EXCEPT !.lists = "distinct"]

Records ==
    LET p == PlainRecord IN
    {p} \cup Odd(p, "keys", OddKeys) \cup Odd(p, "name", OddText) \cup Odd(p, "lists", OddList)
    \cup Odd(p, "updated", OddTime) \cup Odd(p, "unique", {FALSE})
    \cup Odd(p, "size", {"heavy", "many"})
    \cup {[p EXCEPT !.attempts = {x}] : x \in OddAttempts}
    \cup {[p EXCEPT !.capstones = {x}] : x \in OddCapstones}
    \cup {[p EXCEPT !.badges = {x}] : x \in OddBadges}
    \cup {[p EXCEPT !.recent = x] : x \in OddVisits}

\* The values of a command, and of its payload by type, with what each may hold instead.
CommonOdd ==
    [keys |-> {"extra"}, schema |-> {"1.0", "2.0"}, inst |-> {"elsewhere"}, key |-> OddText,
     version |-> OddText, at |-> OddTime \cup {"ahead"},
     actor |-> {Actor(b) : b \in Accesses} \cup {[type |-> "system", user |-> "ann"]}]
PayloadOdd ==
    [enroll |-> [id |-> OddText, text |-> OddText, list |-> OddList],
     visit |-> [id |-> OddText],
     record |-> [id |-> OddText, answers |-> {"none", "outside"}, score |-> {"fraction", "outside"}],
     complete |-> [id |-> OddText, list |-> OddList],
     correct |-> [id |-> OddText, text |-> OddText, score |-> {"fraction", "outside"}],
     import |-> [source |-> {"account-merge-v1", "unknown"}]]

Commands(a) ==
    UNION {LET c == Command(t, a, PlainRecord)
               Variants(odd) == UNION {Odd(c, f, odd[f]) : f \in DOMAIN odd}
           IN  {c} \cup Variants(CommonOdd) \cup Variants(PayloadOdd[t]) : t \in Types}

-------------------------------------------------------------------------------
ContractInit ==
    /\ device = [rec |-> createEmptyProgress("plain"), own |-> TRUE]
    /\ name \in {"plain"} \cup (IF InputsFit THEN {} ELSE {"long"})
    /\ legacy \in {None, PlainRecord} \cup (IF InputsFit THEN {} ELSE {r \in Records : validateProgress(r)})
    /\ stream = <<>> /\ steps = 0

Step == steps < MaxSteps /\ steps' = steps + 1

Edits(p) ==
    /\ Step /\ device' = [device EXCEPT !.rec = p]
    /\ UNCHANGED <<name, legacy, stream>>

\* rename trims; nothing left is "Explorer".
rename ==
    \E n \in {"plain", "padded", "blank", "control"} \cup (IF InputsFit THEN {} ELSE {"long"}) :
      Edits([device.rec EXCEPT !.name = IF n \in {"padded", "blank"} THEN "plain" ELSE n,
                               !.updated = "exact"])

recordResult ==
    Edits([device.rec EXCEPT !.lists = "distinct", !.attempts = @ \cup {Attempt("device")},
                             !.updated = "exact"])

\* submit: the references and the reflection are trimmed and not empty.
submit ==
    \E refs \in {"distinct"} \cup (IF InputsFit THEN {} ELSE {"repeated"}),
       reflection \in {"plain", "control"} \cup (IF InputsFit THEN {} ELSE {"long"}) :
      Edits([device.rec EXCEPT !.lists = "distinct",
                               !.capstones = @ \cup {Capstone(refs, reflection)},
                               !.badges = @ \cup {Badge}, !.updated = "exact"])

recordVisit ==
    Edits([device.rec EXCEPT !.lists = "distinct", !.recent = Visit, !.updated = "exact"])

\* importRecord: a file of at most 1 MB that was made elsewhere; the page says what is
\* wrong with another one, and changes nothing.
importRecord ==
    \E p \in Records :
      LET f == buildPortableLearnerRecord(p) IN
      /\ p.size = "few" /\ validatePortableLearnerRecord(f)
      /\ Step /\ device' = [rec |-> p, own |-> FALSE]
      /\ UNCHANGED <<name, legacy, stream>>

reset ==
    /\ Step /\ device' = [rec |-> createEmptyProgress("plain"), own |-> TRUE]
    /\ UNCHANGED <<name, legacy, stream>>

\* The next visit of a browser that is not signed in: a record that is not valid is put
\* aside.
readDeviceLocalProgress ==
    /\ device' = IF validatePortableLearnerRecord(buildPortableLearnerRecord(device.rec))
                 THEN device ELSE [rec |-> createEmptyProgress("plain"), own |-> TRUE]
    /\ UNCHANGED <<name, legacy, stream, steps>>

\* A save that is refused changes nothing.
putProgress ==
    \E source \in PROGRESS_IMPORT_SOURCES :
      /\ Step /\ Saves(device.rec, source)
      /\ stream' = Append(stream, commandToEvent(
                     [Command("import", Access("here", "learner", Learner, {"self"}), device.rec)
                        EXCEPT !.source = source], Len(stream) + 1))
      /\ legacy' = None
      /\ UNCHANGED <<device, name>>

\* planAccountProgressHydration: the account's record, united with local evidence.
getProgress ==
    LET account == progressEnvelopeFromProjection(Migrated)
        local == device.rec
    IN
    /\ Answers
    /\ stream' = Migrated /\ legacy' = IF stream = <<>> THEN None ELSE legacy
    /\ device' =
         IF ~hasLearningEvidence(local) THEN [rec |-> account, own |-> TRUE]
         ELSE [device EXCEPT
                 !.rec = [local EXCEPT
                            !.name = account.name,
                            !.lists = IF account.lists = "distinct" /\ @ = "empty"
                                      THEN "distinct" ELSE @,
                            !.attempts = @ \cup account.attempts,
                            !.capstones = @ \cup account.capstones,
                            !.badges = @ \cup account.badges,
                            !.recent = IF account.recent # None /\ @ = None
                                       THEN account.recent ELSE @]]
    /\ UNCHANGED <<name, steps>>

\* A command that another part of the installation executes; one for another installation
\* goes to another stream.
execute ==
    \E a \in Accesses : \E c \in Commands(a) :
      /\ Step /\ Executes(c, a) /\ c.inst = "here"
      /\ stream' = Append(stream, commandToEvent(c, Len(stream) + 1))
      /\ UNCHANGED <<device, name, legacy>>

ContractNext ==
    \/ rename \/ recordResult \/ submit \/ recordVisit \/ importRecord \/ reset
    \/ readDeviceLocalProgress \/ putProgress \/ getProgress \/ execute

ContractSpec == ContractInit /\ [][ContractNext]_contractVars

-------------------------------------------------------------------------------
\* Whatever commands and saves were let in, none of them another learner's, the stream can be
\* read, and the record that the account then answers with is one it takes back and one that
\* a portable file can carry.
AnswersCanBeSaved ==
    LET account == progressEnvelopeFromProjection(Migrated) IN
    /\ Answers
    /\ account.size = "few" => Saves(account, "account-backed-v1")
    /\ account.size = "few" => validatePortableLearnerRecord(buildPortableLearnerRecord(account))
    /\ \A i \in DOMAIN stream : stream[i].cmd.actor.user # "bob"

\* What the application itself has made it can keep: its record passes the route and the
\* contract, survives a reload of the device, and restores from its own download.
OwnRecordsAreAccepted ==
    device.own =>
        /\ Saves(device.rec, "account-backed-v1")
        /\ validatePortableLearnerRecord(buildPortableLearnerRecord(device.rec))
===============================================================================
