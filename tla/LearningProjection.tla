------------------------- MODULE LearningProjection -------------------------
(***************************************************************************)
(* What projectLearningEvents makes of a learner's event stream            *)
(* (src/learning-event-engine.ts).  The code folds the events in sequence  *)
(* order into maps that every "progress.imported" event clears; here the   *)
(* contents of those maps are written as sets over the positions of the    *)
(* stream, so that no recursion is needed.                                 *)
(*                                                                         *)
(* An entry of the stream is [cmd, by]: the command it was made from and   *)
(* the request whose append token it carries.  A command is                *)
(*   type    the LearningCommand type;                                     *)
(*   key     the idempotency key;                                          *)
(*   path    path id and content version together (versionedPathKey);      *)
(*   module  the module it is about;                                       *)
(*   item    what is unique about the payload, a set: the modules of an    *)
(*           enrolment, or one attempt id, correction id or snapshot;      *)
(*   ref     the attempt a correction is about;                            *)
(*   source  the source of an import;                                      *)
(*   at      occurredAt, which for an import is also synchronizedAt.       *)
(* Two commands have one digest exactly when they are equal.               *)
(***************************************************************************)
EXTENDS Integers, Sequences, FiniteSets

CommandTypes == {"enroll", "visit", "record", "complete", "correct", "import"}

Entry(c, r) == [cmd |-> c, by |-> r]

\* The commands of a stream, and the positions of a given type.
At(s, i) == s[i].cmd
OfType(s, t) == {i \in DOMAIN s : At(s, i).type = t}

\* The positions whose effect the maps still hold when position i is applied:
\* an import clears the enrolments, modules, attempts and correction ids.
Window(s, i) == {j \in 1..(i - 1) : \A k \in j..(i - 1) : At(s, k).type # "import"}
InWindow(s, i, t) == {j \in Window(s, i) : At(s, j).type = t}

\* requireEnrolledModule: the path is enrolled and lists the module.
EnrolledModule(s, i) ==
  \E j \in InWindow(s, i, "enroll") :
    At(s, j).path = At(s, i).path /\ At(s, i).module \in At(s, j).item

\* Mutant: a path may be redefined.
SameDefinition_Any(s, i) == TRUE

\* applyEnrollment: a path may not be redefined; the date is part of it.
SameDefinition(s, i) ==
  \A j \in InWindow(s, i, "enroll") :
    At(s, j).path = At(s, i).path =>
      At(s, j).item = At(s, i).item /\ At(s, j).at = At(s, i).at

\* applyAssessment: an attempt id is new.
NewAttempt(s, i) ==
  \A j \in InWindow(s, i, "record") : At(s, j).item # At(s, i).item

\* applyCorrection: the attempt exists in the same versions, the id is new.
SoundCorrection(s, i) ==
  /\ \E j \in InWindow(s, i, "record") :
       At(s, j).item = At(s, i).ref /\ At(s, j).path = At(s, i).path
  /\ \A j \in InWindow(s, i, "correct") : At(s, j).item # At(s, i).item

\* Whether applyEvent accepts the event at position i.
Applies(s, i) ==
  LET t == At(s, i).type IN
  /\ t = "enroll" => SameDefinition(s, i)
  /\ t \in {"visit", "record", "complete"} => EnrolledModule(s, i)
  /\ t = "record" => NewAttempt(s, i)
  /\ t = "correct" => SoundCorrection(s, i)

\* projectLearningEvents returns instead of throwing.
Projectable(s) == \A i \in DOMAIN s : Applies(s, i)

\* The last import, if there is one: .filter(...).at(-1).
LatestImport(s) ==
  {i \in OfType(s, "import") : \A j \in OfType(s, "import") : j <= i}

\* What the projection shows of the events since the last import.
Since(s) == Window(s, Len(s) + 1)
Enrollments(s) == {At(s, i).path : i \in Since(s) \cap OfType(s, "enroll")}
Completed(s) ==
  {<<At(s, i).path, At(s, i).module>> : i \in Since(s) \cap OfType(s, "complete")}

\* deriveBadge: every module of the enrolment is completed.
Badges(s) ==
  {p \in Enrollments(s) :
     \A i \in Since(s) \cap OfType(s, "enroll") :
       At(s, i).path = p =>
         \A m \in At(s, i).item : <<p, m>> \in Completed(s)}

\* The entries with a given idempotency key (findByIdempotencyKey).
WithKey(s, k) == {i \in DOMAIN s : At(s, i).key = k}

\* throwDuplicateEvidence, and the unique indexes on attempt and correction
\* ids: they look at the whole stream, imports or not.
DuplicateEvidence(s, c) ==
  /\ c.type \in {"record", "correct"}
  /\ \E i \in OfType(s, c.type) : At(s, i).item = c.item
=============================================================================
