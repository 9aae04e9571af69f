---------------------------- MODULE ProgressRecord ----------------------------
(***************************************************************************)
(* What a learner's record holds and how two copies of it become one:      *)
(* src/progress.ts (recording, merging, resuming), the reconciliation      *)
(* preview of web/app/lib/progressMigration.ts, the portable file of       *)
(* src/portable-record.ts and the check of a stored record in              *)
(* web/app/lib/deviceLocalProgress.ts.  When a copy is read, saved or lost *)
(* is the business of ProgressSync; here every exchange is one step.       *)
(*                                                                         *)
(* Scores are passed or not, names and texts are left out.  A list whose   *)
(* order nothing depends on is a set.                                      *)
(***************************************************************************)
EXTENDS Naturals, FiniteSets, Sequences, SequencesExt

CONSTANTS
    Devices,
    Catalogues,      \* the released catalogues, in their order: one for every moment
    SameIds,         \* whether two devices may give one id to two attempts: ids made of
                     \* module and millisecond, where there is no crypto.randomUUID
    None,
    MaxWork          \* how often something is recorded or imported

VARIABLES
    moment,          \* what counts as one time; its catalogue is in use
    work,
    rec              \* the record of each device, and of the account

recordVars == <<moment, work, rec>>

Holders == Devices \cup {"account"}

(* A catalogue: `paths' a sequence of [id, modules], `capstones' a set of modules. *)
cat == Catalogues[moment]
PathsOf(c) == Range(c.paths)
PathIds(c) == {p.id : p \in PathsOf(c)}
ModulesOf(c) == UNION {Range(p.modules) : p \in PathsOf(c)}
Offered(c) == {<<p.id, m>> : p \in PathsOf(c), m \in ModulesOf(c)}
              \cap UNION {{p.id} \X Range(p.modules) : p \in PathsOf(c)}

-------------------------------------------------------------------------------
createEmptyProgress ==
    [started |-> {}, completed |-> {}, attempts |-> <<>>, capstones |-> <<>>,
     badges |-> {}, recent |-> None, updated |-> 0]

hasLearningEvidence(p) ==
    \/ p.started # {} \/ p.completed # {} \/ p.badges # {} \/ p.recent # None
    \/ p.attempts # <<>> \/ p.capstones # <<>>

Latest(a, b) == IF a >= b THEN a ELSE b
Earliest(a, b) == IF a <= b THEN a ELSE b

\* The sorts by completedAt and submittedAt, which keep the order of equal times.
ByTime(evidence) ==
    LET Until[t \in 0..Len(Catalogues)] ==
          IF t = 0 THEN <<>> ELSE Until[t - 1] \o SelectSeq(evidence, LAMBDA x : x.at = t)
    IN  Until[Len(Catalogues)]

\* The first record with this id, as a sequence of at most one.
FindId(evidence, id) ==
    LET same == SelectSeq(evidence, LAMBDA x : x.id = id)
    IN  IF same = <<>> THEN <<>> ELSE <<Head(same)>>

\* `${sourceRecordPrefix}:${id}'
Prefixed(x) == [x EXCEPT !.id.prefixes = @ + 1]

\* Mutant: a record with an id that is taken is dropped, whatever it says.
MergedEvidence_ById(ours, theirs) ==
    ByTime(ours \o SelectSeq(theirs, LAMBDA x : FindId(ours, x.id) = <<>>))

\* Attempts and submissions: the same record is kept once, another one under its id gets a
\* prefix.
MergedEvidence(ours, theirs) ==
    LET Take(acc, x) ==
          IF x.id \notin acc.ids
          THEN [ids |-> acc.ids \cup {x.id}, kept |-> Append(acc.kept, x)]
          ELSE IF FindId(ours, x.id) = <<x>> THEN acc
          ELSE [ids |-> acc.ids \cup {Prefixed(x).id}, kept |-> Append(acc.kept, Prefixed(x))]
        Taken[i \in 0..Len(theirs)] ==
          IF i = 0 THEN [ids |-> {x.id : x \in Range(ours)}, kept |-> ours]
          ELSE Take(Taken[i - 1], theirs[i])
    IN  ByTime(Taken[Len(theirs)].kept)

\* A badge that both hold is as old as the older one and rests on the evidence of both.
MergedBadges(ours, theirs) ==
    LET Badge(id) ==
          LET both == {b \in ours \cup theirs : b.id = id}
          IN  [id |-> id,
               at |-> CHOOSE t \in {b.at : b \in both} : \A b \in both : t <= b.at,
               evidence |-> UNION {b.evidence : b \in both}]
    IN  {Badge(id) : id \in {b.id : b \in ours \cup theirs}}

\* The later visit; of two at one moment the first.
LatestVisit(first, second) ==
    IF first = None THEN second
    ELSE IF second = None \/ second.at <= first.at THEN first ELSE second

mergeLearnerProgress(survivor, source) ==
    [started |-> survivor.started \cup source.started,
     completed |-> survivor.completed \cup source.completed,
     attempts |-> MergedEvidence(survivor.attempts, source.attempts),
     capstones |-> MergedEvidence(survivor.capstones, source.capstones),
     badges |-> MergedBadges(survivor.badges, source.badges),
     recent |-> LatestVisit(survivor.recent, source.recent),
     updated |-> Latest(survivor.updated, source.updated)]

\* planAccountProgressHydration: what a read of the account makes of the local record.
planAccountProgressHydration(account, local) ==
    IF hasLearningEvidence(local) THEN mergeLearnerProgress(account, local) ELSE account

-------------------------------------------------------------------------------
(* Recording.                                                              *)

Passed(evidence, module) == \E x \in Range(evidence) : x.module = module /\ x.passed

\* deriveBadges: the badge of a path, once all its modules are completed.
deriveBadges(c, completed, existing, at) ==
    existing \cup
      {[id |-> p.id, at |-> at, evidence |-> Range(p.modules)] :
         p \in {q \in PathsOf(c) : /\ Range(q.modules) \subseteq completed
                                   /\ \A b \in existing : b.id # q.id}}

\* Mutant: a passed check completes a module that asks for a capstone.
recordAssessmentAttempt_CheckSuffices(p, c, x) ==
    LET completed == p.completed \cup (IF x.passed THEN {x.module} ELSE {}) IN
    [p EXCEPT !.started = @ \cup {x.path}, !.attempts = Append(@, x),
              !.completed = completed, !.badges = deriveBadges(c, completed, @, x.at),
              !.updated = x.at]

\* An attempt whose id the record has already changes nothing.
recordAssessmentAttempt(p, c, x) ==
    LET completes == x.passed /\ (x.module \in c.capstones => Passed(p.capstones, x.module))
        completed == p.completed \cup (IF completes THEN {x.module} ELSE {})
    IN
    IF FindId(p.attempts, x.id) # <<>> THEN p
    ELSE [p EXCEPT !.started = @ \cup {x.path}, !.attempts = Append(@, x),
                   !.completed = completed, !.badges = deriveBadges(c, completed, @, x.at),
                   !.updated = x.at]

\* The assessments a criterion of a submission may name as its evidence.
AssessmentRefs(p, path, module) ==
    {x.id : x \in {y \in Range(p.attempts) : y.path = path /\ y.module = module}}

recordCapstoneSubmission(p, c, x) ==
    LET completes == x.passed /\ Passed(p.attempts, x.module)
        completed == p.completed \cup (IF completes THEN {x.module} ELSE {})
    IN
    IF FindId(p.capstones, x.id) # <<>> THEN p
    ELSE [p EXCEPT !.started = @ \cup {x.path}, !.capstones = Append(@, x),
                   !.completed = completed, !.badges = deriveBadges(c, completed, @, x.at),
                   !.updated = x.at]

recordModuleVisit(p, path, module, at) ==
    [p EXCEPT !.started = @ \cup {path},
              !.recent = [path |-> path, module |-> module, at |-> at],
              !.updated = at]

\* Where "Continue" leads: the module last visited or, if it is completed, the next one of
\* the path that is not, or else the first one.
selectResumeTarget(p, c) ==
    LET known == {q \in PathsOf(c) : p.recent # None /\ q.id = p.recent.path
                                     /\ p.recent.module \in Range(q.modules)}
        path == CHOOSE q \in known : TRUE
        n == Len(path.modules)
        position == CHOOSE i \in 1..n : path.modules[i] = p.recent.module
        Open(from) == SelectSeq(SubSeq(path.modules, from, n), LAMBDA m : m \notin p.completed)
    IN  IF known = {} THEN None
        ELSE IF p.recent.module \notin p.completed THEN p.recent.module
        ELSE IF Open(position + 1) # <<>> THEN Head(Open(position + 1))
        ELSE IF Open(1) # <<>> THEN Head(Open(1))
        ELSE None

\* buildTranscript: of each path how many modules are completed, of how many, and the best
\* score.
buildTranscript(c, p) ==
    [id \in PathIds(c) |->
       LET path == CHOOSE q \in PathsOf(c) : q.id = id
           tried == {x \in Range(p.attempts) : x.path = id}
       IN  [completed |-> Cardinality(Range(path.modules) \cap p.completed),
            total |-> Len(path.modules),
            best |-> IF tried = {} THEN None ELSE \E x \in tried : x.passed]]

-------------------------------------------------------------------------------
(* The preview of a reconciliation.                                        *)

\* mergeImmutableRecords: the account's record stands, and the browser's other one under
\* the same id is a conflict.
mergeImmutableRecords(local, remote) ==
    LET new == SelectSeq(local, LAMBDA x : FindId(remote, x.id) = <<>>)
        taken == SelectSeq(local, LAMBDA x : FindId(remote, x.id) # <<>>)
    IN  [records |-> ByTime(remote \o new),
         duplicates |-> Len(SelectSeq(taken, LAMBDA x : FindId(remote, x.id) = <<x>>)),
         conflicts |-> {x.id : x \in {y \in Range(taken) : FindId(remote, y.id) # <<y>>}}]

counts(p) ==
    [attempts |-> Len(p.attempts), capstones |-> Len(p.capstones),
     badges |-> Cardinality(p.badges), completed |-> Cardinality(p.completed),
     started |-> Cardinality(p.started)]

additions(local, remote) ==
    LET New(mine, theirs) == Len(SelectSeq(mine, LAMBDA x : FindId(theirs, x.id) = <<>>)) IN
    [attempts |-> New(local.attempts, remote.attempts),
     capstones |-> New(local.capstones, remote.capstones),
     badges |-> Cardinality({b \in local.badges : \A c \in remote.badges : c.id # b.id}),
     completed |-> Cardinality(local.completed \ remote.completed),
     started |-> Cardinality(local.started \ remote.started)]

\* immutableDisposition and its counterpart for badges.
Disposition(mutable, x, remote) ==
    LET existing == {y \in remote : y.id = x.id}
    IN  IF existing = {} THEN "will-add"
        ELSE IF x \in existing THEN "already-in-account"
        ELSE IF mutable THEN "will-merge" ELSE "conflict"

\* buildProgressMigrationItems: what the learner is told of each item of the local record.
buildProgressMigrationItems(local, remote) ==
    {<<"attempt", x.id, Disposition(FALSE, x, Range(remote.attempts))>> : x \in Range(local.attempts)}
    \cup {<<"capstone", x.id, Disposition(FALSE, x, Range(remote.capstones))>> :
            x \in Range(local.capstones)}
    \cup {<<"badge", b.id, Disposition(TRUE, b, remote.badges)>> : b \in local.badges}
    \cup {<<"module", m, IF m \in remote.completed THEN "already-in-account" ELSE "will-add">> :
            m \in local.completed}

createProgressMigrationPreview(local, remote) ==
    LET attempts == mergeImmutableRecords(local.attempts, remote.attempts)
        capstones == mergeImmutableRecords(local.capstones, remote.capstones)
        merged ==
          [started |-> remote.started \cup local.started,
           completed |-> remote.completed \cup local.completed,
           attempts |-> attempts.records,
           capstones |-> capstones.records,
           badges |-> MergedBadges(remote.badges, local.badges),
           recent |-> LatestVisit(remote.recent, local.recent),
           updated |-> Latest(remote.updated, local.updated)]
    IN  [conflicts |-> attempts.conflicts \cup capstones.conflicts,
         duplicates |-> attempts.duplicates + capstones.duplicates,
         merged |-> merged,
         requiresMigration |-> merged # remote]

needsProgressMigration(preview) == preview.conflicts # {} \/ preview.requiresMigration

\* parseProgressMigrationRecovery: a stored envelope counts only if its merge is the one
\* that its two records make; the import id is the digest of the local record.
Envelope(local, remote) ==
    [id |-> local, local |-> local, remote |-> remote,
     merged |-> createProgressMigrationPreview(local, remote).merged]

-------------------------------------------------------------------------------
(* The portable file.                                                      *)

\* moduleToPath: of several paths with a module the last one stands.
moduleToPath(c, module) ==
    LET holding == {i \in DOMAIN c.paths : module \in Range(c.paths[i].modules)}
    IN  IF holding = {} THEN None
        ELSE c.paths[CHOOSE i \in holding : \A j \in holding : j <= i].id

UniqueIds(evidence) == Cardinality({x.id : x \in Range(evidence)}) = Len(evidence)

\* isLearnerProgress: no id twice in a list.
isLearnerProgress(p) ==
    /\ UniqueIds(p.attempts) /\ UniqueIds(p.capstones)
    /\ Cardinality({b.id : b \in p.badges}) = Cardinality(p.badges)

\* restorePortableLearnerRecord: everything named is in the catalogue, and under the path
\* that its module belongs to.
Restorable(p, c) ==
    /\ isLearnerProgress(p)
    /\ p.started \subseteq PathIds(c)
    /\ \A m \in p.completed : moduleToPath(c, m) # None
    /\ \A x \in Range(p.attempts) : moduleToPath(c, x.module) = x.path
    /\ \A x \in Range(p.capstones) :
         /\ moduleToPath(c, x.module) = x.path
         /\ x.module \in c.capstones
         /\ x.evidence = None \/ x.evidence \in AssessmentRefs(p, x.path, x.module)
    /\ p.recent # None => moduleToPath(c, p.recent.module) = p.recent.path

\* validateDeviceLocalProgressValue: the badges are looked at as well.
ValidOnDevice(p, c) ==
    /\ Restorable(p, c)
    /\ \A b \in p.badges : b.id \in PathIds(c) /\ b.evidence \subseteq ModulesOf(c)

parseProgressMigrationRecovery(e, c) ==
    /\ ValidOnDevice(e.local, c) /\ ValidOnDevice(e.remote, c) /\ ValidOnDevice(e.merged, c)
    /\ e.merged = createProgressMigrationPreview(e.local, e.remote).merged
    /\ e.id = e.local

-------------------------------------------------------------------------------
RecordInit ==
    /\ moment = 1 /\ work = 0
    /\ rec = [h \in Holders |-> createEmptyProgress]

NewId(module) ==
    [module |-> module, at |-> moment, uuid |-> IF SameIds THEN 0 ELSE work + 1, prefixes |-> 0]

Works(d, p) ==
    /\ work < MaxWork /\ work' = work + 1
    /\ rec' = [rec EXCEPT ![d] = p]
    /\ UNCHANGED moment

recordResult(d) ==
    \E o \in Offered(cat), passed \in BOOLEAN :
      Works(d, recordAssessmentAttempt(rec[d], cat,
                 [id |-> NewId(o[2]), path |-> o[1], module |-> o[2], passed |-> passed,
                  at |-> moment]))

\* The evidence of the one criterion: an artifact (None) or an assessment of the module.
recordCapstone(d) ==
    \E o \in Offered(cat), passed \in BOOLEAN :
      /\ o[2] \in cat.capstones
      /\ \E ref \in {None} \cup AssessmentRefs(rec[d], o[1], o[2]) :
           Works(d, recordCapstoneSubmission(rec[d], cat,
                      [id |-> NewId(o[2]), path |-> o[1], module |-> o[2],
                       passed |-> passed, at |-> moment, evidence |-> ref]))

recordVisit(d) ==
    \E o \in Offered(cat) : Works(d, recordModuleVisit(rec[d], o[1], o[2], moment))

\* A read of the account, and the save that follows it.
Synchronise(d) ==
    LET both == planAccountProgressHydration(rec["account"], rec[d]) IN
    /\ rec' = [rec EXCEPT ![d] = both, !["account"] = both]
    /\ UNCHANGED <<moment, work>>

\* A preview without conflicts is imported.
Reconcile(d) ==
    LET preview == createProgressMigrationPreview(rec[d], rec["account"]) IN
    /\ preview.conflicts = {} /\ preview.requiresMigration
    /\ rec' = [rec EXCEPT !["account"] = preview.merged]
    /\ UNCHANGED <<moment, work>>

\* downloadRecord on one device and importRecord on another, which replaces the record
\* there; the transcript in the file is not read again.
importRecord(d) ==
    \E e \in Devices \ {d} : Restorable(rec[e], cat) /\ Works(d, rec[e])

\* readDeviceLocalProgress at the next visit: a record that is not valid is put aside.
readDeviceLocalProgress(d) ==
    /\ rec' = [rec EXCEPT ![d] = IF ValidOnDevice(@, cat) THEN @ ELSE createEmptyProgress]
    /\ UNCHANGED <<moment, work>>

Later ==
    /\ moment < Len(Catalogues) /\ moment' = moment + 1
    /\ UNCHANGED <<work, rec>>

RecordNext ==
    \/ \E d \in Devices :
         recordResult(d) \/ recordCapstone(d) \/ recordVisit(d) \/ Synchronise(d)
         \/ Reconcile(d) \/ importRecord(d) \/ readDeviceLocalProgress(d)
    \/ Later

RecordSpec == RecordInit /\ [][RecordNext]_recordVars

-------------------------------------------------------------------------------
RecordTypeOK ==
    /\ moment \in DOMAIN Catalogues /\ work \in 0..MaxWork
    /\ \A h \in Holders : rec[h].completed \subseteq UNION {ModulesOf(c) : c \in Range(Catalogues)}

\* A completed module has its passed check and, if it asks for one, its passed capstone,
\* through every merge and restore; and a badge rests on completed modules.
CompletionIsEarned ==
    \A h \in Holders :
        /\ \A m \in rec[h].completed :
             /\ Passed(rec[h].attempts, m)
             /\ m \in cat.capstones => Passed(rec[h].capstones, m)
        /\ \A b \in rec[h].badges : b.evidence # {} /\ b.evidence \subseteq rec[h].completed

WithoutId(x) == [x EXCEPT !.id = None]

\* All that `part' holds is in `whole': evidence under its id or a prefixed one, badges not
\* later than before, and a place that is not older.
Holds(whole, part) ==
    /\ part.started \subseteq whole.started /\ part.completed \subseteq whole.completed
    /\ \A x \in Range(part.attempts) : \E y \in Range(whole.attempts) : WithoutId(x) = WithoutId(y)
    /\ \A x \in Range(part.capstones) : \E y \in Range(whole.capstones) : WithoutId(x) = WithoutId(y)
    /\ \A b \in part.badges : \E c \in whole.badges :
         c.id = b.id /\ c.at <= b.at /\ b.evidence \subseteq c.evidence
    /\ part.recent # None => whole.recent # None /\ whole.recent.at >= part.recent.at
    /\ part.updated <= whole.updated

\* Uniting the copies of two devices loses nothing of either, invents nothing, and doing it
\* again with one of them changes nothing.
MergeLosesNothing ==
    \A d \in Devices :
        LET account == rec["account"]
            both == mergeLearnerProgress(account, rec[d])
        IN
        /\ Holds(both, account) /\ Holds(both, rec[d])
        /\ \A x \in Range(both.attempts) :
             \E y \in Range(account.attempts) \cup Range(rec[d].attempts) :
               WithoutId(x) = WithoutId(y)
        /\ mergeLearnerProgress(both, account) = both
        /\ ~SameIds => mergeLearnerProgress(both, rec[d]) = both
        /\ \A id \in PathIds(cat) :
             LET row == buildTranscript(cat, both)[id] IN
             /\ row.completed <= row.total
             /\ row.completed >= buildTranscript(cat, rec[d])[id].completed

\* The preview says what the import does: its counts add up, each conflict and only those is
\* shown as one, nothing of the account is lost, the stored envelope is recognised after a
\* reload, and after the import there is nothing left to migrate.
PreviewIsHonest ==
    \A d \in Devices :
        LET local == rec[d]
            remote == rec["account"]
            preview == createProgressMigrationPreview(local, remote)
            new == additions(local, remote)
            items == buildProgressMigrationItems(local, remote)
        IN
        /\ \A f \in {"attempts", "capstones", "badges", "completed", "started"} :
             counts(preview.merged)[f] = counts(remote)[f] + new[f]
        /\ {i[2] : i \in {j \in items : j[3] = "conflict"}} = preview.conflicts
        /\ Holds(preview.merged, remote)
        /\ preview.conflicts = {} =>
             /\ Holds(preview.merged, local)
             /\ ~needsProgressMigration(createProgressMigrationPreview(local, preview.merged))
        /\ ValidOnDevice(local, cat) /\ ValidOnDevice(remote, cat) =>
             parseProgressMigrationRecovery(Envelope(local, remote), cat)

\* "Continue" leads to a module of the path last visited that is not completed, and nowhere
\* only if there is none.
ResumeLeadsOn ==
    \A h \in Holders : rec[h].recent # None =>
        LET target == selectResumeTarget(rec[h], cat)
            path == CHOOSE q \in PathsOf(cat) : q.id = rec[h].recent.path
            open == Range(path.modules) \ rec[h].completed
        IN  IF open = {} THEN target = None
            ELSE /\ target \in open
                 /\ rec[h].recent.module \in open => target = rec[h].recent.module

\* What the program has recorded or merged it can restore, in this release and the later
\* ones: portable records restore as long as the ids they name exist.
RestoresWhileIdsExist == \A h \in Holders : Restorable(rec[h], cat) /\ ValidOnDevice(rec[h], cat)
===============================================================================
