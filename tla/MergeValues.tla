----------------------------- MODULE MergeValues -----------------------------
(***************************************************************************)
(* What a merge of two accounts does to their rows: the conflicts and      *)
(* policy blocks of the preview, the owner's resolutions, and the values,  *)
(* roles and records of the survivor (buildAccountMergeConflicts,          *)
(* buildAccountMergePolicyBlocks, validateMergeResolutions,                *)
(* selectMergeValue, buildStructuredMergeStatements and the rows bound by  *)
(* completeAccountMerge in src/worker.ts).  AccountMerge models the same   *)
(* operations with the rows reduced to versions; here one case is kept and *)
(* the rows are spelled out.                                               *)
(*                                                                         *)
(* An account is a record with one column of each kind:                    *)
(*   mail, verified  a column of the users row that may be NULL;           *)
(*   profile         whether there is a user_profiles row; its columns are *)
(*                   bio (may be NULL), motion (NOT NULL DEFAULT 0) and    *)
(*                   photo (an object key of the account, or NULL);        *)
(*   owner           whether the role is assigned;                         *)
(*   consents        decisions on the one required purpose;                *)
(*   held            whether a governance constraint is active;            *)
(*   module, badge, transcript   one row of each table, or NoRow;          *)
(*   attempts        assessment attempts (and progress imports) by id.     *)
(***************************************************************************)
EXTENDS Integers, FiniteSets, FiniteSetsExt

CONSTANTS
  Starts,     \* the pairs of accounts a behaviour may begin with
  Absent,     \* NULL, a missing column or an empty string
  NoRow,      \* no row
  MaxEdits,   \* changes of the accounts by their learners
  Overlap     \* TRUE when another merge may run between a completion's reads and batch

VARIABLES
  src, sur,   \* the rows of the source and of the survivor
  others,     \* whether a third account has the owner role
  case,       \* account_merge_cases, this merge
  call,       \* the completion under way: what it has read and been asked for
  edits

valueVars == <<src, sur, others, case, call, edits>>

Keys == {"mail", "bio", "motion", "photo", "owner"}
Sides == {"source", "survivor"}
Resolutions == UNION {[S -> Sides] : S \in SUBSET Keys}

\* The rows that a behaviour begins with.  What is written of a module is completed with a
\* time or visited without one; a transcript has no more done than there is; the attempts of
\* an account that nobody was merged into have ids without a prefix.
ModuleFits(r) ==
  r # NoRow => /\ r.status \in {"visited", "completed"} /\ r.first \in Nat /\ r.updated \in Nat
               /\ r.completed \in Nat \cup {Absent}
               /\ r.status = "completed" <=> r.completed # Absent

TranscriptFits(r) ==
  r # NoRow => r.done \in Nat /\ r.total \in Nat /\ r.done <= r.total

AttemptsFit(S) == IsFiniteSet(S) /\ \A t \in S : t = [id |-> t.id, prefixed |-> FALSE]

Columns == {"mail", "verified", "profile", "bio", "motion", "photo", "owner", "held", "module",
            "badge", "transcript", "attempts", "consents"}

AccountRows(a) ==
  /\ a = [k \in Columns |-> a[k]]
  /\ a.verified \in BOOLEAN /\ a.profile \in BOOLEAN /\ a.owner \in BOOLEAN
  /\ a.held \in BOOLEAN /\ a.motion \in {0, 1}
  /\ \A c \in a.consents : c.at \in Nat
  /\ ModuleFits(a.module) /\ TranscriptFits(a.transcript) /\ AttemptsFit(a.attempts)

ValuesConstants ==
  /\ Absent \notin Nat /\ NoRow = Absent
  /\ \A p \in Starts : AccountRows(p[1]) /\ AccountRows(p[2])

Required == 1        \* requiredMergeConsents: the policy version of the one purpose
NoCase == [status |-> "none", conflicts |-> {}, blocks |-> {}, digest |-> <<>>, was |-> <<>>]
NoCall == [pc |-> "idle", choice |-> <<>>]

-----------------------------------------------------------------------------
Present(v) == v # Absent

\* sourceProfile?.[column]: undefined without the row
Column(a, k) ==
  IF k \in {"bio", "motion", "photo"} /\ ~a.profile THEN Absent ELSE a[k]

\* addValueConflict and hasRole in buildAccountMergeConflicts
Conflicts(s, v) ==
  {k \in Keys \ {"owner"} : /\ Present(Column(s, k)) /\ Present(Column(v, k))
                            /\ Column(s, k) # Column(v, k)}
  \cup {k \in {"owner"} : s.owner # v.owner}

\* The newest decisions on the purpose, of which there may be several at one moment.
Current(a) == {c \in a.consents : \A d \in a.consents : d.at <= c.at}

ConsentBlock(a) ==
  CASE Current(a) = {} -> {"required-consent-missing"}
    [] \E c \in Current(a) : c.version = Required /\ c.decision = "withdrawn" ->
         {"required-consent-withdrawn"}
    [] (\A c \in Current(a) : c.version = Required => c.decision # "withdrawn")
       /\ (\E c \in Current(a) : c.version # Required) ->
         {"required-consent-version-mismatch"}
    [] OTHER -> {}

\* buildAccountMergePolicyBlocks
PolicyBlocks(s, v) ==
  UNION {{<<a, r>> : r \in ConsentBlock(IF a = "source" THEN s ELSE v)
                           \cup {h \in {"legal-hold-active"} :
                                   IF a = "source" THEN s.held ELSE v.held}} : a \in Sides}

\* validateMergeResolutions: every conflict is decided and nothing else is.
ResolutionsFit(conflicts, choice) == DOMAIN choice = conflicts

SelectMergeValue(k, s, v, choice) ==
  CASE ~Present(s) -> v
    [] Present(s) /\ ~Present(v) -> s
    [] OTHER -> IF s = v \/ k \notin DOMAIN choice \/ choice[k] = "survivor" THEN v ELSE s

\* The NOT NULL columns fall back to their default before the values are compared.
WithDefault(a, k) ==
  IF Column(a, k) = Absent /\ k = "motion" THEN 0 ELSE Column(a, k)

\* The photo is taken from the one profile that is chosen, by default the survivor's.
SelectedPhoto(s, v, choice) ==
  LET side == IF "photo" \in DOMAIN choice THEN choice["photo"]
              ELSE IF Present(Column(v, "photo")) THEN "survivor" ELSE "source"
  IN Column(IF side = "source" THEN s ELSE v, "photo")

SelectedOwner(s, v, choice) ==
  IF s.owner = v.owner THEN s.owner
  ELSE IF "owner" \in DOMAIN choice /\ choice["owner"] = "source" THEN s.owner ELSE v.owner

SelectedVerified(s, v, mail) ==
  CASE mail = s.mail /\ mail = v.mail -> s.verified \/ v.verified
    [] mail = s.mail /\ mail # v.mail -> s.verified
    [] OTHER -> v.verified

-----------------------------------------------------------------------------
\* The statements of buildStructuredMergeStatements, a table at a time.
Least(a, b) == IF a = Absent THEN b ELSE IF b = Absent THEN a ELSE Min({a, b})
Greatest(a, b) == IF a = Absent THEN b ELSE IF b = Absent THEN a ELSE Max({a, b})

\* Mutant: the survivor's date is kept whenever there is one.
MergeModule_SurvivorFirst(s, v) ==
  IF s = NoRow THEN v ELSE IF v = NoRow THEN s ELSE
  [status |-> IF "completed" \in {s.status, v.status} THEN "completed" ELSE "visited",
   first |-> Min({s.first, v.first}),
   completed |-> IF Present(v.completed) THEN v.completed ELSE s.completed,
   updated |-> Max({s.updated, v.updated})]

MergeModule(s, v) ==
  IF s = NoRow THEN v ELSE IF v = NoRow THEN s ELSE
  [status |-> IF "completed" \in {s.status, v.status} THEN "completed" ELSE "visited",
   first |-> Min({s.first, v.first}), completed |-> Least(s.completed, v.completed),
   updated |-> Max({s.updated, v.updated})]

MergeTranscript(s, v) ==
  IF s = NoRow THEN v ELSE IF v = NoRow THEN s ELSE
  [done |-> Max({s.done, v.done}), total |-> Max({s.total, v.total}),
   best |-> Greatest(s.best, v.best)]

MergeBadge(s, v) ==
  IF s = NoRow THEN v ELSE IF v = NoRow THEN s ELSE
  [earned |-> Min({s.earned, v.earned}), evidence |-> s.evidence \cup v.evidence]

\* An attempt (and an import) of the source whose id the survivor uses gets the source's
\* id as a prefix, then all of them move.
MergeAttempts(s, v) ==
  LET Taken(t) == \E w \in v : w.id = t.id /\ w.prefixed = t.prefixed
  IN v \cup {[t EXCEPT !.prefixed = @ \/ Taken(t)] : t \in s}

\* The rows of the survivor after the batch of completeAccountMerge.
Survivor(s, v, choice) ==
  LET mail == SelectMergeValue("mail", s.mail, v.mail, choice) IN
  [mail |-> mail, verified |-> SelectedVerified(s, v, mail),
   profile |-> TRUE,
   bio |-> SelectMergeValue("bio", Column(s, "bio"), Column(v, "bio"), choice),
   motion |-> SelectMergeValue("motion", WithDefault(s, "motion"),
                               WithDefault(v, "motion"), choice),
   photo |-> SelectedPhoto(s, v, choice),
   owner |-> SelectedOwner(s, v, choice),
   consents |-> s.consents \cup v.consents, held |-> s.held \/ v.held,
   module |-> MergeModule(s.module, v.module), badge |-> MergeBadge(s.badge, v.badge),
   transcript |-> MergeTranscript(s.transcript, v.transcript),
   attempts |-> MergeAttempts(s.attempts, v.attempts)]

\* The source keeps its users row, its identities and nothing else.
Emptied(s) ==
  [s EXCEPT !.profile = FALSE, !.bio = Absent, !.motion = 0, !.photo = Absent, !.owner = FALSE,
            !.consents = {}, !.held = FALSE, !.module = NoRow, !.badge = NoRow,
            !.transcript = NoRow, !.attempts = {}]

-----------------------------------------------------------------------------
ValuesInit ==
  /\ \E p \in Starts : src = p[1] /\ sur = p[2]
  /\ others \in BOOLEAN
  /\ src.owner \/ sur.owner \/ others           \* an owner runs the merge
  /\ case = NoCase /\ call = NoCall /\ edits = 0

\* createAccountMergePreview
Preview ==
  /\ case.status = "none"
  /\ case' = [NoCase EXCEPT !.status = "preview", !.conflicts = Conflicts(src, sur),
                !.blocks = PolicyBlocks(src, sur), !.digest = <<src, sur>>]
  /\ UNCHANGED <<src, sur, others, call, edits>>

\* A learner edits the profile, or decides again on the consent, or a hold is placed.
Edit ==
  /\ case.status = "preview" /\ call.pc = "idle" /\ edits < MaxEdits
  /\ \/ \E v \in {0, 1} : sur' = [sur EXCEPT !.profile = TRUE, !.motion = v]
     \/ \E d \in {"granted", "withdrawn"} :
          sur' = [sur EXCEPT !.consents = @ \cup {[at |-> 3, version |-> Required, decision |-> d]}]
     \/ sur' = [sur EXCEPT !.held = TRUE]
  /\ edits' = edits + 1
  /\ UNCHANGED <<src, others, case, call>>

\* completeAccountMerge up to its batch: the reads and the refusals.
CompleteReads(choice) ==
  /\ case.status = "preview" /\ call.pc = "idle"
  /\ ResolutionsFit(case.conflicts, choice)
  /\ PolicyBlocks(src, sur) = {}
  /\ case.digest = <<src, sur>>
  /\ \/ SelectedOwner(src, sur, choice)
     \/ ~src.owner /\ ~sur.owner
     \/ others
  /\ call' = [pc |-> "batch", choice |-> choice]
  /\ UNCHANGED <<src, sur, others, case, edits>>

\* Another completion takes the owner role from the third account.
OtherMerge ==
  /\ Overlap \/ call.pc = "idle"
  /\ others /\ (src.owner \/ sur.owner)
  /\ others' = FALSE
  /\ UNCHANGED <<src, sur, case, call, edits>>

\* The batch of completeAccountMerge; the snapshot rows keep what was there.
CompleteBatch ==
  /\ call.pc = "batch" /\ case.status = "preview"
  /\ sur' = Survivor(src, sur, call.choice)
  /\ src' = Emptied(src)
  /\ case' = [case EXCEPT !.status = "completed", !.was = <<src, sur>>]
  /\ UNCHANGED <<others, call, edits>>

ValuesNext ==
  \/ Preview \/ Edit \/ OtherMerge \/ CompleteBatch
  \/ \E choice \in Resolutions : CompleteReads(choice)

ValuesSpec == ValuesInit /\ [][ValuesNext]_valueVars

-----------------------------------------------------------------------------
Done == case.status = "completed"
Was(side) == case.was[IF side = "source" THEN 1 ELSE 2]

\* A flag that only one account has ever set is compared with the other's default, which the
\* preview does not show: see the README for what this does to it.
Undecided(k) == k = "motion" /\ Was("source").profile # Was("survivor").profile

\* A value that only one account has is kept, and where both have one the survivor's new value
\* is the one the owner chose in the preview (selectMergeValue).
ValuesAreChosen ==
  Done => \A k \in {"mail", "bio", "motion", "photo"} \ {k \in Keys : Undecided(k)} :
    LET s == Column(Was("source"), k)
        v == Column(Was("survivor"), k)
    IN /\ Present(s) /\ ~Present(v) => sur[k] = s
       /\ Present(v) /\ ~Present(s) => sur[k] = v
       /\ Present(s) /\ Present(v) => sur[k] = IF s = v THEN v
                                                ELSE Column(Was(call.choice[k]), k)

\* An address is called verified only when an account that had this address had verified it.
VerifiedWasVerified ==
  Done /\ sur.verified => \E side \in Sides : Was(side).verified /\ Was(side).mail = sur.mail

\* No record of either account is lost or weakened (buildStructuredMergeStatements).
RecordsAreKept ==
  Done => \A side \in Sides :
    LET w == Was(side) IN
    /\ w.module # NoRow =>
         /\ sur.module.first <= w.module.first
         /\ w.module.status = "completed" => /\ sur.module.status = "completed"
                                             /\ sur.module.completed <= w.module.completed
    /\ (sur.module # NoRow => (sur.module.status = "completed" <=> Present(sur.module.completed)))
    /\ w.badge # NoRow => w.badge.evidence \subseteq sur.badge.evidence
    /\ w.transcript # NoRow => /\ sur.transcript.done >= w.transcript.done
                               /\ sur.transcript.done <= sur.transcript.total
    /\ w.consents \subseteq sur.consents
    /\ Cardinality(sur.attempts) = Cardinality(Was("source").attempts)
                                   + Cardinality(Was("survivor").attempts)
    /\ \A t, u \in sur.attempts :
         t.id = u.id /\ t.prefixed = u.prefixed => t = u

\* The installation has an owner after every merge.
OwnerRemains == src.owner \/ sur.owner \/ others

\* Nobody who lacks the required consent is merged, and what was merged could be merged again.
PolicyHolds == Done => PolicyBlocks(sur, sur) = {}
==============================================================================
