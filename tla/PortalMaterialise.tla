-------------------------- MODULE PortalMaterialise --------------------------
(***************************************************************************)
(* `project42-portal materialise' (bin/project42-portal.mjs): the command  *)
(* that copies the application a platform release ships onto an adopter's  *)
(* repository, prunes what earlier releases shipped and resolves the theme *)
(* bundles.  It works file by file, may stop at any file, is run again by  *)
(* the next install, and meets whatever the adopter has changed meanwhile. *)
(*                                                                         *)
(* A path holds nothing (0), the file of release n (n > 0), or the         *)
(* adopter's own text (-1).                                                *)
(***************************************************************************)
EXTENDS Integers, FiniteSets

CONSTANTS
    Paths,           \* paths under the materialised roots
    Exceptions,      \* INSTANCE_EXCEPTIONS
    Generated,       \* GENERATED_FILES
    ThemeIndex,      \* the one of them that is written last
    MaxRelease,      \* releases of the platform that are installed one after the other
    MaxStops,        \* how often a run is stopped
    MaxEdits         \* how often the adopter changes something

PortalConstants ==
    /\ Generated \subseteq Paths /\ ThemeIndex \in Generated
    /\ MaxRelease \in Nat \ {0}

Mine == -1

VARIABLES
    ships,           \* the paths the installed release has under its web/
    release,
    files,           \* what each path of the repository holds
    tracked,         \* git ls-files
    ignored,         \* what .gitignore matches
    git,             \* does git answer at all?
    bundle,          \* a theme the configuration names: its folder in the repository, the
                     \* installed one and what the lock says of it
    run,             \* the run under way: what it has read and still has to do
    finished,        \* the release whose last run ended with success, 0 for none
    stops, edits

portalVars == <<ships, release, files, tracked, ignored, git, bundle, run, finished, stops, edits>>

repository == <<ships, release, tracked, ignored, git, stops, edits>>

NoRun == [step |-> "none", force |-> FALSE, planned |-> {}, tracked |-> {}, remove |-> {},
          copy |-> {}]

PortalInit ==
    /\ ships \in SUBSET (Paths \ Generated)
    /\ release = 1
    /\ files \in {f \in [Paths -> {0, Mine}] : \A p \in Generated : f[p] = 0}
    /\ ignored \in {i \in SUBSET Paths : Generated \subseteq i}
    /\ tracked \in SUBSET {p \in Paths : files[p] = Mine}
    /\ git \in BOOLEAN
    /\ bundle \in {b \in [folder : BOOLEAN, shipped : BOOLEAN, installed : {"none", "adopter"},
                          claim : {"none", "tracked", "locked"}] :
                     b.installed = "none" => b.claim = "none"}
    /\ run = NoRun
    /\ finished = 0 /\ stops = 0 /\ edits = 0

-----------------------------------------------------------------------------
Protected == Exceptions \cup Generated

\* git ls-files and check-ignore, or nothing when git cannot answer.
trackedFiles == IF git THEN tracked ELSE {}

\* A run begins.  It refuses, before it writes anything, to overwrite a tracked file.
materialise(force) ==
    /\ run = NoRun
    /\ LET planned == ships \ Exceptions
       IN \/ /\ force \/ planned \cap trackedFiles = {}
             /\ run' = [NoRun EXCEPT !.step = "prune", !.force = force, !.planned = planned,
                                     !.tracked = trackedFiles]
             /\ finished' = 0
          \/ /\ ~force /\ planned \cap trackedFiles # {}
             /\ UNCHANGED <<run, finished>>
    /\ UNCHANGED <<repository, files, bundle>>

\* Mutant: what is not tracked may go.
Claimed_Tracked(p) == p \in run.tracked

\* Tracked, or not ignored: the adopter has claimed this file.
Claimed(p) == p \in run.tracked \/ p \notin ignored

prune ==
    /\ run.step = "prune"
    /\ LET candidates == {p \in Paths : files[p] # 0} \ (run.planned \cup Protected)
       IN run' = [run EXCEPT !.step = "remove", !.copy = run.planned,
                    !.remove = IF git THEN {p \in candidates : ~Claimed(p)} ELSE {}]
    /\ UNCHANGED <<repository, files, bundle, finished>>

removeFile ==
    /\ run.step = "remove"
    /\ \/ \E p \in run.remove :
            /\ files' = [files EXCEPT ![p] = 0]
            /\ run' = [run EXCEPT !.remove = @ \ {p}]
       \/ /\ run.remove = {} /\ files' = files
          /\ run' = [run EXCEPT !.step = "copy"]
    /\ UNCHANGED <<repository, bundle, finished>>

\* Mutant: a file that is already there is left as it is.
Copied_KeepsExisting(p) == IF files[p] = 0 THEN [files EXCEPT ![p] = release] ELSE files

Copied(p) == [files EXCEPT ![p] = release]

copyFile ==
    /\ run.step = "copy"
    /\ \/ \E p \in run.copy :
            /\ files' = Copied(p)
            /\ run' = [run EXCEPT !.copy = @ \ {p}]
       \/ /\ run.copy = {} /\ files' = files
          /\ run' = [run EXCEPT !.step = "catalogue"]
    /\ UNCHANGED <<repository, bundle, finished>>

\* The generated catalogue files, from a catalogue that may be missing or malformed.
writeSiteCatalog ==
    /\ run.step = "catalogue"
    /\ \/ /\ files' = [p \in Paths |-> IF p \in Generated \ {ThemeIndex} THEN release ELSE files[p]]
          /\ run' = [run EXCEPT !.step = "appearance"]
       \/ files' = files /\ run' = NoRun
    /\ UNCHANGED <<repository, bundle, finished>>

\* An installed bundle that is tracked or locked belongs to the adopter.
Vendored(b) == b.installed = "adopter" /\ b.claim # "none"

\* copyBundle: the installed folder is removed first, then written.
copyBundle(from) ==
    /\ bundle' = [bundle EXCEPT !.installed = "none"]
    /\ run' = [run EXCEPT !.step = from]

\* A folder of the repository comes first, then what is installed and claimed, then the
\* platform's own; otherwise the run fails.
resolveBundle ==
    /\ run.step = "appearance"
    /\ \/ bundle.folder /\ copyBundle("repository")
       \/ /\ ~bundle.folder /\ Vendored(bundle)
          /\ run' = [run EXCEPT !.step = "index"] /\ bundle' = bundle
       \/ ~bundle.folder /\ ~Vendored(bundle) /\ bundle.shipped /\ copyBundle("platform")
       \/ /\ ~bundle.folder /\ ~Vendored(bundle) /\ ~bundle.shipped
          /\ run' = NoRun /\ bundle' = bundle
    /\ UNCHANGED <<repository, files, finished>>

writeBundle ==
    /\ run.step \in {"repository", "platform"}
    /\ bundle' = [bundle EXCEPT !.installed = run.step]
    /\ run' = [run EXCEPT !.step = "index"]
    /\ UNCHANGED <<repository, files, finished>>

\* The index of the themes, and the end of the run.
writeThemeIndex ==
    /\ run.step = "index"
    /\ files' = [files EXCEPT ![ThemeIndex] = release]
    /\ run' = NoRun /\ finished' = release
    /\ UNCHANGED <<repository, bundle>>

-----------------------------------------------------------------------------
\* The process is killed, or a write fails.
Stop ==
    /\ stops < MaxStops
    /\ run # NoRun
    /\ run' = NoRun
    /\ stops' = stops + 1
    /\ UNCHANGED <<ships, release, tracked, ignored, git, edits, files, bundle, finished>>

\* Another release is installed; what it ships differs by one path.
Upgrade ==
    /\ run = NoRun /\ release < MaxRelease
    /\ release' = release + 1
    /\ \E p \in Paths \ Generated : ships' \in {ships \cup {p}, ships \ {p}}
    /\ UNCHANGED <<files, tracked, ignored, git, bundle, run, finished, stops, edits>>

\* Between two runs the adopter writes a file of their own, added to git or not, or leaves
\* one to the product: no longer tracked, and ignored.
Edit ==
    /\ run = NoRun /\ edits < MaxEdits
    /\ edits' = edits + 1
    /\ \E p \in Paths \ Generated :
         \/ /\ files' = [files EXCEPT ![p] = Mine]
            /\ tracked' \in {tracked \cup {p}, tracked}
            /\ ignored' = ignored \ {p}
         \/ /\ tracked' = tracked \ {p} /\ ignored' = ignored \cup {p} /\ files' = files
    /\ UNCHANGED <<ships, release, git, bundle, run, finished, stops>>

PortalNext ==
    \/ \E force \in BOOLEAN : materialise(force)
    \/ prune \/ removeFile \/ copyFile \/ writeSiteCatalog \/ resolveBundle \/ writeBundle
    \/ writeThemeIndex
    \/ Stop \/ Upgrade \/ Edit

PortalSpec == PortalInit /\ [][PortalNext]_portalVars

-----------------------------------------------------------------------------
\* In every step, the adopter's own text survives a run without --force, stopped or not, where git
\* tracks it, where it is an exception, and where it is not ignored and not a path the
\* release ships; and a bundle of the Gallery survives while nothing of the repository
\* takes its place (materialise, prune and resolveBundle).
AdoptersWorkSurvives ==
    /\ \A p \in Paths :
         (files[p] = Mine /\ ~run.force /\ git /\
          (p \in tracked \/ p \in Exceptions \/ (p \notin ignored /\ p \notin ships)))
             => files'[p] = Mine \/ p \in Generated
    /\ bundle.installed = "adopter" /\ bundle.claim # "none" /\ ~bundle.folder
             => bundle'.installed = "adopter"

\* After a run that ended well the repository holds what the release ships and generates,
\* nothing that only an earlier release shipped where git calls it ignored, and a bundle,
\* however many earlier runs were stopped half-way; until the adopter edits or upgrades.
FinishedIsCurrent ==
    (finished = release /\ run = NoRun /\ edits = 0) =>
        /\ \A p \in (ships \ Exceptions) \cup Generated : files[p] = release
        /\ git => \A p \in Paths \ (ships \cup Protected) :
                     files[p] > 0 => p \in tracked \/ p \notin ignored
        /\ bundle.installed # "none"

PortalTypeOK ==
    /\ files \in [Paths -> Mine..MaxRelease]
    /\ run.copy \subseteq run.planned /\ run.remove \cap run.planned = {}
    /\ finished \in 0..release
=============================================================================
