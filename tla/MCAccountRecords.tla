--------------------------- MODULE MCAccountRecords ---------------------------
(***************************************************************************)
(* What may happen to the records of an account: the merge with another    *)
(* account and its rollback (AccountMerge), deletion with a receipt,       *)
(* backup and recovery of the learning record (RecordRecovery), the        *)
(* learner's profile and deletion request (DataRights), the copies of the  *)
(* record on the learner's devices (ProgressRecord), and the checks that a *)
(* record has to pass (LearningContract).  A behaviour chooses one of the  *)
(* machines; they take turns on the same registers, and what a machine     *)
(* does not need stays empty.                                              *)
(***************************************************************************)
EXTENDS Naturals, Sequences, FiniteSets, TLC

CONSTANTS
    Pair1, Pair2, Pair3,     \* interchangeable names, used by all the machines
    None,
    MergeEvidence, MergeCalls, MaxProofs, MergeClock, MaxVersion,
    Deleters, MaxEvents, MaxDeletes, MaxRuns,
    MaxCalls, Fields, Window, Retain, DataClock, MaxFaults, DataActive,
    MergeStarts, MergeEdits, CopyWork, ContractSteps

\* The bounds are numbers; an absent value is not one of them and no account, and "none" is
\* no case.
ASSUME RecordsConstants ==
    /\ MaxProofs \in Nat /\ MergeClock \in Nat /\ MaxVersion \in Nat
    /\ IsFiniteSet(Pair1) /\ IsFiniteSet(MergeCalls)
    /\ None \notin Pair1 /\ "none" \notin Pair2
    /\ MaxEvents \in Nat /\ MaxDeletes \in Nat /\ MaxRuns \in Nat
    /\ MaxCalls \in Nat /\ Window \in Nat /\ Retain \in Nat /\ DataClock \in Nat
    /\ None \notin Nat

VARIABLES machine, r1, r2, r3, r4, r5, r6, r7, r8, r9, r10, r11, r12, r13, r14, r15

registers == <<r1, r2, r3, r4, r5, r6, r7, r8, r9, r10, r11, r12, r13, r14, r15>>

\* The owner's requests one after the other (MaxActive = 1).
Merge == INSTANCE AccountMerge
           WITH Accounts <- Pair1, Cases <- Pair2, Evidence <- MergeEvidence,
                Calls <- MergeCalls, MaxClock <- MergeClock, MaxActive <- 1,
                clock <- r1, acct <- r2, proof <- r3, case <- r4, alias <- r5,
                aliasOf <- r6, receipts <- r7, undone <- r8, call <- r9, import <- r10,
                told <- r11, spent <- r12

Recovery == INSTANCE RecordRecovery
              WITH Learners <- Pair1, Keys <- Pair2, Restores <- Pair3,
                   serial <- r1, stream <- r2, last <- r3, receipts <- r4, del <- r5,
                   begun <- r6, export <- r7, backup <- r8, target <- r9, replays <- r10,
                   rec <- r11, runs <- r12, erased <- r13, sealed <- r14, promoted <- r15

Rights == INSTANCE DataRights
            WITH MaxClock <- DataClock, MaxActive <- DataActive,
                 user <- r1, requests <- r2, tombs <- r3, bucket <- r4, calls <- r5,
                 held <- r6, clock <- r7, faults <- r8

\* A path of one module with a capstone, which gets a second module in front of it.
Releases ==
    <<[paths |-> <<[id |-> "p", modules |-> <<"m2">>]>>, capstones |-> {"m2"}],
      [paths |-> <<[id |-> "p", modules |-> <<"m1", "m2">>]>>, capstones |-> {"m2"}]>>

Copies == INSTANCE ProgressRecord
            WITH Devices <- Pair1, Catalogues <- Releases, SameIds <- FALSE,
                 MaxWork <- CopyWork, moment <- r1, work <- r2, rec <- r3

\* Two devices give one id to two attempts: two recordings are enough.
Collisions == INSTANCE ProgressRecord
                WITH Devices <- Pair1, Catalogues <- Releases, SameIds <- TRUE,
                     MaxWork <- 2, moment <- r1, work <- r2, rec <- r3

\* Two accounts that differ in one kind of row, in every way that kind of row allows.
Plain == [mail |-> None, verified |-> FALSE, profile |-> FALSE, bio |-> None, motion |-> 0,
          photo |-> None, owner |-> FALSE, held |-> FALSE, module |-> None, badge |-> None,
          transcript |-> None, attempts |-> {},
          consents |-> {[at |-> 1, version |-> 1, decision |-> "granted"]}]

Visits == {[status |-> "visited", first |-> f, completed |-> None, updated |-> 2] : f \in {1, 2}}
Finishes == {[status |-> "completed", first |-> 1, completed |-> c, updated |-> 3] : c \in {2, 3}}

MailRows ==
    {[Plain EXCEPT !.mail = m, !.verified = (m # None /\ b)] : m \in {None, "x", "y"}, b \in BOOLEAN}
ProfileRows ==
    {[Plain EXCEPT !.profile = TRUE, !.bio = t, !.motion = f] :
        t \in {None, "x", "y"}, f \in {0, 1}} \cup {Plain}
PhotoRows ==
    {[Plain EXCEPT !.profile = TRUE, !.photo = f, !.owner = o] :
        f \in {None, "x", "y"}, o \in BOOLEAN}
ConsentRows ==
    {[Plain EXCEPT !.consents = S, !.held = h] :
        S \in (SUBSET [at : {1, 2}, version : {1}, decision : {"granted", "withdrawn"}])
              \cup {{[at |-> 2, version |-> 0, decision |-> "granted"]}},
        h \in BOOLEAN}
ModuleRows == {[Plain EXCEPT !.module = r] : r \in {None} \cup Visits \cup Finishes}
TranscriptRows ==
    {[Plain EXCEPT !.transcript = r] :
        r \in {None} \cup [done : {0, 1}, total : {1, 2}, best : {None, 50, 60}]}
EvidenceRows ==
    {[Plain EXCEPT !.badge = r, !.attempts = {[id |-> i, prefixed |-> FALSE] : i \in S}] :
        r \in {None, [earned |-> 1, evidence |-> {"m1"}], [earned |-> 2, evidence |-> {"m2"}]},
        S \in SUBSET {"t1", "t2"}}

Kinds == {MailRows, ProfileRows, PhotoRows, ConsentRows, ModuleRows, TranscriptRows,
          EvidenceRows}
OneKindApart == UNION {S \X S : S \in Kinds}

\* Nothing commits between the reads and the batch of a completion (Overlap = FALSE).
Values == INSTANCE MergeValues
            WITH Starts <- MergeStarts, Absent <- None, NoRow <- None,
                 MaxEdits <- MergeEdits, Overlap <- FALSE,
                 src <- r1, sur <- r2, others <- r3, case <- r4, call <- r5, edits <- r6

\* The accounts that are merged have the rows that the tables and their writers permit.
ASSUME MergeStartsFit == Values!ValuesConstants

\* What the learner types keeps the limits of the contract (InputsFit = TRUE).
Contract == INSTANCE LearningContract
              WITH InputsFit <- TRUE, MaxSteps <- ContractSteps,
                   device <- r1, name <- r2, legacy <- r3, stream <- r4, steps <- r5

Empty == <<>>
fromSeven == <<r7, r8, r9, r10, r11, r12, r13, r14, r15>>
fromSix == <<r6, r7, r8, r9, r10, r11, r12, r13, r14, r15>>
fromFour == <<r4, r5, r6, r7, r8, r9, r10, r11, r12, r13, r14, r15>>

RecordsInit ==
    \/ /\ machine = "merge" /\ Merge!Init
       /\ r13 = Empty /\ r14 = Empty /\ r15 = Empty
    \/ machine = "recovery" /\ Recovery!Init
    \/ /\ machine = "rights" /\ Rights!DataInit
       /\ r9 = Empty /\ r10 = Empty /\ r11 = Empty /\ r12 = Empty
       /\ r13 = Empty /\ r14 = Empty /\ r15 = Empty
    \/ /\ machine \in {"copies", "collisions"} /\ Copies!RecordInit
       /\ r4 = Empty /\ r5 = Empty /\ r6 = Empty /\ r7 = Empty /\ r8 = Empty /\ r9 = Empty
       /\ r10 = Empty /\ r11 = Empty /\ r12 = Empty /\ r13 = Empty /\ r14 = Empty
       /\ r15 = Empty
    \/ /\ machine = "values" /\ Values!ValuesInit
       /\ r7 = Empty /\ r8 = Empty /\ r9 = Empty /\ r10 = Empty /\ r11 = Empty
       /\ r12 = Empty /\ r13 = Empty /\ r14 = Empty /\ r15 = Empty
    \/ /\ machine = "contract" /\ Contract!ContractInit
       /\ r6 = Empty /\ r7 = Empty /\ r8 = Empty /\ r9 = Empty /\ r10 = Empty
       /\ r11 = Empty /\ r12 = Empty /\ r13 = Empty /\ r14 = Empty /\ r15 = Empty

RecordsNext ==
    /\ UNCHANGED machine
    /\ \/ machine = "merge" /\ Merge!Next /\ UNCHANGED <<r13, r14, r15>>
       \/ machine = "recovery" /\ Recovery!Next
       \/ machine = "rights" /\ Rights!DataNext
          /\ UNCHANGED <<r9, r10, r11, r12, r13, r14, r15>>
       \/ machine = "copies" /\ Copies!RecordNext /\ UNCHANGED fromFour
       \/ machine = "collisions" /\ Collisions!RecordNext /\ UNCHANGED fromFour
       \/ machine = "values" /\ Values!ValuesNext /\ UNCHANGED fromSeven
       \/ machine = "contract" /\ Contract!ContractNext /\ UNCHANGED fromSix

RecordsSpec == RecordsInit /\ [][RecordsNext]_<<machine, registers>>

Swaps == Permutations(Pair1) \cup Permutations(Pair2) \cup Permutations(Pair3)

-----------------------------------------------------------------------------
\* Whatever previews, completions, rollbacks and imports follow one another or die half-way,
\* a merge can be undone while it is in force, nothing an identity was told is saved is lost,
\* no alias leads to an alias and no proof serves two completions.
MergeIsRecoverable ==
    machine = "merge" => /\ Merge!MergeTypeOK /\ Merge!MergeIsRecoverable
                         /\ Merge!ConfirmedSurvives /\ Merge!AliasesAreFlat
                         /\ Merge!ProofsServeOnce

\* A deletion receipt names exactly what was deleted, and a recovered record that is
\* reported ready is complete but for what receipts have erased.
ReceiptIsExact ==
    machine = "recovery" => /\ Recovery!RecoveryTypeOK /\ Recovery!ReceiptIsExact
                            /\ Recovery!ErasedIsNotPromoted /\ Recovery!RetainedIsComplete

\* The newest receipt of a deletion request answers until its dispute window is over, unless a
\* completion had read the request before it was issued, and the photo a profile names is in
\* the store.
ReceiptAnswers ==
    machine = "rights" => /\ Rights!DataTypeOK /\ Rights!ReceiptAnswers
                          /\ Rights!ProfilePhotoIsServed

\* Copies of a record that are worked on, merged, reconciled and carried from device to
\* device lose nothing; what they call completed is earned; the preview of a reconciliation
\* is what the import does; "Continue" leads to what is left; every copy that the program
\* made it can also restore, unless ids collided; and what the account answers with and what
\* the application makes passes every check it meets.
CopiesStaySound ==
    /\ machine \in {"copies", "collisions"} =>
         /\ Copies!RecordTypeOK /\ Copies!CompletionIsEarned /\ Copies!ResumeLeadsOn
         /\ Copies!PreviewIsHonest
    /\ machine = "copies" => Copies!MergeLosesNothing /\ Copies!RestoresWhileIdsExist
    /\ machine = "collisions" => Collisions!MergeLosesNothing
    /\ machine = "contract" => Contract!AnswersCanBeSaved /\ Contract!OwnRecordsAreAccepted

\* The survivor of a merge has the values the owner chose and the records of both accounts,
\* nobody without the required consent is merged, and an owner remains.
MergeKeepsValues ==
    machine = "values" => /\ Values!ValuesAreChosen /\ Values!VerifiedWasVerified
                          /\ Values!RecordsAreKept /\ Values!OwnerRemains
                          /\ Values!PolicyHolds

\* An account moves only along the transitions of the published data policy, unless a
\* completion has read the request before it was cancelled.
FollowsPolicyUnlessOvertaken ==
    [][machine = "rights" => Rights!FollowsPolicyUnlessOvertaken]_registers
===============================================================================
