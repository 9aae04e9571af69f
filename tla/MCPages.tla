------------------------------- MODULE MCPages -------------------------------
(***************************************************************************)
(* What runs in front of the API or beside it: the tab that signs in and   *)
(* out (AuthTab), the tab that keeps a learner's progress (ProgressSync),  *)
(* the learner's own panels (AccountPage), the owner's paged lists         *)
(* (OwnerConsole), the command that writes an                              *)
(* adopter's site (PortalMaterialise) and the projection of badge          *)
(* credentials (BadgeCredentials).  They share no state, so a behaviour    *)
(* chooses one of them; they take turns on the same registers, and what a  *)
(* machine does not need stays empty.                                      *)
(***************************************************************************)
EXTENDS Naturals, TLC

CONSTANTS
    Pair, Nobody, None,
    MaxOpen, MaxSessions, MaxTroubles,
    MaxSaveTries, MaxWork, MaxSends, MaxVisits, MaxFaults,
    MaxRow, PageSize, MaxChanges, MaxQueries, MaxLosses,
    Paths, Exceptions, Generated, ThemeIndex, MaxRelease, MaxStops, MaxEdits,
    Credentials, Classes, MaxEvents, MaxTime,
    PanelValues, PanelSends, MaxElsewhere, MaxLost

VARIABLES machine, r1, r2, r3, r4, r5, r6, r7, r8, r9, r10, r11

registers == <<r1, r2, r3, r4, r5, r6, r7, r8, r9, r10, r11>>

\* A renewal overlaps no other call, and answers arrive in order.
Auth == INSTANCE AuthTab
          WITH People <- Pair, InOrder <- TRUE, Serial <- TRUE,
               acct <- r1, open <- r2, sessions <- r3, minted <- r4, terms <- r5,
               audits <- r6, cookies <- r7, tab <- r8, calls <- r9, troubles <- r10

\* Other tabs sign in and out only while this one shows nobody; saves arrive in order.
Sync == INSTANCE ProgressSync
          WITH Learners <- Pair, AnyTime <- FALSE, InOrder <- TRUE,
               cookie <- r1, live <- r2, acct <- r3, device <- r4, tab <- r5, wire <- r6,
               sends <- r7, visits <- r8, faults <- r9, by <- r10, dropped <- r11

Console == INSTANCE OwnerConsole
             WITH FixedKey <- FALSE, kind <- r1, rows <- r2, key <- r3, page <- r4,
                  queries <- r5, sent <- r6, changes <- r7, losses <- r8, owed <- r9

Portal == INSTANCE PortalMaterialise
            WITH ships <- r1, release <- r2, files <- r3, tracked <- r4, ignored <- r5,
                 git <- r6, bundle <- r7, run <- r8, finished <- r9, stops <- r10,
                 edits <- r11

Badges == INSTANCE BadgeCredentials WITH definition <- r1, log <- r2, view <- r3

\* The learner waits for the preferences before saving them.
Account == INSTANCE AccountPage
             WITH Panels <- {"data", "profile", "preferences", "identities"},
                  Values <- PanelValues, MaxSends <- PanelSends, Patient <- TRUE,
                  panel <- r1, server <- r2, page <- r3, call <- r4, sends <- r5,
                  elsewhere <- r6, lost <- r7, synced <- r8

ASSUME PagesConstants ==
    /\ Auth!AuthConstants /\ Console!ConsoleConstants /\ Account!AccountConstants
    /\ Portal!PortalConstants /\ Sync!SyncConstants

Empty == <<>>

PagesInit ==
    \/ machine = "auth" /\ Auth!AuthInit /\ r11 = Empty
    \/ machine = "sync" /\ Sync!Init
    \/ machine = "console" /\ Console!ConsoleInit /\ r10 = Empty /\ r11 = Empty
    \/ machine = "portal" /\ Portal!PortalInit
    \/ /\ machine = "badges" /\ Badges!BadgeInit
       /\ r4 = Empty /\ r5 = Empty /\ r6 = Empty /\ r7 = Empty
       /\ r8 = Empty /\ r9 = Empty /\ r10 = Empty /\ r11 = Empty
    \/ /\ machine = "account" /\ Account!PageInit
       /\ r9 = Empty /\ r10 = Empty /\ r11 = Empty

PagesNext ==
    /\ UNCHANGED machine
    /\ \/ machine = "auth" /\ Auth!AuthNext /\ UNCHANGED r11
       \/ machine = "sync" /\ Sync!Next
       \/ machine = "console" /\ Console!ConsoleNext /\ UNCHANGED <<r10, r11>>
       \/ machine = "portal" /\ Portal!PortalNext
       \/ machine = "account" /\ Account!PageNext /\ UNCHANGED <<r9, r10, r11>>
       \/ machine = "badges" /\ Badges!BadgeNext /\ UNCHANGED <<r4, r5, r6, r7, r8, r9, r10, r11>>

PagesSpec == PagesInit /\ [][PagesNext]_<<machine, registers>>

Swaps == Permutations(Pair)

-----------------------------------------------------------------------------
\* Once its calls are answered, the page's header says what the session is, whatever calls
\* overlapped or failed; and an acceptance of the terms is kept once and for all.
HeaderTellsTheTruth ==
    machine = "auth" => /\ Auth!AuthTypeOK /\ Auth!HeaderTellsTheTruth
                        /\ Auth!AcceptanceIsKept

\* No evidence of one learner reaches another's record, a failed read overwrites no history,
\* and a quiet tab has saved what was made in it.
NothingCrosses ==
    machine = "sync" => /\ Sync!ProgressTypeOK /\ Sync!NothingCrosses
                        /\ Sync!HistoryIsNotOverwritten /\ Sync!QuietIsSaved

\* A list that says it is complete shows every row that was there and stayed as it was.
NothingIsHidden == machine = "console" => Console!ConsoleTypeOK /\ Console!NothingIsHidden

\* An idle panel of the learner's page shows what the account holds unless another tab or a
\* lost answer came between, its deletion receipts answer, and its preferences do not stay
\* in "Loading".
PanelsAreCurrent ==
    machine = "account" => /\ Account!PanelIsCurrent /\ Account!ReceiptIsLive
                           /\ Account!LookupIsHonest /\ Account!LoadingEnds

\* A finished run leaves the shipped files at the installed release, and a badge that is
\* shown as issued was earned.
FinishedIsCurrent ==
    /\ machine = "portal" => Portal!PortalTypeOK /\ Portal!FinishedIsCurrent
    /\ machine = "badges" => Badges!CredentialIsEarned

\* A run never takes an adopter's work, and no event takes back the history of a credential.
NothingIsTakenBack ==
    [][/\ machine = "portal" => Portal!AdoptersWorkSurvives
       /\ machine = "badges" => Badges!HistoryOnlyGrows]_registers
==============================================================================
