----------------------------- MODULE DataRights -----------------------------
(***************************************************************************)
(* A learner's own account: profile and photo, the request to delete the   *)
(* account, its cancellation, its completion by an owner and the private   *)
(* status receipt (src/worker.ts).  Each call is a chain of awaits: it is  *)
(* stamped with the time, it reads, and it commits a batch later, when the *)
(* rows may no longer be what it read.  Photos live in an object store     *)
(* that no transaction spans.                                              *)
(*                                                                         *)
(* A call mints at most one random identifier (a request id, a receipt's   *)
(* token, an object key), so the call stands for the identifier it mints.  *)
(***************************************************************************)
EXTENDS Integers, FiniteSets

CONSTANTS
    MaxCalls,     \* the HTTP calls of a behaviour are 1..MaxCalls, in the order they come;
                  \* the numbers also stand for the identifiers they mint
    Fields,       \* the fields of a profile
    None,         \* not a call: SQL's NULL
    Window,       \* days in which a request may be cancelled (7)
    Retain,       \* days for which the receipt of a completed deletion answers (90)
    MaxClock,     \* bound on the clock
    MaxActive,    \* how many calls are under way at a time
    MaxFaults     \* how many calls may die between two of their steps

VARIABLES
    user,         \* the rows users and user_profiles of the account
    requests,     \* deletion_requests
    tombs,        \* deletion_tombstones
    bucket,       \* the object keys in PROFILE_PHOTOS
    calls,        \* the calls, with the values they have read (and, for the properties,
                  \* what a completion has missed of its request since then)
    held,         \* the newest receipt the learner was given
    clock,
    faults

dataVars == <<user, requests, tombs, bucket, calls, held, clock, faults>>

Calls == 1..MaxCalls

NoRequest == [state |-> "none", deadline |-> 0, token |-> None]
NoTomb == [done |-> FALSE, at |-> 0, token |-> None, missed |-> {}]
NewCall == [op |-> "none", step |-> "new", at |-> 0, row |-> None, prev |-> None,
            token |-> None, fields |-> [f \in Fields |-> FALSE], missed |-> {}]

DataInit ==
    /\ \E owner \in BOOLEAN :
         user = [present |-> TRUE, owner |-> owner, photo |-> None,
                 fields |-> [f \in Fields |-> FALSE]]
    /\ requests = [c \in Calls |-> NoRequest]
    /\ tombs = [c \in Calls |-> NoTomb]
    /\ bucket = {}
    /\ calls = [c \in Calls |-> NewCall]
    /\ held = [row |-> None, token |-> None]
    /\ clock = 0
    /\ faults = 0

Ops == {"request", "cancel", "complete", "put", "remove", "patch"}

-----------------------------------------------------------------------------
(* What a call does to its own record.                                     *)

\* Call c of operation op has reached `step' and goes on.
At(c, op, step) == calls[c].op = op /\ calls[c].step = step

Moves(c, step) == calls' = [calls EXCEPT ![c].step = step]

\* The call is over, and its local values with it (but for the photo it set out to remove).
Ended(c, step) ==
    [NewCall EXCEPT !.op = calls[c].op, !.step = step,
                    !.prev = IF calls[c].op = "remove" THEN calls[c].prev ELSE None]

Ends(c, step) == calls' = [calls EXCEPT ![c] = Ended(c, step)]

\* A completion has read its request and has not committed yet.
Completing(c) == calls[c].op = "complete" /\ calls[c].step = "read"

\* The call is over and has changed request r, which completions that have read r miss.
EndsUnseen(c, r, change) ==
    calls' = [d \in Calls |->
                IF d = c THEN Ended(c, "done")
                ELSE IF Completing(d) /\ calls[d].row = r
                     THEN [calls[d] EXCEPT !.missed = @ \cup {change}] ELSE calls[d]]

\* The call answers an error, and has changed nothing.
Refused(c) == Ends(c, "done") /\ UNCHANGED <<user, requests, tombs, bucket, held>>

Active == {r \in Calls : requests[r].state = "requested"}

Underway == {c \in Calls : calls[c].step \notin {"new", "done", "lost"}}

\* A call is authenticated and stamped with the time it will use throughout.
\* An owner completes a request that the administration page lists.
Enter(c, op) ==
    /\ calls[c].step = "new" /\ (\A d \in 1..(c - 1) : calls[d].step # "new")
    /\ Cardinality(Underway) < MaxActive
    /\ op # "complete" => user.present
    /\ \E row \in IF op = "complete" THEN {r \in Calls : requests[r].state # "none"}
                                     ELSE {None} :
         calls' = [calls EXCEPT ![c] =
                     [NewCall EXCEPT !.op = op, !.step = "entered", !.at = clock, !.row = row]]
    /\ UNCHANGED <<user, requests, tombs, bucket, held, clock, faults>>

-----------------------------------------------------------------------------
(* The request for deletion, its receipt and its cancellation.             *)

requestDeletion_Read(c) ==
    /\ At(c, "request", "entered")
    /\ calls' = [calls EXCEPT ![c].step = "read",
                   ![c].row = IF Active = {} THEN None ELSE CHOOSE r \in Active : TRUE]
    /\ UNCHANGED <<user, requests, tombs, bucket, held, clock, faults>>

\* Mutant: the receipt's digest is replaced only in a row that can still be cancelled.
Rotated_Requested(r, c) ==
    IF requests[r].state = "requested" THEN [requests EXCEPT ![r].token = c] ELSE requests

\* The digest of the new token replaces the old one, whatever the row's state is by now.
Rotated(r, c) == [requests EXCEPT ![r].token = c]

\* An active request keeps its id and gets a new receipt; without one a request
\* is inserted, which the unique index refuses when another came first.
requestDeletion_Write(c) ==
    /\ At(c, "request", "read")
    /\ LET r == calls[c].row
       IN \/ /\ r # None /\ user.present
             /\ requests' = Rotated(r, c)
             /\ held' = [row |-> r, token |-> c]
             /\ EndsUnseen(c, r, "receipt") /\ UNCHANGED <<user, tombs, bucket>>
          \/ /\ r = None /\ user.present /\ Active = {}
             /\ requests' = [requests EXCEPT ![c] =
                  [state |-> "requested", deadline |-> calls[c].at + Window, token |-> c]]
             /\ held' = [row |-> c, token |-> c]
             /\ Ends(c, "done") /\ UNCHANGED <<user, tombs, bucket>>
          \/ /\ ~user.present \/ (r = None /\ Active # {})
             /\ Refused(c)
    /\ UNCHANGED <<clock, faults>>

Cancellable(r, at) == requests[r].state = "requested" /\ at < requests[r].deadline

cancelDeletion_Read(c) ==
    /\ At(c, "cancel", "entered")
    /\ \/ \E r \in Active :
            /\ Cancellable(r, calls[c].at)
            /\ calls' = [calls EXCEPT ![c].step = "read", ![c].row = r]
            /\ UNCHANGED <<user, requests, tombs, bucket, held>>
       \/ /\ \A r \in Active : ~Cancellable(r, calls[c].at)
          /\ Refused(c)
    /\ UNCHANGED <<clock, faults>>

\* The update is guarded by the state; the rows it changed are not counted.
cancelDeletion_Write(c) ==
    /\ At(c, "cancel", "read")
    /\ \/ /\ user.present
          /\ requests' = [requests EXCEPT ![calls[c].row].state =
                            IF @ = "requested" THEN "cancelled" ELSE @]
          /\ EndsUnseen(c, calls[c].row, "cancellation")
          /\ UNCHANGED <<user, tombs, bucket, held>>
       \/ ~user.present /\ Refused(c)
    /\ UNCHANGED <<clock, faults>>

\* What POST /v1/deletion-status finds for a receipt.
getDeletionStatus(receipt) ==
    \/ requests[receipt.row].state # "none" /\ requests[receipt.row].token = receipt.token
    \/ tombs[receipt.row].done /\ tombs[receipt.row].token = receipt.token

-----------------------------------------------------------------------------
(* An owner completes the deletion.                                        *)

\* Mutant: the request is found by its id alone.
Completable_AnyState(r, at) ==
    requests[r].state # "none" /\ user.present /\ ~user.owner /\ requests[r].deadline <= at

\* An active request of an account that owns nothing, its window over.
Completable(r, at) ==
    requests[r].state = "requested" /\ user.present /\ ~user.owner /\ requests[r].deadline <= at

\* The reads: the request, the photo of the profile and of merged accounts, the identities.
completeDeletion_Read(c) ==
    /\ At(c, "complete", "entered")
    /\ LET r == calls[c].row
       IN \/ /\ Completable(r, calls[c].at)
             /\ calls' = [calls EXCEPT ![c].step = "read", ![c].prev = user.photo,
                                       ![c].token = requests[r].token]
             /\ UNCHANGED <<user, requests, tombs, bucket, held>>
          \/ ~Completable(r, calls[c].at) /\ Refused(c)
    /\ UNCHANGED <<clock, faults>>

Tombstone(c) ==
    [done |-> TRUE, at |-> calls[c].at, token |-> calls[c].token, missed |-> calls[c].missed]

Erased == \E r \in Calls : tombs[r].done

\* The batch: the tombstone of the request, those of the identities, which an account leaves
\* once, and the rows of the account with everything that cascades.  It looks at nothing that
\* was read before: a request that was cancelled meanwhile is carried out.
completeDeletion_Write(c) ==
    /\ At(c, "complete", "read")
    /\ \/ /\ ~Erased
          /\ tombs' = [tombs EXCEPT ![calls[c].row] = Tombstone(c)]
          /\ user' = [user EXCEPT !.present = FALSE, !.photo = None]
          /\ requests' = [d \in Calls |-> NoRequest]
          /\ Moves(c, "clean") /\ UNCHANGED <<bucket, held>>
       \/ Erased /\ Refused(c)
    /\ UNCHANGED <<clock, faults>>

\* Once the rows are gone the photos that were read are removed from the store.
completeDeletion_Clean(c) ==
    /\ At(c, "complete", "clean")
    /\ bucket' = bucket \ {calls[c].prev}
    /\ Ends(c, "done")
    /\ UNCHANGED <<user, requests, tombs, held, clock, faults>>

\* Daily: a receipt older than its dispute window is forgotten.
purgeExpiredDeletionReceipts ==
    /\ \E r \in Calls : tombs[r].token # None /\ tombs[r].at < clock - Retain
    /\ tombs' = [r \in Calls |->
         IF tombs[r].at < clock - Retain THEN [tombs[r] EXCEPT !.token = None] ELSE tombs[r]]
    /\ UNCHANGED <<user, requests, bucket, calls, held, clock, faults>>

-----------------------------------------------------------------------------
(* The profile and its photo.                                              *)

\* The read with which all three profile calls begin.
Profile_Read(c, op) ==
    /\ At(c, op, "entered")
    /\ \/ /\ user.present /\ ~(op = "remove" /\ user.photo = None)
          /\ calls' = [calls EXCEPT ![c].step = "read", ![c].prev = user.photo,
                                    ![c].fields = user.fields]
          /\ UNCHANGED <<user, requests, tombs, bucket, held>>
       \/ /\ op = "put" /\ ~user.present
          /\ Moves(c, "read") /\ UNCHANGED <<user, requests, tombs, bucket, held>>
       \/ /\ op = "remove" /\ user.photo = None
          /\ Refused(c)
       \/ op = "patch" /\ ~user.present /\ Refused(c)
    /\ UNCHANGED <<clock, faults>>

putProfilePhoto_Store(c) ==
    /\ At(c, "put", "read")
    /\ bucket' = bucket \cup {c}
    /\ Moves(c, "stored")
    /\ UNCHANGED <<user, requests, tombs, held, clock, faults>>

\* The metadata; an account that is gone fails the batch, and the object is taken back.
setProfilePhotoMetadata(c) ==
    /\ At(c, "put", "stored")
    /\ \/ user.present /\ user' = [user EXCEPT !.photo = c] /\ Moves(c, "clean")
       \/ ~user.present /\ user' = user /\ Moves(c, "undo")
    /\ UNCHANGED <<requests, tombs, bucket, held, clock, faults>>

\* The object a call no longer needs: its own when it failed, the previous one otherwise.
Obsolete(c) == IF calls[c].step = "undo" THEN {c} ELSE {calls[c].prev}

putProfilePhoto_Clean(c) ==
    /\ At(c, "put", "clean") \/ At(c, "put", "undo")
    /\ bucket' = bucket \ Obsolete(c)
    /\ Ends(c, "done")
    /\ UNCHANGED <<user, requests, tombs, held, clock, faults>>

\* The object goes first, the row that names it second.
deleteProfilePhoto_Object(c) ==
    /\ At(c, "remove", "read")
    /\ bucket' = bucket \ {calls[c].prev}
    /\ Moves(c, "deleted")
    /\ UNCHANGED <<user, requests, tombs, held, clock, faults>>

clearProfilePhotoMetadata(c) ==
    /\ At(c, "remove", "deleted")
    /\ user' = [user EXCEPT !.photo = None]
    /\ Ends(c, "done")
    /\ UNCHANGED <<requests, tombs, bucket, held, clock, faults>>

\* A patch of one field writes all fields back as it read them, and no photo column.
Patched(c, f) == [user EXCEPT !.fields = [calls[c].fields EXCEPT ![f] = TRUE]]

updateProfile_Write(c) ==
    /\ At(c, "patch", "read")
    /\ \/ /\ user.present
          /\ \E f \in Fields : user' = Patched(c, f)
       \/ ~user.present /\ user' = user
    /\ Ends(c, "done")
    /\ UNCHANGED <<requests, tombs, bucket, held, clock, faults>>

-----------------------------------------------------------------------------
\* The worker that serves a call is stopped between two of its steps.
Die(c) ==
    /\ faults < MaxFaults
    /\ c \in Underway
    /\ Ends(c, "lost")
    /\ faults' = faults + 1
    /\ UNCHANGED <<user, requests, tombs, bucket, held, clock>>

Tick ==
    /\ clock < MaxClock
    /\ clock' = clock + 1
    /\ UNCHANGED <<user, requests, tombs, bucket, calls, held, faults>>

DataNext ==
    \/ \E c \in Calls, op \in Ops : Enter(c, op)
    \/ \E c \in Calls :
         \/ requestDeletion_Read(c) \/ requestDeletion_Write(c)
         \/ cancelDeletion_Read(c) \/ cancelDeletion_Write(c)
         \/ completeDeletion_Read(c) \/ completeDeletion_Write(c) \/ completeDeletion_Clean(c)
         \/ \E op \in {"put", "remove", "patch"} : Profile_Read(c, op)
         \/ putProfilePhoto_Store(c) \/ setProfilePhotoMetadata(c) \/ putProfilePhoto_Clean(c)
         \/ deleteProfilePhoto_Object(c) \/ clearProfilePhotoMetadata(c)
         \/ updateProfile_Write(c)
         \/ Die(c)
    \/ purgeExpiredDeletionReceipts
    \/ Tick

DataSpec == DataInit /\ [][DataNext]_dataVars

-----------------------------------------------------------------------------
(* The lifecycle the learner-data policy publishes, and where the account  *)
(* stands in it.                                                           *)

policyTransitions ==
    {<<"created", "active">>, <<"created", "deletion-requested">>,
     <<"active", "suspended">>, <<"active", "recovery-pending">>,
     <<"active", "deletion-requested">>, <<"suspended", "active">>,
     <<"suspended", "recovery-pending">>, <<"suspended", "deletion-requested">>,
     <<"recovery-pending", "active">>, <<"recovery-pending", "suspended">>,
     <<"recovery-pending", "deletion-requested">>,
     <<"deletion-requested", "active">>, <<"deletion-requested", "deleted">>}

canTransitionLearnerAccount(from, to) == <<from, to>> \in policyTransitions

lifecycle ==
    IF ~user.present THEN "deleted" ELSE IF Active # {} THEN "deletion-requested" ELSE "active"

\* In every step the account moves along a transition of the published policy, with one
\* exception.  It is deleted by a completion alone, on a request whose window was over when the
\* completion began, and which is still to be carried out or was cancelled only after the
\* completion had read it: the batch does not look again (completeDeletion against
\* cancelDeletion, where the policy has no way from active to deleted).  Deleted is final.
FollowsPolicyUnlessOvertaken ==
    \/ lifecycle' = lifecycle
    \/ lifecycle' # "deleted" /\ canTransitionLearnerAccount(lifecycle, lifecycle')
    \/ /\ lifecycle' = "deleted"
       /\ \E c \in Calls :
            LET asked == requests[calls[c].row]
            IN /\ Completing(c) /\ calls'[c].step = "clean" /\ asked.deadline <= calls[c].at
               /\ \/ /\ asked.state = "requested"
                     /\ canTransitionLearnerAccount(lifecycle, lifecycle')
                  \/ asked.state = "cancelled" /\ "cancellation" \in calls[c].missed

\* The newest receipt the learner holds answers, before the deletion and after it,
\* until its dispute window is over (getDeletionStatus against rotations, completion
\* and the purge).  There are two exceptions.  A rotation looks at no state, so a call that
\* overlaps the cancellation of the request it read issues a receipt for the cancelled
\* request: it answers until the account is deleted on another request.  And a completion
\* that has read the request keeps the receipt of then, and no newer one.
ReceiptAnswers ==
    held.row # None =>
        \/ getDeletionStatus(held)
        \/ tombs[held.row].done /\ tombs[held.row].at < clock - Retain
        \/ \E r \in Calls \ {held.row} : tombs[r].done
        \/ tombs[held.row].done /\ "receipt" \in tombs[held.row].missed

\* The photo a profile names is in the store, unless a removal of that very photo has
\* begun, whatever uploads, removals and profile edits overlap.
ProfilePhotoIsServed ==
    user.photo # None =>
        \/ user.photo \in bucket
        \/ \E c \in Calls : calls[c].op = "remove" /\ calls[c].prev = user.photo

DataTypeOK ==
    /\ user \in [present : BOOLEAN, owner : BOOLEAN, photo : Calls \cup {None},
                 fields : [Fields -> BOOLEAN]]
    /\ requests \in [Calls -> [state : {"none", "requested", "cancelled"},
                               deadline : 0..(MaxClock + Window), token : Calls \cup {None}]]
    /\ Cardinality(Active) <= 1
    /\ bucket \subseteq Calls
    /\ clock \in 0..MaxClock
=============================================================================
