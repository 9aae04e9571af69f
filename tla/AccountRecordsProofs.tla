-------------------------- MODULE AccountRecordsProofs --------------------------
(***************************************************************************)
(* Proofs about the machines of MCAccountRecords, for every value of the   *)
(* constants.                                                              *)
(***************************************************************************)
EXTENDS MCAccountRecords, SequenceTheorems, FiniteSetTheorems, TLAPS

-----------------------------------------------------------------------------
(***************************************************************************)
(* The learner's profile and deletion request (DataRights): the inductive  *)
(* invariant.                                                              *)
(*                                                                         *)
(* The registers hold, in the order of the module's variables: r1 the user *)
(* and the profile, r2 the requests, r3 the tombstones, r4 the photos in   *)
(* the store, r5 the calls, r6 the newest receipt, r7 the clock, r8 the    *)
(* faults.                                                                 *)
(***************************************************************************)

Ids == Rights!Calls \cup {None}

Users == [present : BOOLEAN, owner : BOOLEAN, photo : Ids, fields : [Fields -> BOOLEAN]]

RequestRows == [state : {"none", "requested", "cancelled"},
                deadline : 0..(DataClock + Window), token : Ids]

Changes == {"receipt", "cancellation"}

TombRows == [done : BOOLEAN, at : 0..DataClock, token : Ids, missed : SUBSET Changes]

Steps == {"new", "entered", "read", "stored", "clean", "undo", "deleted", "done", "lost"}

CallStates == [op : Rights!Ops \cup {"none"}, step : Steps, at : 0..DataClock, row : Ids,
               prev : Ids, token : Ids, fields : [Fields -> BOOLEAN], missed : SUBSET Changes]

RightsTypes ==
    /\ r1 \in Users /\ r2 \in [Rights!Calls -> RequestRows] /\ r3 \in [Rights!Calls -> TombRows]
    /\ r4 \subseteq Rights!Calls /\ r5 \in [Rights!Calls -> CallStates]
    /\ r6 \in [row : Ids, token : Ids] /\ r7 \in 0..DataClock

\* A completion began when the window was over; what it has read is still so, or it has missed
\* the change.
ReadFits(c) ==
    /\ r2[r5[c].row].deadline <= r5[c].at
    /\ \/ r2[r5[c].row].state = "requested"
       \/ r2[r5[c].row].state = "cancelled" /\ "cancellation" \in r5[c].missed
    /\ r5[c].token = r2[r5[c].row].token \/ "receipt" \in r5[c].missed

\* A request that was read is still there as long as the account is; of the request that a
\* completion has read it has missed whatever has changed.
DeletionFits(c) ==
    /\ r5[c].op = "request" /\ r5[c].step = "read" /\ r5[c].row # None /\ r1.present =>
          r2[r5[c].row].state # "none"
    /\ r5[c].op = "cancel" /\ r5[c].step = "read" =>
          r5[c].row \in Rights!Calls /\ (r1.present => r2[r5[c].row].state # "none")
    /\ r5[c].op = "complete" /\ r5[c].step \in {"entered", "read"} => r5[c].row \in Rights!Calls
    /\ Rights!Completing(c) /\ r1.present => ReadFits(c)
    /\ r5[c].op = "complete" /\ r5[c].step = "clean" => ~r1.present
    /\ r5[c].step = "new" \/ (r5[c].op = "request" /\ r5[c].step \in {"entered", "read"}) =>
          r2[c].state = "none"

\* An object key that is not yet in a profile is in no call's hands but its own.
Unminted(c) ==
    r5[c].step = "new" \/ (r5[c].op = "put" /\ r5[c].step \in {"entered", "read", "stored"})

PhotoFits(c) ==
    /\ r5[c].step = "new" => r5[c].op = "none"
    /\ Unminted(c) => r1.photo # c /\ \A d \in Rights!Calls : r5[d].prev # c
    /\ r5[c].op = "put" /\ r5[c].step = "stored" => c \in r4
    /\ r5[c].op = "put" /\ r5[c].step = "clean" => r1.photo = None \/ r5[c].prev # r1.photo
    /\ r5[c].op = "put" /\ r5[c].step = "undo" => ~r1.present

\* The newest receipt is that of its row, and of the tombstone the row became.
HeldFits ==
    r6.row # None =>
        /\ r1.present => r2[r6.row].state # "none" /\ r2[r6.row].token = r6.token
        /\ ~r1.present =>
              \/ /\ r3[r6.row].done
                 /\ \/ r3[r6.row].token = r6.token \/ r3[r6.row].at < r7 - Retain
                    \/ "receipt" \in r3[r6.row].missed
              \/ \E r \in Rights!Calls \ {r6.row} : r3[r].done

AccountFits ==
    /\ \A r, s \in Rights!Calls : r2[r].state = "requested" /\ r2[s].state = "requested" => r = s
    /\ ~r1.present => r1.photo = None
    /\ r1.present <=> ~Rights!Erased

RightsInv ==
    /\ RightsTypes /\ AccountFits /\ HeldFits /\ Rights!ProfilePhotoIsServed
    /\ \A c \in Rights!Calls : DeletionFits(c) /\ PhotoFits(c)

rightsVars == <<r1, r2, r3, r4, r5, r6, r7, r8>>

\* The constants of this machine.
RightsConstants ==
    /\ MaxCalls \in Nat /\ Window \in Nat /\ Retain \in Nat /\ DataClock \in Nat
    /\ None \notin Rights!Calls

LEMMA RightsConstantsHold == RightsConstants
BY RecordsConstants DEF RightsConstants, Rights!Calls

-----------------------------------------------------------------------------
\* A fresh call is a call.
LEMMA NewCallType ==
    ASSUME RightsConstants PROVE Rights!NewCall \in CallStates
BY DEF RightsConstants, Rights!NewCall, CallStates, Steps, Ids

\* The invariant holds initially.
LEMMA RightsInitInv ==
    ASSUME RightsConstants, Rights!DataInit PROVE RightsInv
<1>1. Rights!NewCall \in CallStates BY NewCallType
<1>2. RightsTypes
    BY <1>1 DEF RightsConstants, Rights!DataInit, RightsTypes, Users, RequestRows, TombRows,
        Rights!NoRequest, Rights!NoTomb, Ids
<1>3. \A c \in Rights!Calls : r5[c].op = "none" /\ r5[c].step = "new" /\ r5[c].prev = None
    BY DEF Rights!DataInit, Rights!NewCall
<1>4. AccountFits
    BY <1>3 DEF Rights!DataInit, AccountFits, Rights!Erased, Rights!NoRequest, Rights!NoTomb
<1>5. HeldFits /\ Rights!ProfilePhotoIsServed
    BY DEF Rights!DataInit, HeldFits, Rights!ProfilePhotoIsServed
<1>6. ASSUME NEW c \in Rights!Calls PROVE DeletionFits(c) /\ PhotoFits(c)
    BY <1>3, <1>6 DEF Rights!DataInit, RightsConstants, DeletionFits, PhotoFits, Unminted,
        Rights!Completing, Rights!NoRequest
<1> QED BY <1>2, <1>4, <1>5, <1>6 DEF RightsInv

-----------------------------------------------------------------------------
(* One call moves.                                                         *)

\* The calls after one of them has moved.
LEMMA CallNow ==
    ASSUME RightsTypes, NEW c \in Rights!Calls, NEW v \in CallStates, r5' = [r5 EXCEPT ![c] = v]
    PROVE  /\ r5' \in [Rights!Calls -> CallStates]
           /\ r5'[c] = v
           /\ \A d \in Rights!Calls \ {c} : r5'[d] = r5[d]
BY DEF RightsTypes

\* A call that is not the one that moves: at most it has missed a change.
Later(d) ==
    /\ r5'[d].op = r5[d].op /\ r5'[d].step = r5[d].step /\ r5'[d].at = r5[d].at
    /\ r5'[d].row = r5[d].row /\ r5'[d].prev = r5[d].prev /\ r5'[d].token = r5[d].token
    /\ r5[d].missed \subseteq r5'[d].missed

\* A call that is over keeps its operation and, if it removes a photo, which one.
LEMMA OverNow ==
    ASSUME RightsConstants, RightsTypes, NEW c \in Rights!Calls, NEW step \in Steps,
           Rights!Ends(c, step)
    PROVE  \E v \in CallStates :
              /\ r5' = [r5 EXCEPT ![c] = v]
              /\ v.op = r5[c].op /\ v.step = step
              /\ v.prev = IF r5[c].op = "remove" THEN r5[c].prev ELSE None
<1> DEFINE w == [Rights!NewCall EXCEPT !.op = r5[c].op, !.step = step,
                    !.prev = IF r5[c].op = "remove" THEN r5[c].prev ELSE None]
<1>1. r5[c] \in CallStates BY DEF RightsTypes
<1>2. Rights!NewCall \in CallStates BY NewCallType
<1>3. w \in CallStates BY <1>1, <1>2 DEF CallStates, Ids
<1>4. /\ w.op = r5[c].op /\ w.step = step
      /\ w.prev = IF r5[c].op = "remove" THEN r5[c].prev ELSE None
    BY DEF Rights!NewCall
<1>5. r5' = [r5 EXCEPT ![c] = w] BY DEF Rights!Ends, Rights!Ended
<1> QED BY <1>3, <1>4, <1>5

\* A call that only goes to its next step keeps what it has read.
LEMMA MovesNow ==
    ASSUME RightsTypes, NEW c \in Rights!Calls, NEW step \in Steps, Rights!Moves(c, step)
    PROVE  \E v \in CallStates :
              /\ r5' = [r5 EXCEPT ![c] = v]
              /\ v = [r5[c] EXCEPT !.step = step]
              /\ v.op = r5[c].op /\ v.step = step /\ v.prev = r5[c].prev
              /\ v.row = r5[c].row /\ v.token = r5[c].token
<1>1. r5[c] \in CallStates BY DEF RightsTypes
<1>2. [r5[c] EXCEPT !.step = step] \in CallStates BY <1>1 DEF CallStates
<1> QED BY <1>1, <1>2 DEF Rights!Moves, CallStates

\* A step of one call that changes nothing but the call, and takes over at most the photo
\* of the profile, keeps the invariant if the call still fits.
LEMMA CallMoves ==
    ASSUME RightsConstants, RightsInv, NEW c \in Rights!Calls, NEW v \in CallStates,
           r5' = [r5 EXCEPT ![c] = v], UNCHANGED <<r1, r2, r3, r4, r6, r7>>,
           v.step # "new", DeletionFits(c)',
           v.op = "put" /\ v.step \in {"entered", "read", "stored"} => Unminted(c),
           v.op = "put" /\ v.step = "stored" => c \in r4,
           v.op = "put" /\ v.step = "clean" => r1.photo = None \/ v.prev # r1.photo,
           v.op = "put" /\ v.step = "undo" => ~r1.present,
           v.prev \in {None, r1.photo, r5[c].prev},
           r5[c].op = "remove" /\ r5[c].prev = r1.photo => v.op = "remove" /\ v.prev = r1.photo
    PROVE  RightsInv'
<1>1. /\ r5' \in [Rights!Calls -> CallStates] /\ r5'[c] = v
      /\ \A d \in Rights!Calls \ {c} : r5'[d] = r5[d]
    BY CallNow DEF RightsInv
<1>2. RightsTypes' BY <1>1 DEF RightsInv, RightsTypes
<1>3. AccountFits' BY <1>1 DEF RightsInv, AccountFits, Rights!Erased
<1>4. HeldFits' BY DEF RightsInv, HeldFits
<1>5. Rights!ProfilePhotoIsServed'
    BY <1>1 DEF RightsInv, Rights!ProfilePhotoIsServed
<1>6. ASSUME NEW d \in Rights!Calls PROVE DeletionFits(d)'
    BY <1>1, <1>6 DEF RightsInv, DeletionFits, ReadFits, Rights!Completing
<1>7. ASSUME NEW d \in Rights!Calls PROVE PhotoFits(d)'
    <2>1. Unminted(d)' => Unminted(d)
        BY <1>1 DEF Unminted
    <2>2. PhotoFits(d) /\ r5[d] \in CallStates
        BY DEF RightsInv, RightsTypes
    <2>3. Unminted(d)' => r1'.photo # d /\ \A e \in Rights!Calls : r5'[e].prev # d
        BY <1>1, <2>1, <2>2 DEF PhotoFits, RightsConstants
    <2> QED BY <1>1, <2>2, <2>3 DEF PhotoFits
<1> QED BY <1>2, <1>3, <1>4, <1>5, <1>6, <1>7 DEF RightsInv

\* A call that is refused keeps the invariant.
LEMMA RefusedKeeps ==
    ASSUME RightsConstants, RightsInv, NEW c \in Rights!Calls, NEW step \in {"done", "lost"},
           Rights!Ends(c, step), UNCHANGED <<r1, r2, r3, r4, r6, r7>>
    PROVE  RightsInv'
<1>1. PICK v \in CallStates :
          /\ r5' = [r5 EXCEPT ![c] = v]
          /\ v.op = r5[c].op /\ v.step = step
          /\ v.prev = IF r5[c].op = "remove" THEN r5[c].prev ELSE None
    BY OverNow DEF RightsInv, Steps
<1>2. r5'[c] = v BY <1>1, CallNow DEF RightsInv
<1>3. DeletionFits(c)' BY <1>1, <1>2 DEF DeletionFits, ReadFits, Rights!Completing
<1> QED BY <1>1, <1>3, CallMoves

-----------------------------------------------------------------------------
(* The steps that only read.                                               *)

\* A call comes in.
LEMMA EnterKeeps ==
    ASSUME RightsConstants, RightsInv, NEW c \in Rights!Calls, NEW op \in Rights!Ops,
           Rights!Enter(c, op)
    PROVE  RightsInv'
<1>1. PICK row \in IF op = "complete" THEN {r \in Rights!Calls : r2[r].state # "none"}
                                      ELSE {None} :
          r5' = [r5 EXCEPT ![c] = [Rights!NewCall EXCEPT !.op = op, !.step = "entered",
                                                         !.at = r7, !.row = row]]
    BY Zenon DEF Rights!Enter
<1> DEFINE v == [Rights!NewCall EXCEPT !.op = op, !.step = "entered", !.at = r7, !.row = row]
<1>2. v \in CallStates
    BY NewCallType DEF CallStates, Ids, Steps, RightsInv, RightsTypes
<1>3. /\ v.op = op /\ v.step = "entered" /\ v.prev = None /\ v.row = row
      /\ op = "complete" => row \in Rights!Calls
    BY DEF Rights!NewCall
<1>4. r5[c].step = "new" /\ r5[c].op = "none"
    BY DEF Rights!Enter, RightsInv, PhotoFits
<1> HIDE DEF v
<1>5. r5'[c] = v BY <1>1, <1>2, CallNow DEF RightsInv, v
<1>6. r2' = r2 /\ r2[c].state = "none"
    BY <1>4 DEF Rights!Enter, RightsInv, DeletionFits
<1>7. DeletionFits(c)' BY <1>3, <1>5, <1>6 DEF DeletionFits, Rights!Completing
<1> QED BY <1>1, <1>2, <1>3, <1>4, <1>7, CallMoves DEF Rights!Enter, Unminted, v

\* A request for deletion reads the active request.
LEMMA RequestReadKeeps ==
    ASSUME RightsConstants, RightsInv, NEW c \in Rights!Calls, Rights!requestDeletion_Read(c)
    PROVE  RightsInv'
<1> DEFINE row == IF Rights!Active = {} THEN None ELSE CHOOSE r \in Rights!Active : TRUE
           v == [r5[c] EXCEPT !.step = "read", !.row = row]
<1>1. r5[c] \in CallStates /\ r5[c].op = "request" /\ r5[c].step = "entered"
    BY DEF RightsInv, RightsTypes, Rights!requestDeletion_Read, Rights!At
<1>2. /\ row # None => row \in Rights!Calls /\ r2[row].state = "requested"
      /\ row \in Ids
    BY DEF Rights!Active, Ids
<1> HIDE DEF row
<1>3. /\ v \in CallStates /\ v.op = "request" /\ v.step = "read" /\ v.prev = r5[c].prev
      /\ v.row = row
    BY <1>1, <1>2 DEF CallStates, Steps
<1>4. r5' = [r5 EXCEPT ![c] = v]
    BY <1>1 DEF Rights!requestDeletion_Read, row, RightsInv, RightsTypes
<1> HIDE DEF v
<1>5. r5'[c] = v BY <1>3, <1>4, CallNow DEF RightsInv
<1>6. r2' = r2 /\ r2[c].state = "none"
    BY <1>1 DEF Rights!requestDeletion_Read, RightsInv, DeletionFits
<1>7. DeletionFits(c)'
    BY <1>2, <1>3, <1>5, <1>6 DEF DeletionFits, Rights!Completing
<1> QED BY <1>1, <1>3, <1>4, <1>7, CallMoves DEF Rights!requestDeletion_Read

\* A cancellation reads the request it cancels.
LEMMA CancelReadKeeps ==
    ASSUME RightsConstants, RightsInv, NEW c \in Rights!Calls, Rights!cancelDeletion_Read(c)
    PROVE  RightsInv'
<1>1. CASE Rights!Refused(c)
    BY <1>1, RefusedKeeps DEF Rights!Refused, Rights!cancelDeletion_Read
<1>2. CASE ~Rights!Refused(c)
    <2>1. PICK r \in Rights!Active :
              r5' = [r5 EXCEPT ![c].step = "read", ![c].row = r]
        BY <1>2 DEF Rights!cancelDeletion_Read
    <2> DEFINE v == [r5[c] EXCEPT !.step = "read", !.row = r]
    <2>2. r5[c] \in CallStates /\ r5[c].op = "cancel" /\ r5[c].step = "entered"
        BY DEF RightsInv, RightsTypes, Rights!cancelDeletion_Read, Rights!At
    <2>3. r \in Rights!Calls /\ r2[r].state = "requested" /\ r \in Ids
        BY DEF Rights!Active, Ids
    <2>4. /\ v \in CallStates /\ v.op = "cancel" /\ v.step = "read" /\ v.prev = r5[c].prev
          /\ v.row = r
        BY <2>2, <2>3 DEF CallStates, Steps
    <2>5. r5' = [r5 EXCEPT ![c] = v]
        BY <2>1, <2>2 DEF RightsInv, RightsTypes
    <2> HIDE DEF v
    <2>6. r5'[c] = v BY <2>4, <2>5, CallNow DEF RightsInv
    <2>7. UNCHANGED <<r1, r2, r3, r4, r6, r7>>
        BY <1>2 DEF Rights!cancelDeletion_Read
    <2>8. DeletionFits(c)' BY <2>3, <2>4, <2>6, <2>7 DEF DeletionFits, ReadFits, Rights!Completing
    <2> QED BY <2>2, <2>4, <2>5, <2>7, <2>8, CallMoves
<1> QED BY <1>1, <1>2

\* A completion reads the request.
LEMMA CompleteReadKeeps ==
    ASSUME RightsConstants, RightsInv, NEW c \in Rights!Calls, Rights!completeDeletion_Read(c)
    PROVE  RightsInv'
<1>1. CASE Rights!Refused(c)
    BY <1>1, RefusedKeeps DEF Rights!Refused, Rights!completeDeletion_Read
<1>2. CASE ~Rights!Refused(c)
    <2> DEFINE r == r5[c].row
               v == [r5[c] EXCEPT !.step = "read", !.prev = r1.photo, !.token = r2[r].token]
    <2>1. /\ r5[c] \in CallStates /\ r5[c].op = "complete" /\ r5[c].step = "entered"
        BY DEF RightsInv, RightsTypes, Rights!completeDeletion_Read, Rights!At
    <2>2. r \in Rights!Calls
        BY <2>1 DEF RightsInv, DeletionFits
    <2>3. /\ r5' = [r5 EXCEPT ![c].step = "read", ![c].prev = r1.photo,
                              ![c].token = r2[r].token]
          /\ Rights!Completable(r, r5[c].at) /\ UNCHANGED <<r1, r2, r3, r4, r6, r7>>
        BY <1>2 DEF Rights!completeDeletion_Read
    <2>4. r1.photo \in Ids /\ r2[r].token \in Ids
        BY <2>2 DEF RightsInv, RightsTypes, Users, RequestRows
    <2>5. /\ v \in CallStates /\ v.op = "complete" /\ v.step = "read" /\ v.prev = r1.photo
          /\ v.row = r /\ v.token = r2[r].token /\ v.at = r5[c].at
        BY <2>1, <2>4 DEF CallStates, Steps
    <2>6. r5' = [r5 EXCEPT ![c] = v]
        BY <2>1, <2>3 DEF RightsInv, RightsTypes
    <2> HIDE DEF v
    <2>7. r5'[c] = v BY <2>5, <2>6, CallNow DEF RightsInv
    <2>8. DeletionFits(c)'
        BY <2>2, <2>3, <2>5, <2>7 DEF DeletionFits, ReadFits, Rights!Completing, Rights!Completable
    <2> QED BY <2>1, <2>3, <2>5, <2>6, <2>8, CallMoves
<1> QED BY <1>1, <1>2

\* A call on the profile reads it.
LEMMA ProfileReadKeeps ==
    ASSUME RightsConstants, RightsInv, NEW c \in Rights!Calls,
           NEW op \in {"put", "remove", "patch"}, Rights!Profile_Read(c, op)
    PROVE  RightsInv'
<1>0. r5[c] \in CallStates /\ r5[c].op = op /\ r5[c].step = "entered"
    BY DEF RightsInv, RightsTypes, Rights!Profile_Read, Rights!At
<1>1. CASE Rights!Refused(c)
    BY <1>1, RefusedKeeps DEF Rights!Refused, Rights!Profile_Read
<1>2. CASE /\ r5' = [r5 EXCEPT ![c].step = "read", ![c].prev = r1.photo,
                               ![c].fields = r1.fields]
           /\ UNCHANGED <<r1, r2, r3, r4, r6>>
    <2> DEFINE v == [r5[c] EXCEPT !.step = "read", !.prev = r1.photo, !.fields = r1.fields]
    <2>1. r1.photo \in Ids /\ r1.fields \in [Fields -> BOOLEAN]
        BY DEF RightsInv, RightsTypes, Users
    <2>2. v \in CallStates /\ v.op = op /\ v.step = "read" /\ v.prev = r1.photo
        BY <1>0, <2>1 DEF CallStates, Steps
    <2>3. r5' = [r5 EXCEPT ![c] = v]
        BY <1>0, <1>2 DEF RightsInv, RightsTypes
    <2> HIDE DEF v
    <2>4. r5'[c] = v BY <2>2, <2>3, CallNow DEF RightsInv
    <2>5. DeletionFits(c)' BY <2>2, <2>4 DEF DeletionFits, ReadFits, Rights!Completing
    <2> QED BY <1>0, <1>2, <2>2, <2>3, <2>5, CallMoves DEF Rights!Profile_Read, Unminted
<1>3. CASE Rights!Moves(c, "read") /\ UNCHANGED <<r1, r2, r3, r4, r6>> /\ op = "put"
    <2>1. PICK v \in CallStates : /\ r5' = [r5 EXCEPT ![c] = v]
                                  /\ v.op = r5[c].op /\ v.step = "read" /\ v.prev = r5[c].prev
        BY <1>3, MovesNow DEF RightsInv, Steps
    <2>2. r5'[c] = v BY <2>1, CallNow DEF RightsInv
    <2>3. DeletionFits(c)' BY <1>0, <1>3, <2>1, <2>2 DEF DeletionFits, ReadFits, Rights!Completing
    <2> QED BY <1>0, <1>3, <2>1, <2>3, CallMoves DEF Rights!Profile_Read, Unminted
<1> QED BY <1>1, <1>2, <1>3 DEF Rights!Profile_Read

\* A call dies.
LEMMA DieKeeps ==
    ASSUME RightsConstants, RightsInv, NEW c \in Rights!Calls, Rights!Die(c)
    PROVE  RightsInv'
BY RefusedKeeps DEF Rights!Die

-----------------------------------------------------------------------------
(* The steps that commit.                                                  *)

\* When a call is over, it fits whatever the rows are: what remains is what it committed.
LEMMA OverFits ==
    ASSUME RightsConstants, RightsTypes, NEW c \in Rights!Calls, PhotoFits(c),
           Rights!Ends(c, "done")
    PROVE  /\ r5' \in [Rights!Calls -> CallStates]
           /\ \A d \in Rights!Calls \ {c} : r5'[d] = r5[d]
           /\ r5'[c].op = r5[c].op /\ r5'[c].step = "done"
           /\ r5'[c].prev = (IF r5[c].op = "remove" THEN r5[c].prev ELSE None)
           /\ DeletionFits(c)' /\ PhotoFits(c)'
<1>1. PICK v \in CallStates :
          /\ r5' = [r5 EXCEPT ![c] = v]
          /\ v.op = r5[c].op /\ v.step = "done"
          /\ v.prev = IF r5[c].op = "remove" THEN r5[c].prev ELSE None
    BY OverNow DEF Steps
<1>2. /\ r5' \in [Rights!Calls -> CallStates] /\ r5'[c] = v
      /\ \A d \in Rights!Calls \ {c} : r5'[d] = r5[d]
    BY <1>1, CallNow
<1>3. DeletionFits(c)' /\ PhotoFits(c)'
    BY <1>1, <1>2 DEF DeletionFits, ReadFits, PhotoFits, Rights!Completing, Unminted
<1> QED BY <1>1, <1>2, <1>3

\* A call that is over and has changed a request: what it leaves is as above, and the completions
\* that have read the request miss the change.
LEMMA UnseenFits ==
    ASSUME RightsConstants, RightsTypes, NEW c \in Rights!Calls, PhotoFits(c), NEW r,
           r5[c].step = "read", r5[c].op \in {"request", "cancel"},
           NEW change \in Changes, Rights!EndsUnseen(c, r, change)
    PROVE  /\ r5' \in [Rights!Calls -> CallStates]
           /\ r5'[c].op = r5[c].op /\ r5'[c].step = "done" /\ r5'[c].prev = None
           /\ DeletionFits(c)' /\ PhotoFits(c)'
           /\ \A d \in Rights!Calls \ {c} : Later(d)
           /\ \A d \in Rights!Calls \ {c} :
                 Rights!Completing(d) /\ r5[d].row = r => change \in r5'[d].missed
<1> DEFINE w == Rights!Ended(c, "done")
           m(d) == [r5[d] EXCEPT !.missed = @ \cup {change}]
<1>1. w \in CallStates /\ w.op = r5[c].op /\ w.step = "done" /\ w.prev = None
    <2>1. r5[c] \in CallStates BY DEF RightsTypes
    <2>2. Rights!NewCall \in CallStates BY NewCallType
    <2>3. w = [Rights!NewCall EXCEPT !.op = r5[c].op, !.step = "done", !.prev = None]
        BY DEF Rights!Ended
    <2>4. w \in CallStates BY <2>1, <2>2, <2>3 DEF CallStates, Ids, Steps
    <2> QED BY <2>3, <2>4 DEF Rights!NewCall
<1>2. ASSUME NEW d \in Rights!Calls
      PROVE  /\ m(d) \in CallStates /\ m(d) = [r5[d] EXCEPT !.missed = m(d).missed]
             /\ change \in m(d).missed /\ r5[d].missed \subseteq m(d).missed
    BY DEF RightsTypes, CallStates
<1> HIDE DEF w, m
<1>3. r5' = [d \in Rights!Calls |->
               IF d = c THEN w
               ELSE IF Rights!Completing(d) /\ r5[d].row = r THEN m(d) ELSE r5[d]]
    BY DEF Rights!EndsUnseen, w, m
<1>4. r5' \in [Rights!Calls -> CallStates] /\ r5'[c] = w
    BY <1>1, <1>2, <1>3 DEF RightsTypes
<1>5. ASSUME NEW d \in Rights!Calls \ {c}
      PROVE  Later(d) /\ (Rights!Completing(d) /\ r5[d].row = r => change \in r5'[d].missed)
    <2>1. CASE Rights!Completing(d) /\ r5[d].row = r
        BY <1>2, <1>3, <2>1 DEF Later, RightsTypes, CallStates
    <2>2. CASE ~(Rights!Completing(d) /\ r5[d].row = r)
        BY <1>3, <2>2 DEF Later
    <2> QED BY <2>1, <2>2
<1>6. DeletionFits(c)' /\ PhotoFits(c)'
    BY <1>1, <1>4 DEF DeletionFits, ReadFits, PhotoFits, Rights!Completing, Unminted
<1> QED BY <1>1, <1>4, <1>5, <1>6

\* What holds of the photos still does when nothing but the requests has changed.
LEMMA PhotosStay ==
    ASSUME RightsConstants, RightsInv, NEW c \in Rights!Calls, UNCHANGED <<r1, r4>>,
           r5[c].step = "read", r5[c].op \in {"request", "cancel"}, r5'[c].op = r5[c].op,
           r5'[c].step = "done", r5'[c].prev = None,
           \A d \in Rights!Calls \ {c} : Later(d)
    PROVE  /\ Rights!ProfilePhotoIsServed'
           /\ \A d \in Rights!Calls \ {c} : PhotoFits(d)'
<1>1. Rights!ProfilePhotoIsServed'
    BY DEF RightsInv, Rights!ProfilePhotoIsServed, Later
<1>2. ASSUME NEW d \in Rights!Calls \ {c} PROVE PhotoFits(d)'
    <2>1. PhotoFits(d) /\ Later(d) BY DEF RightsInv
    <2>2. Unminted(d)' = Unminted(d) BY <2>1 DEF Unminted, Later
    <2>3. Unminted(d) => \A e \in Rights!Calls : r5'[e].prev # d
        BY <2>1 DEF PhotoFits, Later, RightsConstants
    <2> QED BY <2>1, <2>2, <2>3 DEF PhotoFits, Later
<1> QED BY <1>1, <1>2

\* A request for deletion replaces the receipt of the row it has read, or inserts its own.
LEMMA RequestWriteKeeps ==
    ASSUME RightsConstants, RightsInv, NEW c \in Rights!Calls, Rights!requestDeletion_Write(c)
    PROVE  RightsInv'
<1> DEFINE r == r5[c].row
<1>0. /\ r5[c] \in CallStates /\ r5[c].op = "request" /\ r5[c].step = "read"
      /\ DeletionFits(c) /\ PhotoFits(c) /\ r \in Ids /\ c \in Ids
    BY DEF RightsInv, RightsTypes, Rights!requestDeletion_Write, Rights!At, CallStates, Ids
<1>1. CASE Rights!Refused(c)
    BY <1>1, RefusedKeeps DEF Rights!Refused, Rights!requestDeletion_Write
<1>2. CASE ~Rights!Refused(c) /\ r # None
    <2>1. /\ Rights!EndsUnseen(c, r, "receipt") /\ UNCHANGED <<r1, r3, r4, r7>> /\ r1.present
          /\ r2' = Rights!Rotated(r, c) /\ r6' = [row |-> r, token |-> c]
        BY <1>2 DEF Rights!requestDeletion_Write
    <2>2. r \in Rights!Calls /\ r2[r] \in RequestRows /\ r2[r].state # "none"
        BY <1>0, <1>2, <2>1 DEF RightsInv, RightsTypes, DeletionFits, Ids
    <2> DEFINE w == [r2[r] EXCEPT !.token = c]
    <2>3. w \in RequestRows /\ w.state = r2[r].state /\ w.deadline = r2[r].deadline /\ w.token = c
        BY <1>0, <2>2 DEF RequestRows
    <2>4. r2' = [r2 EXCEPT ![r] = w]
        BY <2>1, <2>2 DEF Rights!Rotated, RightsInv, RightsTypes
    <2>5. /\ r5' \in [Rights!Calls -> CallStates]
          /\ r5'[c].op = "request" /\ r5'[c].step = "done" /\ r5'[c].prev = None
          /\ PhotoFits(c)' /\ \A d \in Rights!Calls \ {c} : Later(d)
          /\ \A d \in Rights!Calls \ {c} :
                Rights!Completing(d) /\ r5[d].row = r => "receipt" \in r5'[d].missed
        BY <1>0, <2>1, UnseenFits DEF RightsInv, Changes
    <2> HIDE DEF w, r
    <2>6. /\ r2' \in [Rights!Calls -> RequestRows] /\ r6' \in [row : Ids, token : Ids]
          /\ r6'.row = r /\ r6'.token = c /\ r2'[r].token = c
          /\ \A q \in Rights!Calls : r2'[q].state = r2[q].state /\ r2'[q].deadline = r2[q].deadline
          /\ \A q \in Rights!Calls \ {r} : r2'[q].token = r2[q].token
        BY <1>0, <2>1, <2>2, <2>3, <2>4 DEF RightsInv, RightsTypes
    <2>7. RightsTypes' BY <2>1, <2>5, <2>6 DEF RightsInv, RightsTypes
    <2>8. AccountFits' BY <2>1, <2>6 DEF RightsInv, AccountFits, Rights!Erased
    <2>9. HeldFits' BY <2>1, <2>2, <2>6 DEF HeldFits
    <2>10. ASSUME NEW d \in Rights!Calls PROVE DeletionFits(d)'
        <3>1. CASE d = c
            BY <2>5, <3>1 DEF DeletionFits, ReadFits, Rights!Completing
        <3>2. CASE d # c
            <4>1. DeletionFits(d) /\ Later(d) /\ r5[d] \in CallStates
                BY <2>5, <3>2 DEF RightsInv, RightsTypes
            <4>2. Rights!Completing(d) /\ r1.present => ReadFits(d)'
                BY <2>5, <2>6, <3>2, <4>1 DEF DeletionFits, ReadFits, Rights!Completing, Later
            <4> QED BY <2>1, <2>6, <4>1, <4>2
                    DEF DeletionFits, ReadFits, Rights!Completing, Later, CallStates, Ids
        <3> QED BY <3>1, <3>2
    <2>11. /\ Rights!ProfilePhotoIsServed'
           /\ \A d \in Rights!Calls \ {c} : PhotoFits(d)'
        BY <1>0, <2>1, <2>5, PhotosStay
    <2> QED BY <2>5, <2>7, <2>8, <2>9, <2>10, <2>11 DEF RightsInv
<1>3. CASE ~Rights!Refused(c) /\ r = None
    <2> DEFINE w == [state |-> "requested", deadline |-> r5[c].at + Window, token |-> c]
    <2>1. /\ Rights!Ends(c, "done") /\ UNCHANGED <<r1, r3, r4, r7>> /\ r1.present
          /\ \A q \in Rights!Calls : r2[q].state # "requested"
          /\ r2' = [r2 EXCEPT ![c] = w] /\ r6' = [row |-> c, token |-> c]
        BY <1>3 DEF Rights!requestDeletion_Write, Rights!Active
    <2>2. w \in RequestRows /\ w.state = "requested" /\ w.token = c
        <3>1. r5[c].at \in 0..DataClock BY <1>0 DEF CallStates
        <3> QED BY <1>0, <3>1 DEF RequestRows, RightsConstants
    <2>3. /\ r5' \in [Rights!Calls -> CallStates]
          /\ \A d \in Rights!Calls \ {c} : r5'[d] = r5[d]
          /\ r5'[c].op = "request" /\ r5'[c].step = "done" /\ r5'[c].prev = None
          /\ DeletionFits(c)' /\ PhotoFits(c)'
        BY <1>0, <2>1, OverFits DEF RightsInv
    <2> HIDE DEF w, r
    <2>4. /\ r2' \in [Rights!Calls -> RequestRows] /\ r6' \in [row : Ids, token : Ids]
          /\ r6'.row = c /\ r6'.token = c /\ r2'[c].token = c /\ r2'[c].state = "requested"
          /\ \A q \in Rights!Calls \ {c} : r2'[q] = r2[q]
        BY <1>0, <2>1, <2>2 DEF RightsInv, RightsTypes
    <2>5. r2[c].state = "none" BY <1>0 DEF DeletionFits
    <2>6. RightsTypes' BY <2>1, <2>3, <2>4 DEF RightsInv, RightsTypes
    <2>7. AccountFits' BY <2>1, <2>4 DEF RightsInv, AccountFits, Rights!Erased
    <2>8. HeldFits' BY <2>1, <2>4 DEF HeldFits
    <2>9. ASSUME NEW d \in Rights!Calls \ {c} PROVE DeletionFits(d)'
        <3>1. DeletionFits(d) /\ r5'[d] = r5[d] /\ r5[d] \in CallStates
            BY <2>3 DEF RightsInv, RightsTypes
        <3>2. Rights!Completing(d) /\ r1.present => ReadFits(d)'
            <4>1. SUFFICES ASSUME Rights!Completing(d), r1.present PROVE ReadFits(d)' OBVIOUS
            <4>2. r5[d].row \in Rights!Calls /\ ReadFits(d)
                BY <3>1, <4>1 DEF DeletionFits, ReadFits, Rights!Completing
            <4>3. r5[d].row # c BY <2>5, <4>2 DEF ReadFits
            <4> QED BY <2>4, <3>1, <4>2, <4>3 DEF ReadFits
        <3> QED BY <2>1, <2>4, <2>5, <3>1, <3>2
                DEF DeletionFits, ReadFits, Rights!Completing, CallStates, Ids
    <2>10. /\ Rights!ProfilePhotoIsServed'
           /\ \A d \in Rights!Calls \ {c} : PhotoFits(d)'
        BY <1>0, <2>1, <2>3, PhotosStay DEF Later
    <2> QED BY <2>3, <2>6, <2>7, <2>8, <2>9, <2>10 DEF RightsInv
<1> QED BY <1>1, <1>2, <1>3

\* A cancellation takes effect on a row that is still requested.
LEMMA CancelWriteKeeps ==
    ASSUME RightsConstants, RightsInv, NEW c \in Rights!Calls, Rights!cancelDeletion_Write(c)
    PROVE  RightsInv'
<1> DEFINE r == r5[c].row
<1>1. CASE Rights!Refused(c)
    BY <1>1, RefusedKeeps DEF Rights!Refused, Rights!cancelDeletion_Write
<1>2. CASE ~Rights!Refused(c)
    <2>1. /\ r5[c] \in CallStates /\ r5[c].op = "cancel" /\ r5[c].step = "read" /\ PhotoFits(c)
        BY DEF RightsInv, RightsTypes, Rights!cancelDeletion_Write, Rights!At
    <2>2. /\ Rights!EndsUnseen(c, r, "cancellation") /\ UNCHANGED <<r1, r3, r4, r6, r7>>
          /\ r1.present
          /\ r2' = [r2 EXCEPT ![r].state = IF @ = "requested" THEN "cancelled" ELSE @]
        BY <1>2 DEF Rights!cancelDeletion_Write
    <2>3. /\ r5' \in [Rights!Calls -> CallStates]
          /\ r5'[c].op = "cancel" /\ r5'[c].step = "done" /\ r5'[c].prev = None
          /\ PhotoFits(c)' /\ \A d \in Rights!Calls \ {c} : Later(d)
          /\ \A d \in Rights!Calls \ {c} :
                Rights!Completing(d) /\ r5[d].row = r => "cancellation" \in r5'[d].missed
        BY <2>1, <2>2, UnseenFits DEF RightsInv, Changes
    <2>4. r \in Rights!Calls /\ r2[r].state # "none" /\ r2[r] \in RequestRows
        BY <2>1, <2>2 DEF RightsInv, RightsTypes, DeletionFits
    <2> DEFINE w == [r2[r] EXCEPT !.state = IF @ = "requested" THEN "cancelled" ELSE @]
    <2>5. /\ w \in RequestRows /\ w.token = r2[r].token /\ w.deadline = r2[r].deadline
          /\ w.state = "cancelled"
        BY <2>4 DEF RequestRows
    <2>6. r2' = [r2 EXCEPT ![r] = w]
        BY <2>2, <2>4 DEF RightsInv, RightsTypes
    <2> HIDE DEF w, r
    <2>7. /\ r2' \in [Rights!Calls -> RequestRows]
          /\ \A q \in Rights!Calls : /\ r2'[q].state = "none" <=> r2[q].state = "none"
                                     /\ r2'[q].state = "requested" => r2[q].state = "requested"
                                     /\ r2'[q].token = r2[q].token
                                     /\ r2'[q].deadline = r2[q].deadline
          /\ \A q \in Rights!Calls \ {r} : r2'[q] = r2[q]
          /\ r2'[r].state = "cancelled"
        BY <2>4, <2>5, <2>6 DEF RightsInv, RightsTypes
    <2>8. RightsTypes' BY <2>2, <2>3, <2>7 DEF RightsInv, RightsTypes
    <2>9. AccountFits' BY <2>2, <2>7 DEF RightsInv, AccountFits, Rights!Erased
    <2>10. HeldFits'
        BY <2>2, <2>7 DEF RightsInv, RightsTypes, HeldFits, Ids
    <2>11. /\ Rights!ProfilePhotoIsServed'
           /\ \A d \in Rights!Calls \ {c} : PhotoFits(d)'
        BY <2>1, <2>2, <2>3, PhotosStay
    <2>12. ASSUME NEW d \in Rights!Calls PROVE DeletionFits(d)'
        <3>1. CASE d = c
            BY <2>3, <3>1 DEF DeletionFits, ReadFits, Rights!Completing
        <3>2. CASE d # c
            <4>1. DeletionFits(d) /\ Later(d) /\ r5[d] \in CallStates
                BY <2>3, <3>2 DEF RightsInv, RightsTypes
            <4>2. Rights!Completing(d) /\ r1.present => ReadFits(d)'
                BY <2>3, <2>7, <3>2, <4>1 DEF DeletionFits, ReadFits, Rights!Completing, Later
            <4> QED BY <2>2, <2>7, <4>1, <4>2
                    DEF DeletionFits, ReadFits, Rights!Completing, Later, CallStates, Ids
        <3> QED BY <3>1, <3>2
    <2> QED BY <2>3, <2>8, <2>9, <2>10, <2>11, <2>12 DEF RightsInv
<1> QED BY <1>1, <1>2

\* A completion erases the account and leaves the tombstone of the request it has read.
LEMMA CompleteWriteKeeps ==
    ASSUME RightsConstants, RightsInv, NEW c \in Rights!Calls, Rights!completeDeletion_Write(c)
    PROVE  RightsInv'
<1> DEFINE r == r5[c].row
<1>0. /\ Rights!Completing(c) /\ r5[c] \in CallStates /\ DeletionFits(c) /\ AccountFits
      /\ r \in Rights!Calls
    BY DEF RightsInv, RightsTypes, Rights!completeDeletion_Write, Rights!At, Rights!Completing,
        DeletionFits
<1>1. CASE Rights!Refused(c)
    BY <1>1, RefusedKeeps DEF Rights!Refused, Rights!completeDeletion_Write
<1>2. CASE ~Rights!Refused(c)
    <2>1. /\ ~Rights!Erased /\ r1.present /\ ReadFits(c)
          /\ r3' = [r3 EXCEPT ![r] = Rights!Tombstone(c)]
          /\ r1' = [r1 EXCEPT !.present = FALSE, !.photo = None]
          /\ r2' = [d \in Rights!Calls |-> Rights!NoRequest]
          /\ Rights!Moves(c, "clean") /\ UNCHANGED <<r4, r6, r7>>
        BY <1>0, <1>2 DEF Rights!completeDeletion_Write, DeletionFits, AccountFits
    <2>2. PICK v \in CallStates : /\ r5' = [r5 EXCEPT ![c] = v] /\ v.op = "complete"
                                  /\ v.step = "clean" /\ v.prev = r5[c].prev
        BY <1>0, <2>1, MovesNow DEF RightsInv, Steps, Rights!Completing
    <2>3. /\ r5' \in [Rights!Calls -> CallStates] /\ r5'[c] = v
          /\ \A d \in Rights!Calls \ {c} : r5'[d] = r5[d]
        BY <2>2, CallNow DEF RightsInv
    <2>4. r1' \in Users /\ ~r1'.present /\ r1'.photo = None
        BY <2>1 DEF RightsInv, RightsTypes, Users, Ids
    <2>5. /\ r2' \in [Rights!Calls -> RequestRows]
          /\ \A q \in Rights!Calls : r2'[q].state = "none"
        BY <2>1 DEF Rights!NoRequest, RequestRows, Ids, RightsConstants
    <2>6. /\ Rights!Tombstone(c) \in TombRows /\ Rights!Tombstone(c).done
          /\ \/ Rights!Tombstone(c).token = r2[r].token
             \/ "receipt" \in Rights!Tombstone(c).missed
        BY <1>0, <2>1 DEF Rights!Tombstone, TombRows, CallStates, ReadFits
    <2> HIDE DEF r
    <2>7. /\ r3' \in [Rights!Calls -> TombRows] /\ r3'[r].done
          /\ r3'[r].token = r2[r].token \/ "receipt" \in r3'[r].missed
        BY <1>0, <2>1, <2>6 DEF RightsInv, RightsTypes
    <2>8. RightsTypes' BY <2>1, <2>3, <2>4, <2>5, <2>7 DEF RightsInv, RightsTypes
    <2>9. AccountFits'
        BY <1>0, <2>4, <2>5, <2>7 DEF AccountFits, Rights!Erased
    <2>10. HeldFits'
        BY <1>0, <2>1, <2>4, <2>7 DEF RightsInv, RightsTypes, HeldFits
    <2>11. Rights!ProfilePhotoIsServed'
        BY <2>4 DEF Rights!ProfilePhotoIsServed
    <2>12. ASSUME NEW d \in Rights!Calls PROVE DeletionFits(d)' /\ PhotoFits(d)'
        <3>1. DeletionFits(d) /\ PhotoFits(d) /\ (d # c => r5'[d] = r5[d])
            BY <2>3 DEF RightsInv
        <3>2. DeletionFits(d)'
            BY <2>2, <2>3, <2>4, <2>5, <3>1 DEF DeletionFits, ReadFits, Rights!Completing
        <3>3. \A e \in Rights!Calls : r5'[e].prev = r5[e].prev
            BY <2>2, <2>3
        <3>4. PhotoFits(d)'
            BY <1>0, <2>1, <2>2, <2>3, <2>4, <3>1, <3>3
               DEF PhotoFits, Unminted, Rights!Completing, RightsConstants
        <3> QED BY <3>2, <3>4
    <2> QED BY <2>8, <2>9, <2>10, <2>11, <2>12 DEF RightsInv
<1> QED BY <1>1, <1>2

\* Objects that the profile does not name and that no upload is about to enter into it may
\* leave the store.
LEMMA StoreFits ==
    ASSUME RightsConstants, RightsInv, NEW c \in Rights!Calls, NEW gone,
           r4' = r4 \ {gone}, UNCHANGED <<r1, r2, r3, r6, r7>>,
           r5' \in [Rights!Calls -> CallStates],
           \A d \in Rights!Calls \ {c} : r5'[d] = r5[d],
           DeletionFits(c)', PhotoFits(c)', r5'[c].step \notin {"new", "read"}, ~Unminted(c)',
           r5'[c].prev \in {None, r5[c].prev},
           r5[c].op = "remove" => r5'[c].op = "remove" /\ r5'[c].prev = r5[c].prev,
           gone \in {c, r5[c].prev},
           gone = r1.photo =>
              r1.photo = None \/ (r5[c].op = "remove" /\ r5[c].prev = gone)
    PROVE  RightsInv'
<1>1. RightsTypes' BY DEF RightsInv, RightsTypes
<1>2. AccountFits' BY DEF RightsInv, AccountFits, Rights!Erased
<1>3. HeldFits' BY DEF RightsInv, HeldFits
<1>4. Rights!ProfilePhotoIsServed'
    <2>1. CASE r1.photo = None \/ (r1.photo \in r4 /\ gone # r1.photo)
        <3>1. r1'.photo = None \/ r1'.photo \in r4'
            BY <2>1
        <3> QED BY <3>1 DEF Rights!ProfilePhotoIsServed
    <2>2. CASE r1.photo # None /\ \E d \in Rights!Calls : r5[d].op = "remove" /\ r5[d].prev = r1.photo
        <3>1. PICK d \in Rights!Calls : r5[d].op = "remove" /\ r5[d].prev = r1.photo
            BY <2>2
        <3>2. r5'[d].op = "remove" /\ r5'[d].prev = r1.photo
            BY <3>1
        <3> QED BY <3>2 DEF Rights!ProfilePhotoIsServed
    <2> QED BY <2>1, <2>2 DEF RightsInv, Rights!ProfilePhotoIsServed
<1>5. ASSUME NEW d \in Rights!Calls \ {c} PROVE DeletionFits(d)' /\ PhotoFits(d)'
    <2>1. DeletionFits(d) /\ PhotoFits(d) /\ r5'[d] = r5[d] BY DEF RightsInv
    <2>2. DeletionFits(d)' BY <2>1 DEF DeletionFits, ReadFits, Rights!Completing
    <2>3. Unminted(d)' = Unminted(d) BY <2>1 DEF Unminted
    <2>4. Unminted(d) => r1'.photo # d /\ \A e \in Rights!Calls : r5'[e].prev # d
        BY <2>1 DEF PhotoFits, RightsConstants
    <2>5. r5[d].op = "put" /\ r5[d].step = "stored" => d \in r4'
        BY <2>1 DEF PhotoFits, Unminted
    <2> QED BY <2>1, <2>2, <2>3, <2>4, <2>5 DEF PhotoFits
<1> QED BY <1>1, <1>2, <1>3, <1>4, <1>5 DEF RightsInv

\* A completion removes the photo it has read; the profile names none any more.
LEMMA CompleteCleanKeeps ==
    ASSUME RightsConstants, RightsInv, NEW c \in Rights!Calls, Rights!completeDeletion_Clean(c)
    PROVE  RightsInv'
<1>1. r5[c].op = "complete" /\ r5[c].step = "clean" /\ r1.photo = None /\ PhotoFits(c)
    BY DEF Rights!completeDeletion_Clean, Rights!At, RightsInv, DeletionFits, AccountFits
<1>2. /\ r5' \in [Rights!Calls -> CallStates]
      /\ \A d \in Rights!Calls \ {c} : r5'[d] = r5[d]
      /\ r5'[c].op = "complete" /\ r5'[c].step = "done" /\ r5'[c].prev = None
      /\ DeletionFits(c)' /\ PhotoFits(c)'
    BY <1>1, OverFits DEF RightsInv, Rights!completeDeletion_Clean
<1>3. ~Unminted(c)' BY <1>2 DEF Unminted
<1> QED BY <1>1, <1>2, <1>3, StoreFits DEF Rights!completeDeletion_Clean

\* An upload takes back the object it no longer needs.
LEMMA PutCleanKeeps ==
    ASSUME RightsConstants, RightsInv, NEW c \in Rights!Calls, Rights!putProfilePhoto_Clean(c)
    PROVE  RightsInv'
<1>1. r5[c].op = "put" /\ r5[c].step \in {"clean", "undo"} /\ PhotoFits(c)
    BY DEF Rights!putProfilePhoto_Clean, Rights!At, RightsInv
<1>2. /\ r5' \in [Rights!Calls -> CallStates]
      /\ \A d \in Rights!Calls \ {c} : r5'[d] = r5[d]
      /\ r5'[c].op = "put" /\ r5'[c].step = "done" /\ r5'[c].prev = None
      /\ DeletionFits(c)' /\ PhotoFits(c)'
    BY <1>1, OverFits DEF RightsInv, Rights!putProfilePhoto_Clean
<1> DEFINE gone == IF r5[c].step = "undo" THEN c ELSE r5[c].prev
<1>3. r4' = r4 \ {gone} /\ UNCHANGED <<r1, r2, r3, r6, r7>>
    BY DEF Rights!putProfilePhoto_Clean, Rights!Obsolete
<1>4. gone = r1.photo => r1.photo = None
    BY <1>1 DEF PhotoFits, RightsInv, AccountFits
<1>5. gone \in {c, r5[c].prev} OBVIOUS
<1>6. ~Unminted(c)' BY <1>2 DEF Unminted
<1> HIDE DEF gone
<1> QED BY <1>1, <1>2, <1>3, <1>4, <1>5, <1>6, StoreFits

\* A removal takes the object first; the removal itself accounts for it.
LEMMA DeleteObjectKeeps ==
    ASSUME RightsConstants, RightsInv, NEW c \in Rights!Calls, Rights!deleteProfilePhoto_Object(c)
    PROVE  RightsInv'
<1>1. r5[c].op = "remove" /\ r5[c].step = "read" /\ PhotoFits(c)
    BY DEF Rights!deleteProfilePhoto_Object, Rights!At, RightsInv
<1>2. PICK v \in CallStates : /\ r5' = [r5 EXCEPT ![c] = v] /\ v.op = "remove"
                              /\ v.step = "deleted" /\ v.prev = r5[c].prev
    BY <1>1, MovesNow DEF RightsInv, Steps, Rights!deleteProfilePhoto_Object
<1>3. /\ r5' \in [Rights!Calls -> CallStates] /\ r5'[c] = v
      /\ \A d \in Rights!Calls \ {c} : r5'[d] = r5[d]
    BY <1>2, CallNow DEF RightsInv
<1>4. DeletionFits(c)' /\ PhotoFits(c)' /\ ~Unminted(c)'
    BY <1>2, <1>3 DEF DeletionFits, ReadFits, PhotoFits, Rights!Completing, Unminted
<1>5. r4' = r4 \ {r5[c].prev} /\ UNCHANGED <<r1, r2, r3, r6, r7>>
    BY DEF Rights!deleteProfilePhoto_Object
<1> QED BY <1>1, <1>2, <1>3, <1>4, <1>5, StoreFits

\* An upload puts its object into the store.
LEMMA PutStoreKeeps ==
    ASSUME RightsConstants, RightsInv, NEW c \in Rights!Calls, Rights!putProfilePhoto_Store(c)
    PROVE  RightsInv'
<1>1. r5[c].op = "put" /\ r5[c].step = "read" /\ PhotoFits(c)
    BY DEF Rights!putProfilePhoto_Store, Rights!At, RightsInv
<1>2. PICK v \in CallStates : /\ r5' = [r5 EXCEPT ![c] = v] /\ v.op = "put"
                              /\ v.step = "stored" /\ v.prev = r5[c].prev
    BY <1>1, MovesNow DEF RightsInv, Steps, Rights!putProfilePhoto_Store
<1>3. /\ r5' \in [Rights!Calls -> CallStates] /\ r5'[c] = v
      /\ \A d \in Rights!Calls \ {c} : r5'[d] = r5[d]
    BY <1>2, CallNow DEF RightsInv
<1>4. r4' = r4 \cup {c} /\ UNCHANGED <<r1, r2, r3, r6, r7>>
    BY DEF Rights!putProfilePhoto_Store
<1>5. RightsTypes' BY <1>3, <1>4 DEF RightsInv, RightsTypes
<1>6. AccountFits' BY <1>2, <1>3, <1>4 DEF RightsInv, AccountFits, Rights!Erased
<1>7. HeldFits' BY <1>4 DEF RightsInv, HeldFits
<1>8. Rights!ProfilePhotoIsServed'
    BY <1>1, <1>2, <1>3, <1>4 DEF RightsInv, Rights!ProfilePhotoIsServed
<1>9. ASSUME NEW d \in Rights!Calls PROVE DeletionFits(d)' /\ PhotoFits(d)'
    <2>1. DeletionFits(d) /\ PhotoFits(d) BY DEF RightsInv
    <2>2. DeletionFits(d)' BY <1>2, <1>3, <1>4, <2>1 DEF DeletionFits, ReadFits, Rights!Completing
    <2>3. Unminted(d)' => Unminted(d) BY <1>1, <1>2, <1>3 DEF Unminted
    <2>4. Unminted(d) => r1'.photo # d /\ \A e \in Rights!Calls : r5'[e].prev # d
        BY <1>2, <1>3, <1>4, <2>1 DEF PhotoFits
    <2> QED BY <1>2, <1>3, <1>4, <2>1, <2>2, <2>3, <2>4 DEF PhotoFits
<1> QED BY <1>5, <1>6, <1>7, <1>8, <1>9 DEF RightsInv

\* An upload enters its object into the profile, if there still is one.
LEMMA PutMetadataKeeps ==
    ASSUME RightsConstants, RightsInv, NEW c \in Rights!Calls, Rights!setProfilePhotoMetadata(c)
    PROVE  RightsInv'
<1>1. r5[c].op = "put" /\ r5[c].step = "stored" /\ PhotoFits(c) /\ c \in r4 /\ c # None
    BY DEF Rights!setProfilePhotoMetadata, Rights!At, RightsInv, PhotoFits, RightsConstants
<1>2. CASE ~r1.present /\ r1' = r1 /\ Rights!Moves(c, "undo")
    <2>1. PICK v \in CallStates : /\ r5' = [r5 EXCEPT ![c] = v] /\ v.op = "put"
                                  /\ v.step = "undo" /\ v.prev = r5[c].prev
        BY <1>1, <1>2, MovesNow DEF RightsInv, Steps
    <2>2. r5'[c] = v BY <2>1, CallNow DEF RightsInv
    <2>3. DeletionFits(c)' BY <2>1, <2>2 DEF DeletionFits, ReadFits, Rights!Completing
    <2> QED BY <1>1, <1>2, <2>1, <2>3, CallMoves DEF Rights!setProfilePhotoMetadata
<1>3. CASE r1.present /\ r1' = [r1 EXCEPT !.photo = c] /\ Rights!Moves(c, "clean")
    <2>1. PICK v \in CallStates : /\ r5' = [r5 EXCEPT ![c] = v] /\ v.op = "put"
                                  /\ v.step = "clean" /\ v.prev = r5[c].prev
        BY <1>1, <1>3, MovesNow DEF RightsInv, Steps
    <2>2. /\ r5' \in [Rights!Calls -> CallStates] /\ r5'[c] = v
          /\ \A d \in Rights!Calls \ {c} : r5'[d] = r5[d]
        BY <2>1, CallNow DEF RightsInv
    <2>3. UNCHANGED <<r2, r3, r4, r6, r7>> BY DEF Rights!setProfilePhotoMetadata
    <2>4. r1' \in Users /\ r1'.photo = c /\ r1'.present
        BY <1>3 DEF RightsInv, RightsTypes, Users, Ids
    <2>5. RightsTypes' BY <2>2, <2>3, <2>4 DEF RightsInv, RightsTypes
    <2>6. AccountFits'
        BY <1>3, <2>1, <2>2, <2>3, <2>4 DEF RightsInv, AccountFits, Rights!Erased
    <2>7. HeldFits' BY <1>3, <2>3, <2>4 DEF RightsInv, HeldFits
    <2>8. Rights!ProfilePhotoIsServed'
        BY <1>1, <2>3, <2>4 DEF Rights!ProfilePhotoIsServed
    <2>9. ASSUME NEW d \in Rights!Calls PROVE DeletionFits(d)' /\ PhotoFits(d)'
        <3>1. DeletionFits(d) /\ PhotoFits(d) BY DEF RightsInv
        <3>2. DeletionFits(d)'
            BY <1>3, <2>1, <2>2, <2>3, <2>4, <3>1 DEF DeletionFits, ReadFits, Rights!Completing
        <3>3. Unminted(d)' => Unminted(d) /\ d # c BY <1>1, <2>1, <2>2 DEF Unminted
        <3>4. \A e \in Rights!Calls : r5'[e].prev = r5[e].prev BY <2>1, <2>2
        <3>5. \A e \in Rights!Calls : r5[e].prev # c
            BY <1>1 DEF PhotoFits, Unminted
        <3> QED BY <1>1, <1>3, <2>1, <2>2, <2>3, <2>4, <3>1, <3>2, <3>3, <3>4, <3>5 DEF PhotoFits
    <2> QED BY <2>5, <2>6, <2>7, <2>8, <2>9 DEF RightsInv
<1> QED BY <1>2, <1>3 DEF Rights!setProfilePhotoMetadata

\* The profile changes in a column that names no photo, or forgets its photo.
LEMMA ProfileKeeps ==
    ASSUME RightsConstants, RightsInv, NEW c \in Rights!Calls, Rights!Ends(c, "done"),
           r1' \in Users, r1'.present = r1.present, r1'.photo \in {r1.photo, None},
           UNCHANGED <<r2, r3, r4, r6, r7>>, r5[c].op \in {"remove", "patch"}
    PROVE  RightsInv'
<1>1. PhotoFits(c) /\ r5[c] \in CallStates BY DEF RightsInv, RightsTypes
<1>2. /\ r5' \in [Rights!Calls -> CallStates]
      /\ \A d \in Rights!Calls \ {c} : r5'[d] = r5[d]
      /\ r5'[c].op = r5[c].op /\ r5'[c].step = "done"
      /\ r5'[c].prev \in {r5[c].prev, None} /\ (r5[c].op = "remove" => r5'[c].prev = r5[c].prev)
      /\ DeletionFits(c)'
    BY <1>1, OverFits DEF RightsInv
<1>3. RightsTypes' BY <1>2 DEF RightsInv, RightsTypes
<1>4. AccountFits' BY <1>2 DEF RightsInv, AccountFits, Rights!Erased
<1>5. HeldFits' BY DEF RightsInv, HeldFits
<1>6. Rights!ProfilePhotoIsServed' BY <1>2 DEF RightsInv, Rights!ProfilePhotoIsServed
<1>7. ASSUME NEW d \in Rights!Calls PROVE DeletionFits(d)' /\ PhotoFits(d)'
    <2>1. DeletionFits(d) /\ PhotoFits(d) BY DEF RightsInv
    <2>2. DeletionFits(d)' BY <1>2, <2>1 DEF DeletionFits, ReadFits, Rights!Completing
    <2>3. Unminted(d)' => Unminted(d) /\ d # c BY <1>2 DEF Unminted
    <2>4. Unminted(d) => r1'.photo # d /\ \A e \in Rights!Calls : r5'[e].prev # d
        BY <1>2, <2>1 DEF PhotoFits, RightsConstants
    <2> QED BY <1>2, <2>1, <2>2, <2>3, <2>4 DEF PhotoFits
<1> QED BY <1>3, <1>4, <1>5, <1>6, <1>7 DEF RightsInv

LEMMA ClearMetadataKeeps ==
    ASSUME RightsConstants, RightsInv, NEW c \in Rights!Calls,
           Rights!clearProfilePhotoMetadata(c)
    PROVE  RightsInv'
<1>1. r5[c].op = "remove"
    BY DEF Rights!clearProfilePhotoMetadata, Rights!At
<1>2. r1' = [r1 EXCEPT !.photo = None] /\ Rights!Ends(c, "done")
      /\ UNCHANGED <<r2, r3, r4, r6, r7>>
    BY DEF Rights!clearProfilePhotoMetadata
<1>3. r1' \in Users /\ r1'.present = r1.present /\ r1'.photo = None
    BY <1>2 DEF RightsInv, RightsTypes, Users, Ids
<1> QED BY <1>1, <1>2, <1>3, ProfileKeeps

LEMMA UpdateProfileKeeps ==
    ASSUME RightsConstants, RightsInv, NEW c \in Rights!Calls, Rights!updateProfile_Write(c)
    PROVE  RightsInv'
<1>1. r5[c].op = "patch" /\ r5[c] \in CallStates
    BY DEF Rights!updateProfile_Write, Rights!At, RightsInv, RightsTypes
<1>2. Rights!Ends(c, "done") /\ UNCHANGED <<r2, r3, r4, r6, r7>>
    BY DEF Rights!updateProfile_Write
<1>3. r1' \in Users /\ r1'.present = r1.present /\ r1'.photo = r1.photo
    <2>1. r1 \in Users BY DEF RightsInv, RightsTypes
    <2>2. CASE r1' = r1 BY <2>1, <2>2
    <2>3. CASE \E f \in Fields : r1' = Rights!Patched(c, f)
        <3>1. PICK f \in Fields : r1' = Rights!Patched(c, f) BY <2>3
        <3> DEFINE g == [r5[c].fields EXCEPT ![f] = TRUE]
        <3>2. g \in [Fields -> BOOLEAN] BY <1>1 DEF CallStates
        <3>3. r1' = [r1 EXCEPT !.fields = g] BY <3>1 DEF Rights!Patched
        <3> HIDE DEF g
        <3> QED BY <2>1, <3>2, <3>3 DEF Users
    <2> QED BY <2>2, <2>3 DEF Rights!updateProfile_Write
<1> QED BY <1>1, <1>2, <1>3, ProfileKeeps

\* Receipts whose window is over are forgotten.
LEMMA PurgeKeeps ==
    ASSUME RightsConstants, RightsInv, Rights!purgeExpiredDeletionReceipts
    PROVE  RightsInv'
<1>1. /\ r3' = [r \in Rights!Calls |-> IF r3[r].at < r7 - Retain
                                       THEN [r3[r] EXCEPT !.token = None] ELSE r3[r]]
      /\ UNCHANGED <<r1, r2, r4, r5, r6, r7>>
    BY DEF Rights!purgeExpiredDeletionReceipts
<1>2. ASSUME NEW r \in Rights!Calls
      PROVE  /\ r3'[r] \in TombRows /\ r3'[r].done = r3[r].done /\ r3'[r].at = r3[r].at
             /\ r3'[r].token = r3[r].token \/ r3[r].at < r7 - Retain
    <2>1. r3[r] \in TombRows BY DEF RightsInv, RightsTypes
    <2>2. [r3[r] EXCEPT !.token = None] \in TombRows BY <2>1 DEF TombRows, Ids
    <2> QED BY <1>1, <2>1, <2>2 DEF TombRows
<1>3. RightsTypes'
    <2>1. r3' \in [Rights!Calls -> TombRows] BY <1>1, <1>2
    <2> QED BY <1>1, <2>1 DEF RightsInv, RightsTypes
<1>4. AccountFits' BY <1>1, <1>2 DEF RightsInv, AccountFits, Rights!Erased
<1>5. HeldFits'
    <2>1. r6.row # None => r6.row \in Rights!Calls BY DEF RightsInv, RightsTypes, Ids
    <2> QED BY <1>1, <1>2, <2>1 DEF RightsInv, HeldFits
<1>6. Rights!ProfilePhotoIsServed' BY <1>1 DEF RightsInv, Rights!ProfilePhotoIsServed
<1>7. ASSUME NEW d \in Rights!Calls PROVE DeletionFits(d)' /\ PhotoFits(d)'
    BY <1>1 DEF RightsInv, DeletionFits, ReadFits, PhotoFits, Rights!Completing, Unminted
<1> QED BY <1>3, <1>4, <1>5, <1>6, <1>7 DEF RightsInv

\* Time passes.
LEMMA RightsTickKeeps ==
    ASSUME RightsConstants, RightsInv, UNCHANGED <<r1, r2, r3, r4, r5, r6>>,
           r7' \in 0..DataClock, r7 <= r7'
    PROVE  RightsInv'
<1>1. RightsTypes' BY DEF RightsInv, RightsTypes
<1>2. AccountFits' BY DEF RightsInv, AccountFits, Rights!Erased
<1>3. HeldFits'
    <2>1. r6.row # None => r6.row \in Rights!Calls /\ r3[r6.row].at \in 0..DataClock
        BY DEF RightsInv, RightsTypes, TombRows, Ids
    <2>2. r7 \in 0..DataClock BY DEF RightsInv, RightsTypes
    <2> QED BY <2>1, <2>2 DEF RightsInv, HeldFits, RightsConstants
<1>4. Rights!ProfilePhotoIsServed' BY DEF RightsInv, Rights!ProfilePhotoIsServed
<1>5. ASSUME NEW d \in Rights!Calls PROVE DeletionFits(d)' /\ PhotoFits(d)'
    BY DEF RightsInv, DeletionFits, ReadFits, PhotoFits, Rights!Completing, Unminted
<1> QED BY <1>1, <1>2, <1>3, <1>4, <1>5 DEF RightsInv

-----------------------------------------------------------------------------
(* The machine: its invariant, and the policy it follows.                  *)

LEMMA RightsStepInv ==
    ASSUME RightsConstants, RightsInv, Rights!DataNext
    PROVE  RightsInv'
<1>1. CASE \E c \in Rights!Calls, op \in Rights!Ops : Rights!Enter(c, op)
    BY <1>1, EnterKeeps
<1>2. CASE Rights!purgeExpiredDeletionReceipts
    BY <1>2, PurgeKeeps
<1>3. CASE Rights!Tick
    <2>1. r7 \in 0..DataClock BY DEF RightsInv, RightsTypes
    <2> QED BY <1>3, <2>1, RightsTickKeeps DEF Rights!Tick, RightsConstants
<1>4. ASSUME NEW c \in Rights!Calls,
             \/ Rights!requestDeletion_Read(c) \/ Rights!requestDeletion_Write(c)
             \/ Rights!cancelDeletion_Read(c) \/ Rights!cancelDeletion_Write(c)
      PROVE  RightsInv'
    BY <1>4, RequestReadKeeps, RequestWriteKeeps, CancelReadKeeps, CancelWriteKeeps
<1>5. ASSUME NEW c \in Rights!Calls,
             \/ Rights!completeDeletion_Read(c) \/ Rights!completeDeletion_Write(c)
             \/ Rights!completeDeletion_Clean(c) \/ Rights!Die(c)
      PROVE  RightsInv'
    BY <1>5, CompleteReadKeeps, CompleteWriteKeeps, CompleteCleanKeeps, DieKeeps
<1>6. ASSUME NEW c \in Rights!Calls,
             \/ \E op \in {"put", "remove", "patch"} : Rights!Profile_Read(c, op)
             \/ Rights!putProfilePhoto_Store(c) \/ Rights!setProfilePhotoMetadata(c)
             \/ Rights!putProfilePhoto_Clean(c)
      PROVE  RightsInv'
    BY <1>6, ProfileReadKeeps, PutStoreKeeps, PutMetadataKeeps, PutCleanKeeps
<1>7. ASSUME NEW c \in Rights!Calls,
             \/ Rights!deleteProfilePhoto_Object(c) \/ Rights!clearProfilePhotoMetadata(c)
             \/ Rights!updateProfile_Write(c)
      PROVE  RightsInv'
    BY <1>7, DeleteObjectKeeps, ClearMetadataKeeps, UpdateProfileKeeps
<1> QED BY <1>1, <1>2, <1>3, <1>4, <1>5, <1>6, <1>7 DEF Rights!DataNext

LEMMA RightsStutterInv ==
    ASSUME RightsConstants, RightsInv, UNCHANGED rightsVars PROVE RightsInv'
<1>1. r7 \in 0..DataClock BY DEF RightsInv, RightsTypes
<1> QED BY <1>1, RightsTickKeeps DEF rightsVars, RightsConstants

\* What the invariant says of the properties.
LEMMA RightsInvImplies ==
    ASSUME RightsConstants, RightsInv
    PROVE  Rights!DataTypeOK /\ Rights!ReceiptAnswers /\ Rights!ProfilePhotoIsServed
<1>1. Cardinality(Rights!Active) <= 1
    <2>1. CASE Rights!Active = {}
        BY <2>1, FS_EmptySet
    <2>2. CASE Rights!Active # {}
        <3>1. PICK r \in Rights!Calls : Rights!Active = {r}
            BY <2>2 DEF Rights!Active, RightsInv, AccountFits
        <3> QED BY <3>1, FS_Singleton
    <2> QED BY <2>1, <2>2
<1>2. Rights!DataTypeOK
    <2>1. RightsTypes BY DEF RightsInv
    <2>2. Rights!Cardinality(Rights!Active) <= 1
        BY <1>1 DEF Rights!Cardinality, Cardinality
    <2> QED BY <2>1, <2>2 DEF RightsTypes, Rights!DataTypeOK, Users, RequestRows, Ids
<1>3. Rights!ReceiptAnswers
    BY DEF RightsInv, HeldFits, Rights!ReceiptAnswers, Rights!getDeletionStatus
<1> QED BY <1>2, <1>3 DEF RightsInv

\* The account never comes back, and goes only by a completion.
LEMMA AccountGoes ==
    ASSUME RightsConstants, RightsInv, Rights!DataNext
    PROVE  /\ ~r1.present => ~r1'.present
           /\ r1.present /\ ~r1'.present =>
                 \E c \in Rights!Calls : Rights!completeDeletion_Write(c)
<1>0. r1 \in Users BY DEF RightsInv, RightsTypes
<1>1. CASE r1' = r1 BY <1>1
<1>2. ASSUME NEW c \in Rights!Calls, Rights!completeDeletion_Write(c)
      PROVE  r1' = r1 \/ ~r1'.present
    BY <1>0, <1>2 DEF Rights!completeDeletion_Write, Rights!Refused, Users
<1>3. ASSUME NEW c \in Rights!Calls,
             \/ Rights!setProfilePhotoMetadata(c) \/ Rights!clearProfilePhotoMetadata(c)
             \/ Rights!updateProfile_Write(c)
      PROVE  r1'.present = r1.present
    <2>1. CASE r1' = r1 \/ r1' = [r1 EXCEPT !.photo = c] \/ r1' = [r1 EXCEPT !.photo = None]
        BY <1>0, <2>1 DEF Users
    <2>2. CASE \E f \in Fields : r1' = Rights!Patched(c, f)
        BY <1>0, <2>2, SMTT(30) DEF Users, Rights!Patched
    <2> QED BY <1>3, <2>1, <2>2 DEF Rights!setProfilePhotoMetadata,
            Rights!clearProfilePhotoMetadata, Rights!updateProfile_Write
<1>4. \/ r1' = r1
      \/ \E c \in Rights!Calls :
            \/ Rights!completeDeletion_Write(c)
            \/ Rights!setProfilePhotoMetadata(c) \/ Rights!clearProfilePhotoMetadata(c)
            \/ Rights!updateProfile_Write(c)
    BY Zenon DEF Rights!DataNext, Rights!Enter, Rights!requestDeletion_Read,
        Rights!requestDeletion_Write, Rights!cancelDeletion_Read, Rights!cancelDeletion_Write,
        Rights!completeDeletion_Read, Rights!completeDeletion_Clean, Rights!Profile_Read,
        Rights!putProfilePhoto_Store, Rights!putProfilePhoto_Clean,
        Rights!deleteProfilePhoto_Object, Rights!Die, Rights!Tick, Rights!Refused,
        Rights!purgeExpiredDeletionReceipts
<1> QED BY <1>1, <1>2, <1>3, <1>4

\* The completion that erases the account began when the window of its request was over, and the
\* request is still made, or was cancelled since.
LEMMA DeletionWasAsked ==
    ASSUME RightsConstants, RightsInv, NEW c \in Rights!Calls, Rights!completeDeletion_Write(c),
           r1.present, ~r1'.present
    PROVE  /\ Rights!Completing(c) /\ r5'[c].step = "clean" /\ r5[c].row \in Rights!Calls
           /\ ReadFits(c)
<1>1. Rights!Completing(c) /\ DeletionFits(c) /\ r5 \in [Rights!Calls -> CallStates]
    BY DEF Rights!completeDeletion_Write, Rights!At, Rights!Completing, RightsInv, RightsTypes
<1>2. Rights!Moves(c, "clean")
    BY DEF Rights!completeDeletion_Write, Rights!Refused
<1>3. r5'[c].step = "clean"
    BY <1>1, <1>2, MovesNow, CallNow DEF RightsInv, Steps
<1> QED BY <1>1, <1>3 DEF DeletionFits, Rights!Completing

\* Every step of the machine moves the account along a transition of the policy, or deletes it on
\* a request that was cancelled too late to be seen.
LEMMA PolicyStep ==
    ASSUME RightsConstants, RightsInv, Rights!DataNext
    PROVE  Rights!FollowsPolicyUnlessOvertaken
<1>1. CASE r1.present /\ ~r1'.present
    <2>1. PICK c \in Rights!Calls : Rights!completeDeletion_Write(c)
        BY <1>1, AccountGoes
    <2>2. /\ Rights!Completing(c) /\ r5'[c].step = "clean" /\ r5[c].row \in Rights!Calls
          /\ ReadFits(c)
        BY <1>1, <2>1, DeletionWasAsked
    <2>3. Rights!lifecycle' = "deleted" BY <1>1 DEF Rights!lifecycle
    <2>4. r2[r5[c].row].state = "requested" => Rights!lifecycle = "deletion-requested"
        BY <1>1, <2>2 DEF Rights!lifecycle, Rights!Active
    <2>5. r2[r5[c].row].state = "requested" =>
             Rights!canTransitionLearnerAccount(Rights!lifecycle, Rights!lifecycle')
        BY <2>3, <2>4 DEF Rights!canTransitionLearnerAccount, Rights!policyTransitions
    <2> QED BY <2>2, <2>3, <2>5 DEF Rights!FollowsPolicyUnlessOvertaken, ReadFits
<1>2. CASE ~(r1.present /\ ~r1'.present)
    <2>1. /\ Rights!lifecycle = "deleted" => Rights!lifecycle' = "deleted"
          /\ Rights!lifecycle' = "deleted" => Rights!lifecycle = "deleted"
          /\ Rights!lifecycle \in {"active", "deletion-requested", "deleted"}
          /\ Rights!lifecycle' \in {"active", "deletion-requested", "deleted"}
        BY <1>2, AccountGoes DEF Rights!lifecycle
    <2> QED BY <2>1 DEF Rights!FollowsPolicyUnlessOvertaken,
            Rights!canTransitionLearnerAccount, Rights!policyTransitions
<1> QED BY <1>1, <1>2

\* A learner's newest deletion receipt answers, before the deletion and after it, and the
\* photo a profile names is in the store, for any number of calls in any interleaving; only
\* a receipt issued between the reads and the batch of the completion is lost.
THEOREM ReceiptsAnswer == RecordsSpec => []ReceiptAnswers
<1> DEFINE I == machine = "rights" => RightsInv
<1>1. RecordsInit => I
    BY RightsConstantsHold, RightsInitInv DEF RecordsInit
<1>2. I /\ [RecordsNext]_<<machine, registers>> => I'
    <2> SUFFICES ASSUME I, [RecordsNext]_<<machine, registers>>, machine' = "rights"
                 PROVE  RightsInv'
        OBVIOUS
    <2>1. machine = "rights" /\ RightsInv
        BY DEF RecordsNext
    <2>2. Rights!DataNext \/ UNCHANGED rightsVars
        BY <2>1 DEF RecordsNext, registers, rightsVars
    <2> QED BY <2>1, <2>2, RightsConstantsHold, RightsStepInv, RightsStutterInv
<1>3. I => ReceiptAnswers
    BY RightsConstantsHold, RightsInvImplies DEF ReceiptAnswers
<1> QED BY <1>1, <1>2, <1>3, PTL DEF RecordsSpec

\* The account only moves along the transitions of the published policy and never comes back,
\* for any number of calls in any interleaving; it is deleted only on a request whose window
\* was over, and which was cancelled, if at all, after the completion had read it
\* (completeDeletion against requestDeletion and cancelDeletion).
THEOREM PolicyIsFollowedUnlessOvertaken == RecordsSpec => FollowsPolicyUnlessOvertaken
<1> DEFINE I == machine = "rights" => RightsInv
<1>1. RecordsInit => I
    BY RightsConstantsHold, RightsInitInv DEF RecordsInit
<1>2. I /\ [RecordsNext]_<<machine, registers>> => I'
    <2> SUFFICES ASSUME I, [RecordsNext]_<<machine, registers>>, machine' = "rights"
                 PROVE  RightsInv'
        OBVIOUS
    <2>1. machine = "rights" /\ RightsInv
        BY DEF RecordsNext
    <2>2. Rights!DataNext \/ UNCHANGED rightsVars
        BY <2>1 DEF RecordsNext, registers, rightsVars
    <2> QED BY <2>1, <2>2, RightsConstantsHold, RightsStepInv, RightsStutterInv
<1>3. I /\ [RecordsNext]_<<machine, registers>> =>
        [machine = "rights" => Rights!FollowsPolicyUnlessOvertaken]_registers
    BY RightsConstantsHold, PolicyStep DEF RecordsNext
<1> QED BY <1>1, <1>2, <1>3, PTL DEF RecordsSpec, FollowsPolicyUnlessOvertaken

-----------------------------------------------------------------------------
(***************************************************************************)
(* Deletion with a receipt, backup and recovery of the learning record     *)
(* (RecordRecovery): the inductive invariant, in three parts.              *)
(*                                                                         *)
(* The registers hold, in the order of the module's variables: r1 whether  *)
(* a batch is serial, r2 the streams, r3 the last event, r4 the receipts,  *)
(* r5 the deletions and r6 their number, r7 the export, r8 the artifact,   *)
(* r9 the target, r10 the replays, r11 the recovery run and r12 their      *)
(* number, r13 what was erased, r14 what was sealed, r15 what was promoted.*)
(***************************************************************************)

Events == Seq(1..MaxEvents)

Streams == [Pair1 -> Events]

ReceiptRows == [learner : Pair1, key : Pair2, events : Events]

Deletions == [pc : {"idle", "list", "insert", "erase"},
              receipt : ReceiptRows \cup {Recovery!NoReceipt}, inserted : BOOLEAN]

\* What a deletion works on has been named when it was begun.
SourceTypes ==
    /\ r1 \in BOOLEAN /\ r2 \in Streams /\ r3 \in 0..MaxEvents /\ r4 \subseteq ReceiptRows
    /\ r5 \in [Deleters -> Deletions] /\ r6 \in 0..MaxDeletes
    /\ \A d \in Deleters : r5[d].pc # "idle" => r5[d].receipt \in ReceiptRows

\* The events of a stream ascend, and the next number is greater.
StreamsAscend ==
    \A x \in Pair1 : /\ \A i \in 2..Len(r2[x]) : r2[x][i - 1] < r2[x][i]
                     /\ \A i \in 1..Len(r2[x]) : r2[x][i] <= r3

SourceInv == SourceTypes /\ StreamsAscend

\* One stream is the beginning of another.
Begins(s, t) == Len(s) <= Len(t) /\ \A i \in 1..Len(s) : s[i] = t[i]

\* On D1, while nobody else deletes the same learner's record: what a deletion has listed is
\* the beginning of the stream, its key is free, and every receipt is exact.
ExactDeletion(d) ==
    /\ r5[d].pc # "erase"
    /\ r5[d].pc # "idle" => Recovery!BoundTo(r5[d].receipt.learner, r5[d].receipt.key) = {}
    /\ r5[d].pc = "insert" => Begins(r5[d].receipt.events, r2[r5[d].receipt.learner])

ExactInv ==
    r1 => (\A d \in Deleters : ExactDeletion(d)) /\ Recovery!ReceiptIsExactEverywhere

\* No two deletions of one learner's record are under way at once.
DeletionsApart ==
    \A d, e \in Deleters :
        d # e /\ r5[d].pc # "idle" /\ r5[e].pc # "idle" =>
            r5[d].receipt.learner # r5[e].receipt.learner

\* The export is over when there is a backup; its stream receipts are those of what was sealed.
BackupInv ==
    /\ r7 \in [pc : {"idle", "list", "again"}, of : Pair1 \cup {"none"}, streams : Streams,
              left : SUBSET Pair1]
    /\ r8 \in [made : BOOLEAN, streams : Streams, receipts : Streams, manifest : Streams,
              old : BOOLEAN]
    /\ r14 \in Streams
    /\ r7.pc = "again" => r7.of \in Pair1
    /\ r7.pc # "idle" => ~r8.made
    /\ r8.made => r8.receipts = r14

RunStates == [pc : {"idle", "restore", "append", "remaining"}, id : Pair3 \cup {"none"},
              of : Pair1 \cup {"none"}, n : Nat, left : SUBSET Pair1,
              todo : SUBSET ReceiptRows, known : SUBSET ReceiptRows]

Replayed == r11.known \ r11.todo

\* A run works on an artifact that is what was sealed.  No deletion is replayed before every
\* stream is restored; a restored stream is complete unless a replayed deletion names it,
\* and then it is empty, but for the one the run is about to list.
RunFits ==
    r11.pc # "idle" =>
       /\ r8.made /\ r8.streams = r14 /\ ~r15.ready
       /\ r11.pc \in {"append", "remaining"} => r11.of \in Pair1
       /\ r11.pc = "append" => r11.of \in r11.left
       /\ r11.left # {} => r11.pc # "remaining" /\ Replayed = {}
       /\ \A x \in Pair1 \ r11.left :
             r9[x] = r14[x] \/ \E c \in Replayed : c.learner = x
       /\ \A c \in Replayed :
             r9[c.learner] = <<>> \/ (r11.pc = "remaining" /\ r11.of = c.learner)

RunInv ==
    /\ r9 \in Streams /\ r11 \in RunStates /\ r12 \in 0..MaxRuns /\ r15.ready \in BOOLEAN
    /\ r11.todo \subseteq r11.known /\ r11.known \subseteq r4
    /\ RunFits
    /\ r15.ready => r8.made
    /\ Recovery!ErasedIsNotPromoted /\ Recovery!RetainedIsComplete

recoveryRegisters == <<r7, r8, r9, r10, r11, r12, r14, r15>>

\* The constants of this machine.
RecoveryConstants == MaxEvents \in Nat /\ MaxDeletes \in Nat /\ MaxRuns \in Nat

LEMMA RecoveryConstantsHold == RecoveryConstants
BY RecordsConstants DEF RecoveryConstants

LEMMA EmptyStream == <<>> \in Events /\ Len(<<>>) = 0
BY EmptySeq DEF Events

LEMMA NoDeletion ==
    /\ Recovery!NoDelete \in Deletions /\ Recovery!NoDelete.pc = "idle"
    /\ Recovery!NoDelete.inserted = FALSE
BY DEF Recovery!NoDelete, Deletions

-----------------------------------------------------------------------------
(* The source.                                                             *)

LEMMA SourceInitInv ==
    ASSUME RecoveryConstants, Recovery!Init PROVE SourceInv /\ ExactInv
<1>1. r2 \in Streams /\ \A x \in Pair1 : r2[x] = <<>>
    BY EmptyStream DEF Recovery!Init, Recovery!Empty, Streams
<1>2. SourceTypes
    BY <1>1, NoDeletion DEF Recovery!Init, SourceTypes, RecoveryConstants
<1>3. StreamsAscend
    <2> SUFFICES ASSUME NEW x \in Pair1
                 PROVE  /\ \A i \in 2..Len(r2[x]) : r2[x][i - 1] < r2[x][i]
                        /\ \A i \in 1..Len(r2[x]) : r2[x][i] <= r3
        BY DEF StreamsAscend
    <2>1. r2[x] = <<>> BY <1>1
    <2>2. 2..Len(r2[x]) = {} /\ 1..Len(r2[x]) = {} BY <2>1
    <2> QED BY <2>2
<1>4. ExactInv
    BY NoDeletion
       DEF Recovery!Init, ExactInv, ExactDeletion, Recovery!ReceiptIsExactEverywhere
<1> QED BY <1>2, <1>3, <1>4 DEF SourceInv

\* A step of one deletion, the streams and receipts left alone.
LEMMA DeletionMoves ==
    ASSUME RecoveryConstants, SourceInv, NEW d \in Deleters, NEW v \in Deletions,
           r5' = [r5 EXCEPT ![d] = v], v.pc # "idle" => v.receipt \in ReceiptRows,
           UNCHANGED <<r1, r2, r3, r4>>, r6' \in 0..MaxDeletes
    PROVE  SourceInv' /\ r5'[d] = v /\ \A e \in Deleters \ {d} : r5'[e] = r5[e]
<1>1. r5' \in [Deleters -> Deletions] /\ r5'[d] = v /\ \A e \in Deleters \ {d} : r5'[e] = r5[e]
    BY DEF SourceInv, SourceTypes
<1>2. SourceTypes' BY <1>1 DEF SourceInv, SourceTypes
<1> QED BY <1>1, <1>2 DEF SourceInv, StreamsAscend

LEMMA AppendKeeps ==
    ASSUME RecoveryConstants, SourceInv, NEW x \in Pair1, Recovery!AppendEvent(x)
    PROVE  SourceInv' /\ (ExactInv => ExactInv')
<1>1. /\ r3 < MaxEvents /\ r3' = r3 + 1 /\ r2' = [r2 EXCEPT ![x] = Append(r2[x], r3 + 1)]
      /\ UNCHANGED <<r1, r4, r5, r6, r13>>
    BY DEF Recovery!AppendEvent, SourceInv, SourceTypes, Streams
<1>2. r3 \in 0..MaxEvents /\ r2 \in Streams /\ r2[x] \in Events
    BY DEF SourceInv, SourceTypes, Streams
<1> DEFINE t == Append(r2[x], r3 + 1)
<1>3. /\ t \in Events /\ Len(t) = Len(r2[x]) + 1 /\ t[Len(t)] = r3 + 1 /\ Len(r2[x]) \in Nat
      /\ \A i \in 1..Len(r2[x]) : t[i] = r2[x][i]
    BY <1>1, <1>2, AppendProperties, LenProperties DEF Events, RecoveryConstants
<1> HIDE DEF t
<1>4. r2' \in Streams /\ r2'[x] = t /\ \A y \in Pair1 \ {x} : r2'[y] = r2[y]
    BY <1>1, <1>2, <1>3 DEF Streams, t
<1>5. SourceTypes'
    BY <1>1, <1>2, <1>4 DEF SourceInv, SourceTypes, RecoveryConstants
<1>6. ASSUME NEW y \in Pair1
      PROVE  /\ \A i \in 2..Len(r2'[y]) : r2'[y][i - 1] < r2'[y][i]
             /\ \A i \in 1..Len(r2'[y]) : r2'[y][i] <= r3'
    <2>1. CASE y # x
        <3>1. /\ \A i \in 2..Len(r2[y]) : r2[y][i - 1] < r2[y][i]
              /\ \A i \in 1..Len(r2[y]) : r2[y][i] <= r3
            BY DEF SourceInv, StreamsAscend
        <3>2. \A i \in 1..Len(r2[y]) : r2[y][i] \in 1..MaxEvents
            BY <1>2, ElementOfSeq DEF Streams, Events
        <3>3. r2'[y] = r2[y] /\ r3' = r3 + 1 BY <1>1, <1>4, <2>1
        <3> QED BY <1>2, <3>1, <3>2, <3>3 DEF RecoveryConstants
    <2>2. CASE y = x
        <3>1. \A i \in 1..Len(r2[x]) : r2[x][i] \in 1..MaxEvents
            BY <1>2, ElementOfSeq DEF Events
        <3>2. \A i \in 2..Len(r2[x]) : r2[x][i - 1] < r2[x][i]
            BY DEF SourceInv, StreamsAscend
        <3>3. \A i \in 1..Len(r2[x]) : r2[x][i] <= r3
            BY DEF SourceInv, StreamsAscend
        <3>4. ASSUME NEW i \in 2..Len(t) PROVE t[i - 1] < t[i]
            <4>1. CASE i \in 1..Len(r2[x])
                <5>1. i \in 2..Len(r2[x]) /\ i - 1 \in 1..Len(r2[x]) BY <1>3, <4>1
                <5> QED BY <1>3, <3>2, <4>1, <5>1
            <4>2. CASE i = Len(r2[x]) + 1
                <5>1. i - 1 \in 1..Len(r2[x]) /\ i - 1 = Len(r2[x]) BY <1>3, <4>2
                <5>2. t[i] = r3 + 1 /\ t[i - 1] = r2[x][i - 1] BY <1>3, <4>2, <5>1
                <5>3. r2[x][i - 1] <= r3 /\ r2[x][i - 1] \in 1..MaxEvents BY <3>1, <3>3, <5>1
                <5> QED BY <1>2, <5>2, <5>3 DEF RecoveryConstants
            <4> QED BY <1>3, <4>1, <4>2
        <3>5. ASSUME NEW i \in 1..Len(t) PROVE t[i] <= r3 + 1
            <4>1. CASE i \in 1..Len(r2[x])
                <5>1. t[i] = r2[x][i] /\ r2[x][i] <= r3 /\ r2[x][i] \in 1..MaxEvents
                    BY <1>3, <3>1, <3>3, <4>1
                <5> QED BY <1>2, <5>1 DEF RecoveryConstants
            <4>2. CASE i = Len(r2[x]) + 1 BY <1>2, <1>3, <4>2 DEF RecoveryConstants
            <4> QED BY <1>3, <4>1, <4>2
        <3> QED BY <1>1, <1>4, <2>2, <3>4, <3>5
    <2> QED BY <2>1, <2>2
<1>7. ASSUME ExactInv PROVE ExactInv'
    <2>1. ASSUME r1, NEW d \in Deleters, r5[d].pc = "insert"
          PROVE  Begins(r5[d].receipt.events, r2'[r5[d].receipt.learner])
        <3>1. /\ r5[d].receipt.learner \in Pair1 /\ r5[d].receipt.events \in Events
              /\ Begins(r5[d].receipt.events, r2[r5[d].receipt.learner])
            BY <1>7, <2>1, SMTT(30) DEF ExactInv, ExactDeletion, SourceInv, SourceTypes, ReceiptRows
        <3>2. Len(r5[d].receipt.events) \in Nat
            BY <3>1 DEF Events
        <3>3. Begins(r5[d].receipt.events, r2[x]) => Begins(r5[d].receipt.events, t)
            BY <1>3, <3>2 DEF Begins
        <3> QED BY <1>4, <3>1, <3>3
    <2> QED BY <1>1, <1>7, <2>1, SMTT(30)
            DEF ExactInv, ExactDeletion, Recovery!BoundTo, Recovery!ReceiptIsExactEverywhere
<1> QED BY <1>5, <1>6, <1>7 DEF SourceInv, StreamsAscend

\* What a deletion does that leaves the streams and receipts alone.
LEMMA ExactMoves ==
    ASSUME SourceInv, ExactInv, NEW d \in Deleters, UNCHANGED <<r1, r2, r4, r13>>,
           \A e \in Deleters \ {d} : r5'[e] = r5[e], r1 => ExactDeletion(d)'
    PROVE  ExactInv'
<1>1. r1 => \A e \in Deleters : ExactDeletion(e)'
    BY DEF ExactInv, ExactDeletion, Recovery!BoundTo
<1> QED BY <1>1 DEF ExactInv, Recovery!ReceiptIsExactEverywhere

LEMMA FindKeeps ==
    ASSUME RecoveryConstants, SourceInv, NEW d \in Deleters, NEW x \in Pair1, NEW k \in Pair2,
           Recovery!FindReceipt(d, x, k)
    PROVE  SourceInv' /\ (ExactInv => ExactInv')
<1> DEFINE row == [learner |-> x, key |-> k, events |-> <<>>]
<1> DEFINE named == [pc |-> "list", receipt |-> row, inserted |-> FALSE]
<1> DEFINE v == IF Recovery!BoundTo(x, k) # {} THEN Recovery!NoDelete ELSE named
<1>1. /\ r5' = [r5 EXCEPT ![d] = v] /\ r6 < MaxDeletes /\ r6' = r6 + 1
      /\ UNCHANGED <<r1, r2, r3, r4, r13>>
    BY DEF Recovery!FindReceipt
<1>2. row \in ReceiptRows /\ row.learner = x /\ row.key = k
    BY EmptyStream DEF ReceiptRows
<1>3. named \in Deletions /\ named.receipt \in ReceiptRows /\ named.pc = "list"
       /\ named.receipt.learner = x /\ named.receipt.key = k
    BY <1>2 DEF Deletions
<1> HIDE DEF named, row
<1>4. v \in Deletions /\ (v.pc # "idle" => v = named)
    BY <1>3, NoDeletion
<1>5. r6' \in 0..MaxDeletes
    BY <1>1 DEF SourceInv, SourceTypes, RecoveryConstants
<1>6. v.pc # "idle" => Recovery!BoundTo(x, k) = {}
    BY NoDeletion
<1> HIDE DEF v
<1>7. SourceInv' /\ r5'[d] = v /\ \A e \in Deleters \ {d} : r5'[e] = r5[e]
    BY <1>1, <1>3, <1>4, <1>5, DeletionMoves
<1>8. v.pc = "idle" \/ v.pc = "list" BY <1>3, <1>4
<1>9. Recovery!BoundTo(x, k)' = Recovery!BoundTo(x, k)
    BY <1>1 DEF Recovery!BoundTo
<1>10. ExactDeletion(d)'
    <2>1. v.pc # "idle" => v.receipt.learner = x /\ v.receipt.key = k BY <1>3, <1>4
    <2>2. Recovery!BoundTo(x, k)' = {c \in r4' : c.learner = x /\ c.key = k}
        BY DEF Recovery!BoundTo
    <2>3. v.pc # "idle" => {c \in r4' : c.learner = v.receipt.learner /\ c.key = v.receipt.key} = {}
        BY <1>6, <1>9, <2>1, <2>2
    <2> QED BY <1>7, <1>8, <2>3 DEF ExactDeletion, Recovery!BoundTo
<1> QED BY <1>1, <1>7, <1>10, ExactMoves

LEMMA ListKeeps ==
    ASSUME RecoveryConstants, SourceInv, NEW d \in Deleters, Recovery!ListErased(d)
    PROVE  SourceInv' /\ (ExactInv => ExactInv')
<1> DEFINE c == r5[d].receipt
<1>1. /\ r5[d] \in Deletions /\ r5[d].pc = "list" /\ c \in ReceiptRows /\ c.learner \in Pair1
      /\ r2[c.learner] \in Events /\ r6 \in 0..MaxDeletes
    BY DEF Recovery!ListErased, SourceInv, SourceTypes, ReceiptRows, Streams
<1> DEFINE v == [r5[d] EXCEPT !.pc = "insert", !.receipt.events = r2[c.learner]]
<1>2. r5' = [r5 EXCEPT ![d] = v] /\ UNCHANGED <<r1, r2, r3, r4, r6, r13>>
    BY DEF Recovery!ListErased, SourceInv, SourceTypes
<1>3. [c EXCEPT !.events = r2[c.learner]] \in ReceiptRows
      /\ [c EXCEPT !.events = r2[c.learner]].learner = c.learner
      /\ [c EXCEPT !.events = r2[c.learner]].key = c.key
      /\ [c EXCEPT !.events = r2[c.learner]].events = r2[c.learner]
    BY <1>1 DEF ReceiptRows
<1>4. v.receipt = [c EXCEPT !.events = r2[c.learner]] /\ v.pc = "insert"
      /\ v.inserted = r5[d].inserted
    BY <1>1 DEF Deletions
<1>5. v \in Deletions
    BY <1>1, <1>3, <1>4 DEF Deletions
<1>6. /\ v.receipt \in ReceiptRows /\ v.receipt.learner = c.learner
      /\ v.receipt.key = c.key /\ v.receipt.events = r2[c.learner]
    BY <1>3, <1>4
<1> HIDE DEF v
<1>7. v.pc = "insert" BY <1>4
<1>8. SourceInv' /\ r5'[d] = v /\ \A e \in Deleters \ {d} : r5'[e] = r5[e]
    BY <1>1, <1>2, <1>5, <1>6, DeletionMoves
<1>9. Len(r2[c.learner]) \in Nat BY <1>1 DEF Events
<1>10. Begins(r2[c.learner], r2[c.learner]) BY <1>9 DEF Begins
<1>11. ASSUME ExactInv, r1 PROVE ExactDeletion(d)'
    <2>1. {b \in r4 : b.learner = c.learner /\ b.key = c.key} = {}
        BY <1>1, <1>11 DEF ExactInv, ExactDeletion, Recovery!BoundTo
    <2>2. {b \in r4' : b.learner = v.receipt.learner /\ b.key = v.receipt.key} = {}
        BY <1>2, <1>6, <2>1
    <2>3. Begins(v.receipt.events, r2'[v.receipt.learner])
        BY <1>2, <1>6, <1>10
    <2> QED BY <1>8, <1>7, <2>2, <2>3 DEF ExactDeletion, Recovery!BoundTo
<1> QED BY <1>2, <1>8, <1>11, ExactMoves

LEMMA InsertKeeps ==
    ASSUME RecoveryConstants, SourceInv, NEW d \in Deleters, Recovery!InsertReceipt(d)
    PROVE  SourceInv' /\ (ExactInv => ExactInv')
<1> DEFINE b == Recovery!Inserts(r5[d].receipt)
<1> DEFINE v == [r5[d] EXCEPT !.pc = "erase", !.inserted = b]
<1>1. /\ ~r1 /\ r5[d].pc = "insert" /\ r5' = [r5 EXCEPT ![d] = v]
      /\ UNCHANGED <<r1, r2, r3, r4, r6, r13>>
    BY DEF Recovery!InsertReceipt, SourceInv, SourceTypes
<1>2. /\ r5[d] \in Deletions /\ r5[d].receipt \in ReceiptRows /\ r6 \in 0..MaxDeletes
    BY <1>1 DEF SourceInv, SourceTypes
<1>3. b \in BOOLEAN BY DEF Recovery!Inserts, Recovery!RevisionFits
<1> HIDE DEF b
<1>4. v \in Deletions /\ v.receipt = r5[d].receipt BY <1>2, <1>3 DEF Deletions
<1> HIDE DEF v
<1>5. SourceInv' BY <1>1, <1>2, <1>4, DeletionMoves
<1>6. ExactInv' BY <1>1 DEF ExactInv
<1> QED BY <1>5, <1>6

LEMMA DeathKeeps ==
    ASSUME RecoveryConstants, SourceInv, NEW d \in Deleters, Recovery!DeleteDies(d)
    PROVE  SourceInv' /\ (ExactInv => ExactInv')
<1>1. /\ r5' = [r5 EXCEPT ![d] = Recovery!NoDelete] /\ UNCHANGED <<r1, r2, r3, r4, r6, r13>>
    BY DEF Recovery!DeleteDies
<1>2. r6 \in 0..MaxDeletes BY DEF SourceInv, SourceTypes
<1>3. /\ SourceInv' /\ r5'[d] = Recovery!NoDelete
      /\ \A e \in Deleters \ {d} : r5'[e] = r5[e]
    BY <1>1, <1>2, NoDeletion, DeletionMoves
<1>4. ExactDeletion(d)' BY <1>3, NoDeletion DEF ExactDeletion
<1> QED BY <1>1, <1>3, <1>4, ExactMoves

\* The deletes of a batch, in the same step as the insert or after it.
LEMMA ErasureKeeps ==
    ASSUME RecoveryConstants, SourceInv, NEW d \in Deleters, r5[d].pc # "idle",
           NEW there, there = r4 \/ there = r4 \cup {r5[d].receipt}, r4' = there,
           Recovery!EraseWith(r5[d].receipt, there),
           r5' = [r5 EXCEPT ![d] = Recovery!NoDelete], UNCHANGED <<r1, r3, r6>>
    PROVE  SourceInv' /\ r4 \subseteq r4'
<1> DEFINE x == r5[d].receipt.learner
<1>1. /\ r5[d].receipt \in ReceiptRows /\ x \in Pair1 /\ r2 \in Streams
      /\ r4 \subseteq ReceiptRows
    BY DEF SourceInv, SourceTypes, ReceiptRows
<1>2. r2' \in Streams /\ \A y \in Pair1 : r2'[y] = r2[y] \/ r2'[y] = <<>>
    BY <1>1, EmptyStream DEF Recovery!EraseWith, Streams
<1>3. r4' \subseteq ReceiptRows /\ r4 \subseteq r4' BY <1>1
<1>4. /\ r5' \in [Deleters -> Deletions]
      /\ \A e \in Deleters : r5'[e].pc # "idle" => r5'[e].receipt \in ReceiptRows
    BY NoDeletion DEF SourceInv, SourceTypes
<1>5. SourceTypes' BY <1>2, <1>3, <1>4 DEF SourceInv, SourceTypes
<1>6. ASSUME NEW y \in Pair1
      PROVE  /\ \A i \in 2..Len(r2'[y]) : r2'[y][i - 1] < r2'[y][i]
             /\ \A i \in 1..Len(r2'[y]) : r2'[y][i] <= r3'
    <2>1. CASE r2'[y] = r2[y]
        <3>1. /\ \A i \in 2..Len(r2[y]) : r2[y][i - 1] < r2[y][i]
              /\ \A i \in 1..Len(r2[y]) : r2[y][i] <= r3
            BY DEF SourceInv, StreamsAscend
        <3> QED BY <2>1, <3>1
    <2>2. CASE r2'[y] = <<>>
        <3>1. 2..Len(r2'[y]) = {} /\ 1..Len(r2'[y]) = {} BY <2>2
        <3> QED BY <3>1
    <2> QED BY <1>2, <2>1, <2>2
<1> QED BY <1>3, <1>5, <1>6 DEF SourceInv, StreamsAscend

LEMMA EraseKeeps ==
    ASSUME RecoveryConstants, SourceInv, NEW d \in Deleters, Recovery!EraseEvents(d)
    PROVE  SourceInv' /\ r4 \subseteq r4' /\ (ExactInv => ExactInv')
<1> DEFINE there == r4 \cup (IF r5[d].inserted THEN {r5[d].receipt} ELSE {})
<1>1. /\ r5[d].pc = "erase" /\ r4' = there /\ Recovery!EraseWith(r5[d].receipt, there)
      /\ r5' = [r5 EXCEPT ![d] = Recovery!NoDelete] /\ UNCHANGED <<r1, r3, r6>>
    BY DEF Recovery!EraseEvents
<1>2. there = r4 \/ there = r4 \cup {r5[d].receipt} OBVIOUS
<1> HIDE DEF there
<1>3. SourceInv' /\ r4 \subseteq r4' BY <1>1, <1>2, ErasureKeeps
<1>4. ExactInv => ~r1 BY <1>1 DEF ExactInv, ExactDeletion
<1>5. ExactInv => ExactInv' BY <1>1, <1>4 DEF ExactInv
<1> QED BY <1>3, <1>5

\* Two streams of the same length, one the beginning of the other.
LEMMA WholeBegins ==
    ASSUME NEW s \in Events, NEW t \in Events, Begins(s, t), Len(s) = Len(t)
    PROVE  s = t
BY SeqEqual, SMTT(30) DEF Begins, Events

LEMMA BatchKeeps ==
    ASSUME RecoveryConstants, SourceInv, NEW d \in Deleters, Recovery!DeleteBatch(d)
    PROVE  SourceInv' /\ r4 \subseteq r4' /\ (ExactInv /\ DeletionsApart => ExactInv')
<1> DEFINE c == r5[d].receipt
<1> DEFINE there == r4 \cup (IF Recovery!Inserts(c) THEN {c} ELSE {})
<1>1. /\ r1 /\ r5[d].pc = "insert" /\ r4' = there /\ Recovery!EraseWith(c, there)
      /\ r5' = [r5 EXCEPT ![d] = Recovery!NoDelete] /\ UNCHANGED <<r1, r3, r6>>
    BY DEF Recovery!DeleteBatch
<1>2. there = r4 \/ there = r4 \cup {c} OBVIOUS
<1>3. Recovery!Inserts(c) => there = r4 \cup {c} OBVIOUS
<1>4. ~Recovery!Inserts(c) => there = r4 OBVIOUS
<1> HIDE DEF there
<1>5. SourceInv' /\ r4 \subseteq r4' BY <1>1, <1>2, ErasureKeeps
<1>6. ASSUME ExactInv, DeletionsApart PROVE ExactInv'
    <2>1. /\ c \in ReceiptRows /\ c.learner \in Pair1 /\ c.events \in Events
          /\ r2 \in Streams /\ r2[c.learner] \in Events
        BY <1>1 DEF SourceInv, SourceTypes, ReceiptRows, Streams
    <2>2. c \notin r4 /\ Begins(c.events, r2[c.learner]) /\ Recovery!ReceiptIsExactEverywhere
        BY <1>1, <1>6 DEF ExactInv, ExactDeletion, Recovery!BoundTo
    <2>3. Recovery!Inserts(c) => c.events = r2[c.learner]
        BY <2>1, <2>2, WholeBegins DEF Recovery!Inserts, Recovery!RevisionFits
    <2>4. ~Recovery!Inserts(c) => r2' = r2 /\ r13' = r13 /\ r4' = r4
        BY <1>1, <1>4, <2>2 DEF Recovery!EraseWith, Recovery!Erasing
    <2>5. Recovery!Inserts(c) /\ r2[c.learner] = <<>> => r2' = r2 /\ r13' = r13
        BY <1>1 DEF Recovery!EraseWith, Recovery!Erasing
    <2>6. Recovery!Inserts(c) /\ r2[c.learner] # <<>> =>
              /\ r2' = [r2 EXCEPT ![c.learner] = <<>>]
              /\ r13' = r13 \cup {<<c, r2[c.learner]>>}
        BY <1>1, <1>3 DEF Recovery!EraseWith, Recovery!Erasing
    <2>7. Recovery!ReceiptIsExactEverywhere'
        <3>1. /\ \A e \in r13 : e[2] = e[1].events
              /\ \A b \in r4 : b.events # <<>> => <<b, b.events>> \in r13
            BY <2>2 DEF Recovery!ReceiptIsExactEverywhere
        <3>2. r13 \subseteq r13' BY <2>4, <2>5, <2>6
        <3>3. \A e \in r13' : e[2] = e[1].events
            <4>1. <<c, r2[c.learner]>>[2] = r2[c.learner] /\ <<c, r2[c.learner]>>[1] = c
                OBVIOUS
            <4> QED BY <2>3, <2>4, <2>5, <2>6, <3>1, <4>1
        <3>4. ASSUME NEW b \in r4', b.events # <<>> PROVE <<b, b.events>> \in r13'
            <4>1. CASE b \in r4 BY <3>1, <3>2, <3>4, <4>1
            <4>2. CASE b \notin r4
                <5>1. Recovery!Inserts(c) /\ b = c BY <1>1, <1>3, <1>4, <4>2
                <5>2. c.events = r2[c.learner] BY <2>3, <5>1
                <5> QED BY <2>6, <3>4, <5>1, <5>2
            <4> QED BY <4>1, <4>2
        <3> QED BY <3>3, <3>4 DEF Recovery!ReceiptIsExactEverywhere
    <2>8. ASSUME NEW e \in Deleters PROVE ExactDeletion(e)'
        <3>1. CASE e = d
            <4>1. r5'[e].pc = "idle" BY <1>1, <3>1, NoDeletion DEF SourceInv, SourceTypes
            <4> QED BY <4>1 DEF ExactDeletion
        <3>2. CASE e # d
            <4>1. r5'[e] = r5[e] BY <1>1, <3>2 DEF SourceInv, SourceTypes
            <4>2. ExactDeletion(e) BY <1>1, <1>6 DEF ExactInv
            <4>3. r5[e].pc # "idle" => r5[e].receipt.learner # c.learner
                BY <1>1, <1>6, <3>2 DEF DeletionsApart
            <4>4. r4' = r4 \/ r4' = r4 \cup {c} BY <1>1, <1>2
            <4>5. r5[e].pc # "idle" =>
                      {b \in r4' : /\ b.learner = r5[e].receipt.learner
                                   /\ b.key = r5[e].receipt.key} = {}
                BY <4>2, <4>3, <4>4 DEF ExactDeletion, Recovery!BoundTo
            <4>6. r5[e].pc = "insert" => r5[e].receipt \in ReceiptRows
                BY DEF SourceInv, SourceTypes
            <4>7. r5[e].pc = "insert" =>
                      r2'[r5[e].receipt.learner] = r2[r5[e].receipt.learner]
                BY <2>1, <2>4, <2>5, <2>6, <4>3, <4>6 DEF Streams, ReceiptRows
            <4> QED BY <4>1, <4>2, <4>5, <4>7 DEF ExactDeletion, Recovery!BoundTo
        <3> QED BY <3>1, <3>2
    <2> QED BY <1>1, <2>7, <2>8 DEF ExactInv
<1> QED BY <1>5, <1>6

LEMMA SourceKeeps ==
    ASSUME RecoveryConstants, SourceInv, Recovery!SourceStep
    PROVE  /\ SourceInv' /\ r4 \subseteq r4' /\ UNCHANGED recoveryRegisters
           /\ ExactInv /\ DeletionsApart => ExactInv'
<1>1. ASSUME NEW x \in Pair1, Recovery!AppendEvent(x)
      PROVE  SourceInv' /\ UNCHANGED r4 /\ UNCHANGED recoveryRegisters /\ (ExactInv => ExactInv')
    BY <1>1, AppendKeeps
       DEF Recovery!AppendEvent, Recovery!backupVars, Recovery!targetVars, recoveryRegisters
<1>2. ASSUME NEW d \in Deleters, NEW x \in Pair1, NEW k \in Pair2, Recovery!FindReceipt(d, x, k)
      PROVE  SourceInv' /\ UNCHANGED r4 /\ UNCHANGED recoveryRegisters /\ (ExactInv => ExactInv')
    BY <1>2, FindKeeps
       DEF Recovery!FindReceipt, Recovery!backupVars, Recovery!targetVars, recoveryRegisters
<1>3. ASSUME NEW d \in Deleters, Recovery!ListErased(d)
      PROVE  SourceInv' /\ UNCHANGED r4 /\ UNCHANGED recoveryRegisters /\ (ExactInv => ExactInv')
    BY <1>3, ListKeeps
       DEF Recovery!ListErased, Recovery!backupVars, Recovery!targetVars, recoveryRegisters
<1>4. ASSUME NEW d \in Deleters, Recovery!DeleteBatch(d)
      PROVE  /\ SourceInv' /\ r4 \subseteq r4' /\ UNCHANGED recoveryRegisters
             /\ ExactInv /\ DeletionsApart => ExactInv'
    BY <1>4, BatchKeeps
       DEF Recovery!DeleteBatch, Recovery!backupVars, Recovery!targetVars, recoveryRegisters
<1>5. ASSUME NEW d \in Deleters, Recovery!InsertReceipt(d)
      PROVE  SourceInv' /\ UNCHANGED r4 /\ UNCHANGED recoveryRegisters /\ (ExactInv => ExactInv')
    BY <1>5, InsertKeeps
       DEF Recovery!InsertReceipt, Recovery!backupVars, Recovery!targetVars, recoveryRegisters
<1>6. ASSUME NEW d \in Deleters, Recovery!EraseEvents(d)
      PROVE  /\ SourceInv' /\ r4 \subseteq r4' /\ UNCHANGED recoveryRegisters
             /\ ExactInv => ExactInv'
    BY <1>6, EraseKeeps
       DEF Recovery!EraseEvents, Recovery!backupVars, Recovery!targetVars, recoveryRegisters
<1>7. ASSUME NEW d \in Deleters, Recovery!DeleteDies(d)
      PROVE  SourceInv' /\ UNCHANGED r4 /\ UNCHANGED recoveryRegisters /\ (ExactInv => ExactInv')
    BY <1>7, DeathKeeps
       DEF Recovery!DeleteDies, Recovery!backupVars, Recovery!targetVars, recoveryRegisters
<1> QED BY <1>1, <1>2, <1>3, <1>4, <1>5, <1>6, <1>7 DEF Recovery!SourceStep

-----------------------------------------------------------------------------
(* The backup.                                                             *)

LEMMA NothingStored ==
    /\ Recovery!Empty \in Streams
    /\ Recovery!NoExport \in [pc : {"idle", "list", "again"}, of : Pair1 \cup {"none"},
                              streams : Streams, left : SUBSET Pair1]
    /\ Recovery!NoExport.pc = "idle"
    /\ Recovery!NoBackup \in [made : BOOLEAN, streams : Streams, receipts : Streams,
                              manifest : Streams, old : BOOLEAN]
    /\ Recovery!NoBackup.made = FALSE
    /\ Recovery!NoRun \in RunStates /\ Recovery!NoRun.pc = "idle"
    /\ Recovery!NoRun.todo = {} /\ Recovery!NoRun.known = {}
    /\ Recovery!NoPromotion.ready = FALSE
<1>1. Recovery!Empty \in Streams
    BY EmptyStream DEF Recovery!Empty, Streams
<1>2. /\ Recovery!NoExport \in [pc : {"idle", "list", "again"}, of : Pair1 \cup {"none"},
                                 streams : Streams, left : SUBSET Pair1]
      /\ Recovery!NoExport.pc = "idle"
    BY <1>1 DEF Recovery!NoExport
<1>3. /\ Recovery!NoBackup \in [made : BOOLEAN, streams : Streams, receipts : Streams,
                                 manifest : Streams, old : BOOLEAN]
      /\ Recovery!NoBackup.made = FALSE
    BY <1>1 DEF Recovery!NoBackup
<1>4. /\ Recovery!NoRun \in RunStates /\ Recovery!NoRun.pc = "idle"
      /\ Recovery!NoRun.todo = {} /\ Recovery!NoRun.known = {}
    BY DEF Recovery!NoRun, RunStates
<1>5. Recovery!NoPromotion.ready = FALSE BY DEF Recovery!NoPromotion
<1> QED BY <1>1, <1>2, <1>3, <1>4, <1>5

LEMMA RecoveryInitInv ==
    ASSUME RecoveryConstants, Recovery!Init PROVE BackupInv /\ RunInv
<1>1. BackupInv BY NothingStored DEF Recovery!Init, BackupInv
<1>2. RunFits BY NothingStored DEF Recovery!Init, RunFits
<1>3. /\ r9 \in Streams /\ r11 \in RunStates /\ r12 \in 0..MaxRuns /\ r15.ready = FALSE
      /\ r11.todo = {} /\ r11.known = {}
    BY NothingStored DEF Recovery!Init, RecoveryConstants
<1>4. RunInv
    BY <1>2, <1>3 DEF RunInv, Recovery!ErasedIsNotPromoted, Recovery!RetainedIsComplete
<1> QED BY <1>1, <1>4

\* What leaves the artifact, the sealed streams, the target and the run alone.
LEMMA RunUndisturbed ==
    ASSUME RunInv, r4 \subseteq r4', UNCHANGED <<r8, r9, r11, r12, r14, r15>>
    PROVE  RunInv'
BY DEF RunInv, RunFits, Replayed, Recovery!ErasedIsNotPromoted, Recovery!RetainedIsComplete

LEMMA BeginBackupKeeps ==
    ASSUME BackupInv, Recovery!BeginBackup PROVE BackupInv' /\ UNCHANGED <<r8, r14>>
<1> DEFINE v == [Recovery!NoExport EXCEPT !.pc = "list", !.left = Pair1]
<1>1. r7' = v /\ ~r8.made /\ UNCHANGED <<r8, r14>> BY DEF Recovery!BeginBackup
<1>2. v \in [pc : {"idle", "list", "again"}, of : Pair1 \cup {"none"}, streams : Streams,
             left : SUBSET Pair1] /\ v.pc = "list"
    BY NothingStored
<1> HIDE DEF v
<1> QED BY <1>1, <1>2 DEF BackupInv

LEMMA ListExportKeeps ==
    ASSUME SourceInv, BackupInv, NEW x \in Pair1, Recovery!ListExport(x)
    PROVE  BackupInv' /\ UNCHANGED <<r8, r14>>
<1> DEFINE v == [r7 EXCEPT !.pc = "again", !.of = x, !.streams[x] = r2[x]]
<1> DEFINE t == [r7.streams EXCEPT ![x] = r2[x]]
<1>1. r7' = v /\ r7.pc = "list" /\ UNCHANGED <<r8, r14>> BY DEF Recovery!ListExport
<1>2. r2 \in Streams /\ r7.streams \in Streams BY DEF SourceInv, SourceTypes, BackupInv
<1>3. t \in Streams BY <1>2 DEF Streams
<1>4. v = [r7 EXCEPT !.pc = "again", !.of = x, !.streams = t]
    BY DEF BackupInv
<1> HIDE DEF t
<1>5. v \in [pc : {"idle", "list", "again"}, of : Pair1 \cup {"none"}, streams : Streams,
             left : SUBSET Pair1] /\ v.pc = "again" /\ v.of = x
    BY <1>3, <1>4 DEF BackupInv
<1> HIDE DEF v
<1> QED BY <1>1, <1>5 DEF BackupInv

LEMMA ListAgainKeeps ==
    ASSUME BackupInv, Recovery!ListAgain PROVE BackupInv' /\ UNCHANGED <<r8, r14>>
<1> DEFINE v == [r7 EXCEPT !.pc = "list", !.left = r7.left \ {r7.of}]
<1>1. (r7' = v \/ r7' = Recovery!NoExport) /\ r7.pc = "again" /\ UNCHANGED <<r8, r14>>
    BY DEF Recovery!ListAgain
<1>2. v \in [pc : {"idle", "list", "again"}, of : Pair1 \cup {"none"}, streams : Streams,
             left : SUBSET Pair1] /\ v.pc = "list"
    BY DEF BackupInv
<1> HIDE DEF v
<1> QED BY <1>1, <1>2, NothingStored DEF BackupInv

LEMMA SealKeeps ==
    ASSUME BackupInv, RunInv, Recovery!Seal PROVE BackupInv' /\ (r4' = r4 => RunInv')
<1> DEFINE v == [made |-> TRUE, streams |-> r7.streams, receipts |-> r7.streams,
                 manifest |-> r7.streams, old |-> FALSE]
<1>1. /\ r8' = v /\ r14' = r7.streams /\ r7' = Recovery!NoExport /\ ~r8.made
      /\ UNCHANGED <<r9, r10, r11, r12, r15>> /\ r7.streams \in Streams
    BY DEF Recovery!Seal, Recovery!targetVars, BackupInv
<1>2. v \in [made : BOOLEAN, streams : Streams, receipts : Streams, manifest : Streams,
             old : BOOLEAN] /\ v.made /\ v.receipts = r7.streams
    BY <1>1
<1> HIDE DEF v
<1>3. BackupInv' BY <1>1, <1>2, NothingStored DEF BackupInv
<1>4. r11.pc = "idle" /\ ~r15.ready BY <1>1 DEF RunInv, RunFits
<1>5. RunFits' BY <1>1, <1>4 DEF RunFits
<1>6. Recovery!ErasedIsNotPromoted' /\ Recovery!RetainedIsComplete'
    BY <1>1, <1>4 DEF Recovery!ErasedIsNotPromoted, Recovery!RetainedIsComplete
<1> QED BY <1>1, <1>3, <1>4, <1>5, <1>6 DEF RunInv

\* The artifact changes, but for what it was made of; nothing runs, or its streams stay.
LEMMA ArtifactChanges ==
    ASSUME BackupInv, RunInv, UNCHANGED <<r4, r7, r9, r11, r12, r14, r15>>,
           r8' \in [made : BOOLEAN, streams : Streams, receipts : Streams, manifest : Streams,
                    old : BOOLEAN],
           r8'.made = r8.made, r8'.receipts = r8.receipts,
           r11.pc = "idle" \/ r8'.streams = r8.streams
    PROVE  BackupInv' /\ RunInv'
<1>1. BackupInv' BY DEF BackupInv
<1>2. RunFits' BY DEF RunInv, RunFits, Replayed
<1> QED BY <1>1, <1>2 DEF RunInv, Recovery!ErasedIsNotPromoted, Recovery!RetainedIsComplete

LEMMA DamageKeeps ==
    ASSUME RecoveryConstants, BackupInv, RunInv, NEW x \in Pair1, NEW b \in BOOLEAN,
           Recovery!Damage(x, b)
    PROVE  BackupInv' /\ RunInv'
<1> DEFINE s == r8.streams[x]
<1> DEFINE cut == [r8.streams EXCEPT ![x] = SubSeq(s, 1, Len(s) - 1)]
<1> DEFINE m == IF b THEN cut ELSE r8.manifest
<1> DEFINE v == [r8 EXCEPT !.streams = cut, !.manifest = m]
<1>1. /\ r11.pc = "idle" /\ r8.streams = r14 /\ r14[x] # <<>>
      /\ UNCHANGED <<r4, r7, r9, r11, r12, r14, r15>>
    BY DEF Recovery!Damage, Recovery!targetVars, Recovery!sourceVars
<1>2. r8' = v
    BY DEF Recovery!Damage
<1>3. r8.streams \in Streams /\ s \in Events BY DEF BackupInv, Streams
<1>4. Len(s) \in Nat /\ s # <<>> BY <1>1, <1>3 DEF Events
<1>5. SubSeq(s, 1, Len(s) - 1) \in Events
    <2>1. Len(s) > 0 BY <1>3, <1>4, EmptySeq DEF Events
    <2>2. ASSUME NEW i \in 1..(Len(s) - 1) PROVE s[i] \in 1..MaxEvents
        <3>1. i \in 1..Len(s) BY <1>4
        <3> QED BY <1>3, <3>1, ElementOfSeq DEF Events
    <2> QED BY <1>3, <1>4, <2>1, <2>2, SubSeqProperties DEF Events
<1>6. cut \in Streams BY <1>3, <1>5 DEF Streams
<1> HIDE DEF cut
<1>7. m \in Streams BY <1>6 DEF BackupInv
<1> HIDE DEF m
<1>8. /\ v \in [made : BOOLEAN, streams : Streams, receipts : Streams, manifest : Streams,
                old : BOOLEAN]
      /\ v.made = r8.made /\ v.receipts = r8.receipts
    BY <1>6, <1>7 DEF BackupInv
<1> HIDE DEF v
<1> QED BY <1>1, <1>2, <1>8, ArtifactChanges

LEMMA AgeKeeps ==
    ASSUME BackupInv, RunInv, Recovery!Age PROVE BackupInv' /\ RunInv'
<1> DEFINE v == [r8 EXCEPT !.old = TRUE]
<1>1. r8' = v /\ UNCHANGED <<r4, r7, r9, r11, r12, r14, r15>>
    BY DEF Recovery!Age, Recovery!targetVars, Recovery!sourceVars
<1>2. /\ v \in [made : BOOLEAN, streams : Streams, receipts : Streams, manifest : Streams,
                old : BOOLEAN]
      /\ v.made = r8.made /\ v.receipts = r8.receipts /\ v.streams = r8.streams
    BY DEF BackupInv
<1> HIDE DEF v
<1> QED BY <1>1, <1>2, ArtifactChanges

LEMMA BackupKeeps ==
    ASSUME RecoveryConstants, SourceInv, BackupInv, RunInv, Recovery!BackupStep
    PROVE  BackupInv' /\ RunInv' /\ UNCHANGED Recovery!sourceVars
<1>1. CASE Recovery!BeginBackup
    BY <1>1, BeginBackupKeeps, RunUndisturbed
       DEF Recovery!BeginBackup, Recovery!sourceVars, Recovery!targetVars
<1>2. CASE Recovery!ListAgain
    BY <1>2, ListAgainKeeps, RunUndisturbed
       DEF Recovery!ListAgain, Recovery!sourceVars, Recovery!targetVars
<1>3. CASE Recovery!Seal
    BY <1>3, SealKeeps DEF Recovery!Seal, Recovery!sourceVars
<1>4. CASE Recovery!Age
    BY <1>4, AgeKeeps DEF Recovery!Age
<1>5. ASSUME NEW x \in Pair1, Recovery!ListExport(x)
      PROVE  BackupInv' /\ RunInv' /\ UNCHANGED Recovery!sourceVars
    BY <1>5, ListExportKeeps, RunUndisturbed
       DEF Recovery!ListExport, Recovery!sourceVars, Recovery!targetVars
<1>6. ASSUME NEW x \in Pair1, NEW b \in BOOLEAN, Recovery!Damage(x, b)
      PROVE  BackupInv' /\ RunInv' /\ UNCHANGED Recovery!sourceVars
    BY <1>6, DamageKeeps DEF Recovery!Damage
<1> QED BY <1>1, <1>2, <1>3, <1>4, <1>5, <1>6 DEF Recovery!BackupStep

-----------------------------------------------------------------------------
(* The recovery run.                                                       *)

steady == <<r4, r8, r14, r15>>

\* A run is over, whatever it leaves in the target.
LEMMA RunEnds ==
    ASSUME RunInv, r11' = Recovery!NoRun, r9' \in Streams, r12' \in 0..MaxRuns, UNCHANGED steady
    PROVE  RunInv'
<1>1. RunFits' BY NothingStored DEF RunFits
<1> QED BY <1>1, NothingStored
        DEF RunInv, steady, Recovery!ErasedIsNotPromoted, Recovery!RetainedIsComplete

LEMMA RunGoesOn ==
    ASSUME RunInv, r11' \in RunStates, r11'.todo \subseteq r11'.known, r11'.known \subseteq r4,
           r9' \in Streams, r12' \in 0..MaxRuns, UNCHANGED steady, RunFits'
    PROVE  RunInv'
BY DEF RunInv, steady, Recovery!ErasedIsNotPromoted, Recovery!RetainedIsComplete

LEMMA BeginKeeps ==
    ASSUME RecoveryConstants, SourceInv, BackupInv, RunInv, NEW id \in Pair3,
           Recovery!BeginRecovery(id), UNCHANGED steady
    PROVE  RunInv'
<1> DEFINE v == [Recovery!NoRun EXCEPT !.pc = "restore", !.id = id, !.left = Pair1,
                                       !.todo = r4, !.known = r4]
<1>1. /\ r8.made /\ ~r15.ready /\ r12' = r12 + 1 /\ r12 < MaxRuns /\ r9' = r9
      /\ r11' = IF Recovery!Verified(r8) THEN v ELSE Recovery!NoRun
    BY DEF Recovery!BeginRecovery
<1>2. r12' \in 0..MaxRuns /\ r9' \in Streams BY <1>1 DEF RunInv, RecoveryConstants
<1>3. /\ v \in RunStates /\ v.pc = "restore" /\ v.left = Pair1 /\ v.todo = r4 /\ v.known = r4
    BY NothingStored DEF RunStates, SourceInv, SourceTypes
<1> HIDE DEF v
<1>4. CASE Recovery!Verified(r8)
    <2>1. r8.streams = r14
        BY <1>1, <1>4 DEF BackupInv, Recovery!Verified, Recovery!StreamReceiptsFit
    <2>2. Replayed' = {} BY <1>1, <1>3, <1>4 DEF Replayed
    <2>3. RunFits' BY <1>1, <1>3, <1>4, <2>1, <2>2 DEF RunFits, steady
    <2> QED BY <1>1, <1>2, <1>3, <1>4, <2>3, RunGoesOn
<1>5. CASE ~Recovery!Verified(r8) BY <1>1, <1>2, <1>5, RunEnds
<1> QED BY <1>4, <1>5

LEMMA OpenKeeps ==
    ASSUME RunInv, NEW x \in Pair1, Recovery!OpenTarget(x), UNCHANGED steady
    PROVE  RunInv'
<1> DEFINE v == [r11 EXCEPT !.pc = "append", !.of = x, !.n = 0]
<1>1. /\ r11.pc = "restore" /\ x \in r11.left /\ UNCHANGED <<r9, r12>>
      /\ r11' = Recovery!NoRun \/ r11' = v
    BY DEF Recovery!OpenTarget
<1>2. /\ v \in RunStates /\ v.pc = "append" /\ v.of = x
      /\ v.left = r11.left /\ v.todo = r11.todo /\ v.known = r11.known
    BY DEF RunInv, RunStates
<1> HIDE DEF v
<1>3. r9' \in Streams /\ r12' \in 0..MaxRuns BY <1>1 DEF RunInv
<1>4. CASE r11' = v
    <2>1. Replayed' = Replayed BY <1>2, <1>4 DEF Replayed
    <2>2. RunFits' BY <1>1, <1>2, <1>4, <2>1 DEF RunInv, RunFits, steady
    <2> QED BY <1>2, <1>3, <1>4, <2>2, RunGoesOn DEF RunInv
<1>5. CASE r11' = Recovery!NoRun BY <1>3, <1>5, RunEnds
<1> QED BY <1>1, <1>4, <1>5

LEMMA RestoreKeeps ==
    ASSUME RecoveryConstants, BackupInv, RunInv, Recovery!RestoreEvent, UNCHANGED steady
    PROVE  RunInv'
<1> DEFINE x == r11.of
<1> DEFINE e == r8.streams[x][r11.n + 1]
<1> DEFINE v == [r11 EXCEPT !.n = r11.n + 1]
<1>1. /\ r11.pc = "append" /\ r11.n < Len(r8.streams[x]) /\ r12' = r12
      /\ r9' = [r9 EXCEPT ![x] = Append(r9[x], e)] /\ r11' = v
    BY DEF Recovery!RestoreEvent, RunInv, Streams
<1>2. x \in Pair1 /\ x \in r11.left /\ r11.left # {}
    BY <1>1 DEF RunInv, RunFits
<1>3. r8.streams[x] \in Events /\ r9[x] \in Events /\ r9 \in Streams /\ r11.n \in Nat
    BY <1>2 DEF BackupInv, RunInv, RunStates, Streams
<1>4. r11.n + 1 \in 1..Len(r8.streams[x])
    <2>1. Len(r8.streams[x]) \in Nat BY <1>3 DEF Events
    <2> QED BY <1>1, <1>3, <2>1
<1>5. e \in 1..MaxEvents BY <1>3, <1>4, ElementOfSeq DEF Events
<1> HIDE DEF e
<1>6. Append(r9[x], e) \in Events BY <1>3, <1>5, AppendProperties DEF Events
<1>7. r9' \in Streams /\ \A y \in Pair1 \ {x} : r9'[y] = r9[y]
    BY <1>1, <1>2, <1>3, <1>6 DEF Streams
<1>8. /\ v \in RunStates /\ v.pc = r11.pc /\ v.of = r11.of
      /\ v.left = r11.left /\ v.todo = r11.todo /\ v.known = r11.known
    BY DEF RunInv, RunStates
<1> HIDE DEF v
<1>9. Replayed = {} /\ Replayed' = {} BY <1>1, <1>2, <1>8 DEF RunInv, RunFits, Replayed
<1>10. \A y \in Pair1 \ r11.left : r9'[y] = r14[y]
    BY <1>1, <1>2, <1>7, <1>9 DEF RunInv, RunFits
<1>11. RunFits' BY <1>1, <1>2, <1>8, <1>9, <1>10 DEF RunInv, RunFits, steady
<1> QED BY <1>1, <1>7, <1>8, <1>11, RunGoesOn DEF RunInv

LEMMA CompareKeeps ==
    ASSUME BackupInv, RunInv, Recovery!CompareRestored, UNCHANGED steady
    PROVE  RunInv'
<1> DEFINE x == r11.of
<1> DEFINE v == [r11 EXCEPT !.pc = "restore", !.left = r11.left \ {x}]
<1>1. /\ r11.pc = "append" /\ r12' = r12
      /\ \/ r9[x] = r8.streams[x] /\ r11' = v /\ r9' = r9
         \/ r11' = Recovery!NoRun /\ r9' = [r9 EXCEPT ![x] = <<>>]
    BY DEF Recovery!CompareRestored
<1>2. x \in Pair1 /\ x \in r11.left /\ r11.left # {} /\ r8.streams = r14 /\ r9 \in Streams
    BY <1>1 DEF RunInv, RunFits
<1>3. r9' \in Streams BY <1>1, <1>2, EmptyStream DEF Streams
<1>4. /\ v \in RunStates /\ v.pc = "restore" /\ v.left = r11.left \ {x}
      /\ v.todo = r11.todo /\ v.known = r11.known
    BY DEF RunInv, RunStates
<1> HIDE DEF v
<1>5. r12' \in 0..MaxRuns BY <1>1 DEF RunInv
<1>6. CASE r11' = v /\ r9[x] = r8.streams[x] /\ r9' = r9
    <2>1. Replayed = {} /\ Replayed' = {} BY <1>1, <1>2, <1>4, <1>6 DEF RunInv, RunFits, Replayed
    <2>2. \A y \in Pair1 \ r11'.left : r9'[y] = r14[y]
        BY <1>1, <1>2, <1>4, <1>6, <2>1 DEF RunInv, RunFits
    <2>3. RunFits' BY <1>1, <1>2, <1>4, <1>6, <2>1, <2>2 DEF RunInv, RunFits, steady
    <2> QED BY <1>3, <1>4, <1>5, <1>6, <2>3, RunGoesOn DEF RunInv
<1>7. CASE r11' = Recovery!NoRun BY <1>3, <1>5, <1>7, RunEnds
<1> QED BY <1>1, <1>6, <1>7

LEMMA RestoreFailsKeeps ==
    ASSUME RunInv, Recovery!RestoreFails, UNCHANGED steady PROVE RunInv'
<1>1. /\ r9' = [r9 EXCEPT ![r11.of] = <<>>] \/ r9' = r9
      /\ r11' = Recovery!NoRun /\ r12' = r12
    BY DEF Recovery!RestoreFails
<1>2. r9' \in Streams /\ r12' \in 0..MaxRuns BY <1>1, EmptyStream DEF RunInv, Streams
<1> QED BY <1>1, <1>2, RunEnds

LEMMA ReplayKeeps ==
    ASSUME SourceInv, RunInv, NEW c \in r4, Recovery!ReplayDeletion(c), UNCHANGED steady
    PROVE  RunInv'
<1> DEFINE x == c.learner
<1> DEFINE v == [r11 EXCEPT !.pc = "remaining", !.of = x, !.todo = r11.todo \ {c}]
<1>1. /\ r11.pc = "restore" /\ r11.left = {} /\ c \in r11.todo /\ r12' = r12
      /\ r9' = [r9 EXCEPT ![x] = <<>>] \/ r9' = r9
      /\ r11' = v
    BY DEF Recovery!ReplayDeletion
<1>2. x \in Pair1 /\ r9 \in Streams BY DEF SourceInv, SourceTypes, ReceiptRows, RunInv
<1>3. r9' \in Streams /\ \A y \in Pair1 : y # x => r9'[y] = r9[y]
    BY <1>1, <1>2, EmptyStream DEF Streams
<1>4. /\ v \in RunStates /\ v.pc = "remaining" /\ v.of = x /\ v.left = {}
      /\ v.todo = r11.todo \ {c} /\ v.known = r11.known
    BY <1>1, <1>2 DEF RunInv, RunStates
<1> HIDE DEF v
<1>5. Replayed' = Replayed \cup {c} BY <1>1, <1>4 DEF RunInv, Replayed
<1>6. Replayed \subseteq ReceiptRows BY DEF RunInv, RunStates, Replayed
<1>7. /\ \A b \in Replayed : r9[b.learner] = <<>>
      /\ \A y \in Pair1 : r9[y] = r14[y] \/ \E b \in Replayed : b.learner = y
      /\ r8.made /\ r8.streams = r14 /\ ~r15.ready
    BY <1>1 DEF RunInv, RunFits
<1>8. \A b \in Replayed' : r9'[b.learner] = <<>> \/ b.learner = x
    BY <1>3, <1>5, <1>6, <1>7 DEF ReceiptRows
<1>9. \A y \in Pair1 : r9'[y] = r14[y] \/ \E b \in Replayed' : b.learner = y
    BY <1>3, <1>5, <1>7
<1>10. RunFits' BY <1>1, <1>2, <1>4, <1>7, <1>8, <1>9 DEF RunFits, steady
<1>11. v.todo \subseteq v.known /\ v.known \subseteq r4 /\ r12' \in 0..MaxRuns
    BY <1>1, <1>4 DEF RunInv
<1> QED BY <1>1, <1>3, <1>4, <1>10, <1>11, RunGoesOn

LEMMA RemainingKeeps ==
    ASSUME RunInv, Recovery!ListRemaining, UNCHANGED steady PROVE RunInv'
<1> DEFINE v == [r11 EXCEPT !.pc = "restore"]
<1>1. /\ r11.pc = "remaining" /\ UNCHANGED <<r9, r12>>
      /\ (r11' = v /\ r9[r11.of] = <<>>) \/ r11' = Recovery!NoRun
    BY DEF Recovery!ListRemaining, Recovery!NothingLeft
<1>2. /\ v \in RunStates /\ v.pc = "restore" /\ v.left = r11.left
      /\ v.todo = r11.todo /\ v.known = r11.known
    BY DEF RunInv, RunStates
<1> HIDE DEF v
<1>3. r9' \in Streams /\ r12' \in 0..MaxRuns BY <1>1 DEF RunInv
<1>4. CASE r11' = v /\ r9[r11.of] = <<>>
    <2>1. Replayed' = Replayed BY <1>2, <1>4 DEF Replayed
    <2>2. \A c \in Replayed : r9[c.learner] = <<>> BY <1>1, <1>4 DEF RunInv, RunFits
    <2>3. RunFits' BY <1>1, <1>2, <1>4, <2>1, <2>2 DEF RunInv, RunFits, steady
    <2> QED BY <1>2, <1>3, <1>4, <2>3, RunGoesOn DEF RunInv
<1>5. CASE r11' = Recovery!NoRun BY <1>3, <1>5, RunEnds
<1> QED BY <1>1, <1>4, <1>5

\* What is reported ready lacks only what deletions have erased.
LEMMA ReportKeeps ==
    ASSUME RunInv, Recovery!Report, UNCHANGED <<r4, r8, r14>> PROVE RunInv'
<1> DEFINE v == [ready |-> TRUE, streams |-> r9, receipts |-> r11.known]
<1>1. /\ r11.pc = "restore" /\ r11.left = {} /\ r11.todo = {} /\ UNCHANGED <<r9, r12>>
      /\ r11' = Recovery!NoRun /\ r15' = v
    BY DEF Recovery!Report
<1>2. v.ready = TRUE /\ v.streams = r9 /\ v.receipts = r11.known OBVIOUS
<1> HIDE DEF v
<1>3. Replayed = r11.known BY <1>1 DEF Replayed
<1>4. /\ \A c \in r11.known : r9[c.learner] = <<>>
      /\ \A x \in Pair1 : r9[x] = r14[x] \/ \E c \in r11.known : c.learner = x
      /\ r8.made
    BY <1>1, <1>3 DEF RunInv, RunFits
<1>5. Recovery!ErasedIsNotPromoted' /\ Recovery!RetainedIsComplete'
    BY <1>1, <1>2, <1>4 DEF Recovery!ErasedIsNotPromoted, Recovery!RetainedIsComplete
<1>6. RunFits' BY <1>1, NothingStored DEF RunFits
<1>7. r9' \in Streams /\ r12' \in 0..MaxRuns BY <1>1 DEF RunInv
<1>8. r15'.ready = TRUE BY <1>1, <1>2
<1> QED BY <1>1, <1>4, <1>5, <1>6, <1>7, <1>8, NothingStored DEF RunInv

LEMMA RunDeathKeeps ==
    ASSUME RunInv, Recovery!RecoveryDies, UNCHANGED steady PROVE RunInv'
<1>1. r11' = Recovery!NoRun /\ UNCHANGED <<r9, r12>> BY DEF Recovery!RecoveryDies
<1>2. r9' \in Streams /\ r12' \in 0..MaxRuns BY <1>1 DEF RunInv
<1> QED BY <1>1, <1>2, RunEnds

LEMMA ClearKeeps ==
    ASSUME RunInv, NEW x \in Pair1, Recovery!ClearTarget(x), UNCHANGED steady
    PROVE  RunInv'
<1>1. r11.pc = "idle" /\ r9' = [r9 EXCEPT ![x] = <<>>] /\ UNCHANGED <<r11, r12>>
    BY DEF Recovery!ClearTarget
<1>2. r9' \in Streams /\ r12' \in 0..MaxRuns BY <1>1, EmptyStream DEF RunInv, Streams
<1>3. RunFits' BY <1>1 DEF RunFits
<1> QED BY <1>1, <1>2, <1>3, RunGoesOn DEF RunInv

LEMMA RunStepKeeps ==
    ASSUME RecoveryConstants, SourceInv, BackupInv, RunInv, Recovery!RecoveryStep
    PROVE  RunInv' /\ UNCHANGED <<Recovery!sourceVars, Recovery!backupVars>>
<1>1. ASSUME NEW id \in Pair3, Recovery!BeginRecovery(id)
      PROVE  RunInv' /\ UNCHANGED <<Recovery!sourceVars, Recovery!backupVars>>
    BY <1>1, BeginKeeps
       DEF Recovery!BeginRecovery, Recovery!sourceVars, Recovery!backupVars, steady
<1>2. ASSUME NEW x \in Pair1, Recovery!OpenTarget(x)
      PROVE  RunInv' /\ UNCHANGED <<Recovery!sourceVars, Recovery!backupVars>>
    BY <1>2, OpenKeeps
       DEF Recovery!OpenTarget, Recovery!sourceVars, Recovery!backupVars, steady
<1>3. ASSUME NEW x \in Pair1, Recovery!ClearTarget(x)
      PROVE  RunInv' /\ UNCHANGED <<Recovery!sourceVars, Recovery!backupVars>>
    BY <1>3, ClearKeeps
       DEF Recovery!ClearTarget, Recovery!sourceVars, Recovery!backupVars, steady
<1>4. CASE Recovery!RestoreEvent
    BY <1>4, RestoreKeeps
       DEF Recovery!RestoreEvent, Recovery!sourceVars, Recovery!backupVars, steady
<1>5. CASE Recovery!CompareRestored
    BY <1>5, CompareKeeps
       DEF Recovery!CompareRestored, Recovery!sourceVars, Recovery!backupVars, steady
<1>6. CASE Recovery!RestoreFails
    BY <1>6, RestoreFailsKeeps
       DEF Recovery!RestoreFails, Recovery!sourceVars, Recovery!backupVars, steady
<1>7. ASSUME NEW c \in r4, Recovery!ReplayDeletion(c)
      PROVE  RunInv' /\ UNCHANGED <<Recovery!sourceVars, Recovery!backupVars>>
    BY <1>7, ReplayKeeps
       DEF Recovery!ReplayDeletion, Recovery!sourceVars, Recovery!backupVars, steady
<1>8. CASE Recovery!ListRemaining
    BY <1>8, RemainingKeeps
       DEF Recovery!ListRemaining, Recovery!sourceVars, Recovery!backupVars, steady
<1>9. CASE Recovery!Report
    BY <1>9, ReportKeeps
       DEF Recovery!Report, Recovery!sourceVars, Recovery!backupVars
<1>10. CASE Recovery!RecoveryDies
    BY <1>10, RunDeathKeeps
       DEF Recovery!RecoveryDies, Recovery!sourceVars, Recovery!backupVars, steady
<1> QED BY <1>1, <1>2, <1>3, <1>4, <1>5, <1>6, <1>7, <1>8, <1>9, <1>10
        DEF Recovery!RecoveryStep

-----------------------------------------------------------------------------
(* The machine.                                                            *)

RecoveryInv == SourceInv /\ BackupInv /\ RunInv

LEMMA RecoveryStepInv ==
    ASSUME RecoveryConstants, RecoveryInv, Recovery!Next
    PROVE  RecoveryInv' /\ (ExactInv /\ DeletionsApart => ExactInv')
<1>1. CASE Recovery!SourceStep
    <2>1. /\ SourceInv' /\ r4 \subseteq r4' /\ UNCHANGED recoveryRegisters
          /\ ExactInv /\ DeletionsApart => ExactInv'
        BY <1>1, SourceKeeps DEF RecoveryInv
    <2>2. BackupInv' BY <2>1 DEF RecoveryInv, BackupInv, recoveryRegisters
    <2>3. RunInv' BY <2>1, RunUndisturbed DEF RecoveryInv, recoveryRegisters
    <2> QED BY <2>1, <2>2, <2>3 DEF RecoveryInv
<1>2. ASSUME UNCHANGED Recovery!sourceVars
      PROVE  SourceInv' /\ (ExactInv => ExactInv')
    BY <1>2 DEF RecoveryInv, Recovery!sourceVars, SourceInv, SourceTypes, StreamsAscend, ExactInv,
        ExactDeletion, Recovery!BoundTo, Recovery!ReceiptIsExactEverywhere
<1>3. CASE Recovery!BackupStep
    BY <1>2, <1>3, BackupKeeps DEF RecoveryInv
<1>4. CASE Recovery!RecoveryStep
    <2>1. RunInv' /\ UNCHANGED Recovery!sourceVars /\ UNCHANGED Recovery!backupVars
        BY <1>4, RunStepKeeps DEF RecoveryInv
    <2>2. BackupInv' BY <2>1 DEF RecoveryInv, BackupInv, Recovery!backupVars
    <2> QED BY <1>2, <2>1, <2>2 DEF RecoveryInv
<1> QED BY <1>1, <1>3, <1>4 DEF Recovery!Next

LEMMA RecoveryStutter ==
    ASSUME RecoveryInv, UNCHANGED registers
    PROVE  RecoveryInv' /\ (ExactInv => ExactInv')
<1>1. SourceInv' /\ (ExactInv => ExactInv')
    BY DEF registers, RecoveryInv, SourceInv, SourceTypes, StreamsAscend, ExactInv,
        ExactDeletion, Recovery!BoundTo, Recovery!ReceiptIsExactEverywhere
<1>2. BackupInv' BY DEF registers, RecoveryInv, BackupInv
<1>3. RunInv' BY RunUndisturbed DEF registers, RecoveryInv
<1> QED BY <1>1, <1>2, <1>3 DEF RecoveryInv

LEMMA RecoveryInvImplies ==
    ASSUME RecoveryInv
    PROVE  Recovery!RecoveryTypeOK /\ Recovery!ErasedIsNotPromoted /\ Recovery!RetainedIsComplete
<1>1. \A x \in Pair1 : r2[x] \in Events /\ r9[x] \in Events /\ r8.streams[x] \in Events
    BY DEF RecoveryInv, SourceInv, SourceTypes, BackupInv, RunInv, Streams
<1>2. /\ r3 \in 0..MaxEvents /\ r12 \in 0..MaxRuns /\ r6 \in 0..MaxDeletes
      /\ \A x \in Pair1 : \A i \in 2..Len(r2[x]) : r2[x][i - 1] < r2[x][i]
    BY DEF RecoveryInv, SourceInv, SourceTypes, StreamsAscend, RunInv
<1>3. r11.left \subseteq Pair1 /\ r11.todo \subseteq r4
    BY DEF RecoveryInv, RunInv, RunStates
<1>4. Recovery!RecoveryTypeOK
    BY <1>1, <1>2, <1>3 DEF Recovery!RecoveryTypeOK, Events
<1> QED BY <1>4 DEF RecoveryInv, RunInv

RecoveredRecordIsComplete ==
    machine = "recovery" => /\ Recovery!RecoveryTypeOK /\ Recovery!ErasedIsNotPromoted
                            /\ Recovery!RetainedIsComplete

\* A recovered record that is reported ready holds nothing that a deletion known to the run
\* erased, and every other stream as it was when the backup was sealed, whatever died, was
\* damaged, was replayed twice or was filled again in between (learning-record-recovery.ts
\* and learning-record-recovery-backup.ts).
THEOREM RecoveryIsComplete == RecordsSpec => []RecoveredRecordIsComplete
<1> DEFINE I == machine = "recovery" => RecoveryInv
<1>1. RecordsInit => I
    BY RecoveryConstantsHold, SourceInitInv, RecoveryInitInv DEF RecordsInit, RecoveryInv
<1>2. I /\ [RecordsNext]_<<machine, registers>> => I'
    <2> SUFFICES ASSUME I, [RecordsNext]_<<machine, registers>>, machine' = "recovery"
                 PROVE  RecoveryInv'
        OBVIOUS
    <2>1. machine = "recovery" /\ RecoveryInv
        BY DEF RecordsNext
    <2>2. Recovery!Next \/ UNCHANGED registers
        BY <2>1 DEF RecordsNext
    <2> QED BY <2>1, <2>2, RecoveryConstantsHold, RecoveryStepInv, RecoveryStutter
<1>3. I => RecoveredRecordIsComplete
    BY RecoveryInvImplies DEF RecoveredRecordIsComplete
<1> QED BY <1>1, <1>2, <1>3, PTL DEF RecordsSpec

\* On D1 a deletion receipt names exactly the events that went with it, whatever other
\* requests append between the listing and the batch (deleteVerified), as long as no two
\* deletions of one learner's record overlap: a second one that erases and lets the stream
\* grow back to the listed length passes the comparison of the revisions.
THEOREM ReceiptsAreExact ==
    RecordsSpec /\ [](machine = "recovery" => DeletionsApart) => []ReceiptIsExact
<1> DEFINE I == machine = "recovery" => RecoveryInv /\ ExactInv
<1> DEFINE A == machine = "recovery" => DeletionsApart
<1>1. RecordsInit => I
    BY RecoveryConstantsHold, SourceInitInv, RecoveryInitInv DEF RecordsInit, RecoveryInv
<1>2. I /\ A /\ [RecordsNext]_<<machine, registers>> => I'
    <2> SUFFICES ASSUME I, A, [RecordsNext]_<<machine, registers>>, machine' = "recovery"
                 PROVE  RecoveryInv' /\ ExactInv'
        OBVIOUS
    <2>1. machine = "recovery" /\ RecoveryInv /\ ExactInv /\ DeletionsApart
        BY DEF RecordsNext
    <2>2. Recovery!Next \/ UNCHANGED registers
        BY <2>1 DEF RecordsNext
    <2> QED BY <2>1, <2>2, RecoveryConstantsHold, RecoveryStepInv, RecoveryStutter
<1>3. I => ReceiptIsExact
    BY RecoveryInvImplies DEF ReceiptIsExact, ExactInv, Recovery!ReceiptIsExact
<1> QED BY <1>1, <1>2, <1>3, PTL DEF RecordsSpec

\* With one process that deletes, as in the run, no deletions overlap.
COROLLARY OneDeleterIsExact ==
    ASSUME NEW d, Deleters = {d}
    PROVE  RecordsSpec => []ReceiptIsExact
<1>1. machine = "recovery" => DeletionsApart BY DEF DeletionsApart
<1> QED BY <1>1, ReceiptsAreExact, PTL

-----------------------------------------------------------------------------
(***************************************************************************)
(* The merge of two accounts (AccountMerge): the inductive invariant.      *)
(*                                                                         *)
(* The registers hold r1 the clock, r2 the accounts, r3 the proofs, r4 the *)
(* cases, r5 the aliases, r6 their cases, r7 the receipts, r8 the recovery *)
(* receipts, r9 the owner's requests, r10 the imports, r11 what identities *)
(* were told is saved, r12 the proofs that completions relied on.          *)
(***************************************************************************)

Moments == 0..MergeClock

MergeContents == [prog : SUBSET MergeEvidence, progAt : Moments, ver : Nat, verAt : Moments]

PromoteKeys == ({"none", "preview", "complete", "rollback"} \X Pair2 \X Pair1)

MergeAccounts ==
    [prog : SUBSET MergeEvidence, progAt : Moments, ver : Nat, verAt : Moments,
     item : SUBSET MergeEvidence, itemAt : Moments,
     keys : SUBSET (PromoteKeys \X SUBSET MergeEvidence)]

Snapshots == UNION {[S -> MergeContents] : S \in SUBSET Pair1}

CaseRows ==
    [status : {"none", "preview", "cancelled", "completed", "rolled-back"},
     source : Pair1 \cup {None}, survivor : Pair1 \cup {None},
     proofs : SUBSET Merge!Proofs, digest : Snapshots, snap : Snapshots, at : Moments,
     before : UNION {[S -> SUBSET MergeEvidence] : S \in SUBSET Pair1}]

MergeCallRows ==
    [op : {"none", "preview", "complete", "rollback"},
     pc : {"idle", "read", "batch", "capture", "merge", "promote", "restore"},
     id : Pair2 \cup {"none"}, now : Moments, read : CaseRows, snap : Snapshots,
     todo : SUBSET Pair1]

ImportRows ==
    [pc : {"idle", "append", "row"}, into : Pair1 \cup {None}, item : SUBSET MergeEvidence,
     now : Moments]

MergeTypes ==
    /\ r1 \in Moments /\ r2 \in [Pair1 -> MergeAccounts]
    /\ r3 \in [Merge!Proofs -> {"none", "available", "expired", "consumed"}]
    /\ r4 \in [Pair2 -> CaseRows] /\ r5 \in [Pair1 -> Pair1 \cup {None}]
    /\ r6 \in [Pair1 -> Pair2 \cup {"none"}] /\ r7 \subseteq Pair2 /\ r8 \subseteq r7
    /\ r9 \in [MergeCalls -> MergeCallRows] /\ r10 \in [Pair1 -> ImportRows]
    /\ r11 \in [Pair1 -> SUBSET MergeEvidence] /\ r12 \subseteq Pair2 \X Merge!Proofs

\* One request at a time.
TakesTurns ==
    /\ \A o, q \in MergeCalls : r9[o].pc # "idle" /\ r9[q].pc # "idle" => o = q
    /\ \A x, y \in Pair1 : r10[x].pc # "idle" /\ r10[y].pc # "idle" => x = y
    /\ \A o \in MergeCalls, x \in Pair1 : r9[o].pc = "idle" \/ r10[x].pc = "idle"

Whose(c) == {r4[c].source, r4[c].survivor}

\* The accounts of a case; what a preview was shown is of two accounts that nobody had merged
\* away and no later than now; a completed case is in force.
CaseFits(c) ==
    /\ r4[c].status # "none" => /\ r4[c].source \in Pair1 /\ r4[c].survivor \in Pair1
                                /\ r4[c].source # r4[c].survivor
    /\ r4[c].status = "preview" =>
          /\ r4[c].digest \in [Whose(c) -> MergeContents]
          /\ \A x \in Whose(c) : r4[c].digest[x].ver > 0 /\ r4[c].digest[x].verAt <= r1
    /\ r4[c].status = "completed" =>
          /\ r4[c].snap \in [Whose(c) -> MergeContents]
          /\ \A x \in Whose(c) : /\ r4[c].snap[x].ver > 0
                                 /\ r4[c].snap[x].progAt <= r4[c].at
                                 /\ r4[c].snap[x].verAt <= r4[c].at
          /\ c \in r7 /\ r6[r4[c].source] = c /\ r5[r4[c].source] = r4[c].survivor
    /\ r4[c].at <= r1

MergedAt(x) == r4[r6[x]].at
SnapOf(x) == r4[r6[x]].snap

\* An alias is that of a completed case, leads to an account that is its own, and leaves
\* nothing behind it; the survivor has changed with the merge.
AliasFits(x) ==
    /\ r5[x] = None <=> r6[x] = "none"
    /\ r5[x] # None =>
          /\ r4[r6[x]].status = "completed"
          /\ r4[r6[x]].source = x /\ r4[r6[x]].survivor = r5[x]
          /\ r5[r5[x]] = None
          /\ r2[x].prog = {} /\ r2[x].progAt = 0
          /\ 0 < MergedAt(x) /\ MergedAt(x) <= r2[r5[x]].progAt /\ MergedAt(x) <= r2[r5[x]].verAt
    /\ r5[x] = None => r2[x].ver > 0
    /\ r2[x].progAt <= r1 /\ r2[x].verAt <= r1 /\ r2[x].itemAt <= r1

\* Of two merges into an account the later one has seen the earlier one.
InLineMerges ==
    \A x, y \in Pair1 : r5[x] # None /\ r5[x] = r5[y] /\ x # y =>
        /\ MergedAt(x) # MergedAt(y)
        /\ MergedAt(x) < MergedAt(y) => /\ SnapOf(y)[r5[x]].progAt >= MergedAt(x)
                                        /\ SnapOf(y)[r5[x]].verAt >= MergedAt(x)

\* A preview that another merge has overtaken, of one of its accounts or into its source,
\* shows something else than there is.
StaleFits(c) ==
    r4[c].status = "preview" =>
        /\ \A x \in Whose(c) : r5[x] # None =>
              r2[x].ver = 0 \/ r2[x].verAt > r4[c].digest[x].verAt
        /\ \A y \in Pair1 : r5[y] = r4[c].source =>
              r4[c].digest[r4[c].source].verAt < MergedAt(y)

\* A proof that a completion relied on is spent for good.
ProofsSpent ==
    /\ \A t \in r12 : r3[t[2]] \in {"consumed", "expired"}
    /\ Merge!ProofsServeOnce

\* A moment that nothing in the database has reached.
Ahead(t) ==
    /\ t \in Moments /\ 0 < t
    /\ \A x \in Pair1 : r2[x].progAt < t /\ r2[x].verAt < t
    /\ \A c \in Pair2 : /\ r4[c].at < t
                        /\ r4[c].status = "preview" =>
                              \A x \in Whose(c) : r4[c].digest[x].verAt < t

\* What an owner's request has read is still so, since nothing commits in between.
MergeCallFits(o) ==
    LET c == r9[o] IN
    c.pc # "idle" =>
        /\ c.id \in Pair2 /\ c.now <= r1
        /\ c.pc = "read" => c.snap = Merge!NoSnapshot
        /\ c.pc \in {"read", "capture", "merge"} =>
              Ahead(c.now) /\ \A x \in Pair1 : r2[x].itemAt < c.now
        /\ c.pc = "batch" =>
              /\ c.read.status = "preview" /\ c.read.at = 0
              /\ c.read.source \in Pair1 /\ c.read.survivor \in Pair1
              /\ Merge!Mergeable(c.read.source, c.read.survivor)
              /\ c.snap \in {Merge!NoSnapshot, Merge!Capture(c.read.source, c.read.survivor)}
        /\ c.pc \in {"capture", "merge"} =>
              /\ c.read = r4[c.id] /\ c.read.status = "preview"
              /\ \A p \in c.read.proofs : /\ r3[p] \in {"available", "expired"}
                                          /\ \A t \in r12 : t[2] # p
        /\ c.pc = "merge" => /\ c.snap = c.read.digest
                             /\ c.snap = Merge!Capture(c.read.source, c.read.survivor)
        /\ c.pc = "restore" =>
              /\ c.read = r4[c.id] /\ c.read.status = "completed" /\ ~Merge!ChangedSince(c.read)
        /\ c.pc = "promote" => c.read.source \in Pair1 /\ c.read.survivor \in Pair1

\* An import goes into an account that is its own, with all that is shown of it and all that
\* those who lead to it were told.
ImportFits(x) ==
    LET i == r10[x] IN
    i.pc # "idle" =>
        /\ i.into = Merge!Resolve(x) /\ r5[i.into] = None
        /\ i.now <= r1 /\ Ahead(i.now)
        /\ \A z \in Pair1 : Merge!Resolve(z) = i.into => r11[z] \subseteq i.item
        /\ i.pc = "row" => r2[i.into].item = i.item

\* The row has all that was told; the last import has too, but for the source of a merge
\* that was not promoted yet.
ToldFits(x) ==
    /\ r11[x] \subseteq r2[Merge!Resolve(x)].prog
    /\ \/ r11[x] \subseteq r2[Merge!Resolve(x)].item
       \/ r5[x] # None /\ r2[r5[x]].itemAt < MergedAt(x)

\* Since the merge of x its survivor was written to by a learner, and no rollback reaches
\* behind that moment.
Overtaken(x) ==
    \E t \in Moments :
        /\ MergedAt(x) < t /\ t <= r2[r5[x]].progAt
        /\ \A y \in Pair1 : r5[y] = r5[x] =>
              /\ MergedAt(y) # t
              /\ MergedAt(y) > t => SnapOf(y)[r5[x]].progAt >= t

\* The snapshot of a merge that can be rolled back has what both sides were told.
SnapshotKeeps(x) ==
    /\ r11[x] \subseteq SnapOf(x)[x].prog /\ r11[x] \subseteq r2[x].item
    /\ r11[r5[x]] \subseteq SnapOf(x)[r5[x]].prog
    /\ \A y \in Pair1 : r5[y] = r5[x] /\ MergedAt(y) < MergedAt(x) =>
          r11[y] \subseteq SnapOf(x)[r5[x]].prog

MergeDatabase ==
    /\ MergeTypes /\ InLineMerges /\ ProofsSpent
    /\ \A c \in Pair2 : CaseFits(c) /\ StaleFits(c)
    /\ \A x \in Pair1 : /\ AliasFits(x) /\ ToldFits(x)
                        /\ r5[x] # None => Overtaken(x) \/ SnapshotKeeps(x)

MergeInv ==
    /\ MergeDatabase /\ TakesTurns
    /\ \A o \in MergeCalls : MergeCallFits(o)
    /\ \A x \in Pair1 : ImportFits(x)

MergeConstants ==
    /\ MaxProofs \in Nat /\ MergeClock \in Nat /\ MaxVersion \in Nat
    /\ IsFiniteSet(Pair1) /\ IsFiniteSet(MergeCalls)
    /\ None \notin Pair1 /\ "none" \notin Pair2

LEMMA MergeConstantsHold == MergeConstants
BY RecordsConstants DEF MergeConstants

LEMMA EmptySnapshot == Merge!NoSnapshot \in Snapshots
<1>1. Merge!NoSnapshot \in [{} -> MergeContents] BY DEF Merge!NoSnapshot
<1> QED BY <1>1 DEF Snapshots

LEMMA NoCaseType ==
    ASSUME MergeConstants PROVE Merge!NoCase \in CaseRows
<1>1. Merge!NoSnapshot \in UNION {[S -> SUBSET MergeEvidence] : S \in SUBSET Pair1}
    <2>1. Merge!NoSnapshot \in [{} -> SUBSET MergeEvidence] BY DEF Merge!NoSnapshot
    <2> QED BY <2>1
<1>2. 0 \in Moments BY DEF MergeConstants, Moments
<1> QED BY <1>1, <1>2, EmptySnapshot DEF Merge!NoCase, CaseRows

LEMMA NoMergeCallType ==
    ASSUME MergeConstants PROVE Merge!NoCall \in MergeCallRows /\ Merge!NoCall.pc = "idle"
<1>1. 0 \in Moments BY DEF MergeConstants, Moments
<1> QED BY <1>1, EmptySnapshot, NoCaseType DEF Merge!NoCall, MergeCallRows

LEMMA NoImportType ==
    ASSUME MergeConstants PROVE Merge!NoImport \in ImportRows /\ Merge!NoImport.pc = "idle"
<1>1. 0 \in Moments BY DEF MergeConstants, Moments
<1> QED BY <1>1 DEF Merge!NoImport, ImportRows

\* What the snapshot covers of two accounts.
LEMMA CaptureType ==
    ASSUME MergeConstants, MergeTypes, NEW s \in Pair1, NEW v \in Pair1
    PROVE  /\ Merge!Capture(s, v) \in [{s, v} -> MergeContents]
           /\ Merge!Capture(s, v) \in Snapshots
           /\ \A x \in {s, v} : /\ Merge!Capture(s, v)[x].prog = r2[x].prog
                                /\ Merge!Capture(s, v)[x].progAt = r2[x].progAt
                                /\ Merge!Capture(s, v)[x].ver = r2[x].ver
                                /\ Merge!Capture(s, v)[x].verAt = r2[x].verAt
<1>1. ASSUME NEW x \in Pair1
      PROVE  /\ Merge!Content(r2[x]) \in MergeContents
             /\ Merge!Content(r2[x]).prog = r2[x].prog
             /\ Merge!Content(r2[x]).progAt = r2[x].progAt
             /\ Merge!Content(r2[x]).ver = r2[x].ver
             /\ Merge!Content(r2[x]).verAt = r2[x].verAt
    <2>1. r2[x] \in MergeAccounts BY DEF MergeTypes
    <2> QED BY <2>1 DEF MergeAccounts, MergeContents, Merge!Content
<1>2. Merge!Capture(s, v) \in [{s, v} -> MergeContents]
    BY <1>1 DEF Merge!Capture
<1>3. {s, v} \in SUBSET Pair1 OBVIOUS
<1>4. \A x \in {s, v} : Merge!Capture(s, v)[x] = Merge!Content(r2[x])
    BY DEF Merge!Capture
<1> QED BY <1>1, <1>2, <1>3, <1>4 DEF Snapshots

\* Nobody is under way when a request may begin.
LEMMA NobodyIsActive ==
    ASSUME MergeConstants, MergeTypes, Merge!MayBegin
    PROVE  /\ \A o \in MergeCalls : r9[o].pc = "idle"
           /\ \A x \in Pair1 : r10[x].pc = "idle"
           /\ r1 + 1 \in Moments
<1>1. ASSUME NEW S, NEW T, IsFiniteSet(S), IsFiniteSet(T),
             Merge!Cardinality(S) + Merge!Cardinality(T) < 1
      PROVE  S = {} /\ T = {}
    <2>1. Merge!Cardinality(S) = Cardinality(S) /\ Merge!Cardinality(T) = Cardinality(T)
        BY DEF Merge!Cardinality, Cardinality
    <2>2. Cardinality(S) \in Nat /\ Cardinality(T) \in Nat
        BY <1>1, FS_CardinalityType
    <2>3. Cardinality(S) = 0 /\ Cardinality(T) = 0
        BY <1>1, <2>1, <2>2
    <2> QED BY <1>1, <2>3, FS_EmptySet
<1>2. IsFiniteSet(Merge!Active) /\ IsFiniteSet(Merge!Importing)
    <2>1. Merge!Active \subseteq MergeCalls /\ Merge!Importing \subseteq Pair1
        BY DEF Merge!Active, Merge!Importing
    <2> QED BY <2>1, FS_Subset DEF MergeConstants
<1>3. Merge!Active = {} /\ Merge!Importing = {}
    BY <1>1, <1>2 DEF Merge!MayBegin
<1>4. r1 + 1 \in Moments
    BY DEF Merge!MayBegin, MergeTypes, Moments, MergeConstants
<1> QED BY <1>3, <1>4 DEF Merge!Active, Merge!Importing

\* The one that is under way.
LEMMA CallIsAlone ==
    ASSUME MergeInv, NEW o \in MergeCalls, r9[o].pc # "idle"
    PROVE  /\ \A q \in MergeCalls : q # o => r9[q].pc = "idle"
           /\ \A x \in Pair1 : r10[x].pc = "idle"
BY DEF MergeInv, TakesTurns

LEMMA ImportIsAlone ==
    ASSUME MergeInv, NEW x \in Pair1, r10[x].pc # "idle"
    PROVE  /\ \A y \in Pair1 : y # x => r10[y].pc = "idle"
           /\ \A o \in MergeCalls : r9[o].pc = "idle"
BY DEF MergeInv, TakesTurns

\* A step of the one request that is under way, or that begins.
LEMMA CallSteps ==
    ASSUME MergeDatabase', NEW o \in MergeCalls, NEW row, r9 \in [MergeCalls -> MergeCallRows],
           \A q \in MergeCalls : q # o => r9[q].pc = "idle",
           \A x \in Pair1 : r10[x].pc = "idle",
           r9' = [r9 EXCEPT ![o] = row], r10' = r10, MergeCallFits(o)'
    PROVE  MergeInv'
<1>1. \A q \in MergeCalls : q # o => r9'[q] = r9[q] OBVIOUS
<1>2. TakesTurns' BY <1>1 DEF TakesTurns
<1>3. ASSUME NEW q \in MergeCalls PROVE MergeCallFits(q)'
    BY <1>1 DEF MergeCallFits
<1>4. ASSUME NEW x \in Pair1 PROVE ImportFits(x)' BY DEF ImportFits
<1> QED BY <1>2, <1>3, <1>4 DEF MergeInv

LEMMA ImportSteps ==
    ASSUME MergeDatabase', NEW x \in Pair1, NEW row, r10 \in [Pair1 -> ImportRows],
           \A y \in Pair1 : y # x => r10[y].pc = "idle",
           \A o \in MergeCalls : r9[o].pc = "idle",
           r10' = [r10 EXCEPT ![x] = row], r9' = r9, ImportFits(x)'
    PROVE  MergeInv'
<1>1. \A y \in Pair1 : y # x => r10'[y] = r10[y] OBVIOUS
<1>2. TakesTurns' BY <1>1 DEF TakesTurns
<1>3. ASSUME NEW y \in Pair1 PROVE ImportFits(y)'
    BY <1>1 DEF ImportFits
<1>4. ASSUME NEW o \in MergeCalls PROVE MergeCallFits(o)' BY DEF MergeCallFits
<1> QED BY <1>2, <1>3, <1>4 DEF MergeInv

\* A step between the requests.
LEMMA NobodySteps ==
    ASSUME MergeDatabase', \A o \in MergeCalls : r9[o].pc = "idle",
           \A x \in Pair1 : r10[x].pc = "idle", r9' = r9, r10' = r10
    PROVE  MergeInv'
<1>1. TakesTurns' BY DEF TakesTurns
<1>2. ASSUME NEW x \in Pair1 PROVE ImportFits(x)' BY DEF ImportFits
<1>3. ASSUME NEW o \in MergeCalls PROVE MergeCallFits(o)' BY DEF MergeCallFits
<1> QED BY <1>1, <1>2, <1>3 DEF MergeInv

\* Nothing but the requests and the clock moves.
LEMMA DatabaseStands ==
    ASSUME MergeConstants, MergeDatabase, UNCHANGED <<r2, r3, r4, r5, r6, r7, r8, r11, r12>>,
           r1' \in Moments, r1 <= r1', r9' \in [MergeCalls -> MergeCallRows],
           r10' \in [Pair1 -> ImportRows]
    PROVE  MergeDatabase'
<1>0. r1 \in Nat /\ r1' \in Nat BY DEF MergeDatabase, MergeTypes, Moments, MergeConstants
<1>1. MergeTypes' BY DEF MergeDatabase, MergeTypes
<1>2. InLineMerges' BY DEF MergeDatabase, InLineMerges, MergedAt, SnapOf
<1>3. ProofsSpent' BY DEF MergeDatabase, ProofsSpent, Merge!ProofsServeOnce
<1>4. ASSUME NEW c \in Pair2 PROVE CaseFits(c)' /\ StaleFits(c)'
    <2>1. r4[c] \in CaseRows BY DEF MergeDatabase, MergeTypes
    <2>2. r4[c].at \in Nat BY <2>1 DEF CaseRows, Moments
    <2>3. CaseFits(c) /\ StaleFits(c) BY DEF MergeDatabase
    <2>4. ASSUME r4[c].status = "preview", NEW x \in Whose(c)
          PROVE  r4[c].digest[x].verAt \in Nat
        BY <2>3, <2>4 DEF CaseFits, MergeContents, Moments
    <2>5. CaseFits(c)' BY <1>0, <2>2, <2>3, <2>4 DEF CaseFits, Whose
    <2>6. StaleFits(c)' BY <2>3 DEF StaleFits, Whose, MergedAt
    <2> QED BY <2>5, <2>6
<1>5. ASSUME NEW x \in Pair1 PROVE AliasFits(x)'
    <2>1. r2[x] \in MergeAccounts BY DEF MergeDatabase, MergeTypes
    <2>2. r2[x].progAt \in Nat /\ r2[x].verAt \in Nat /\ r2[x].itemAt \in Nat
        BY <2>1 DEF MergeAccounts, Moments
    <2> QED BY <1>0, <2>2 DEF MergeDatabase, AliasFits, MergedAt
<1>6. ASSUME NEW x \in Pair1 PROVE ToldFits(x)' /\ (r5'[x] # None => (Overtaken(x) \/ SnapshotKeeps(x))')
    BY DEF MergeDatabase, ToldFits, Overtaken, SnapshotKeeps, MergedAt, SnapOf, Merge!Resolve
<1> QED BY <1>1, <1>2, <1>3, <1>4, <1>5, <1>6 DEF MergeDatabase

LEMMA MergeInitInv ==
    ASSUME MergeConstants, Merge!Init
    PROVE  MergeInv
<1>0. 0 \in Moments BY DEF MergeConstants, Moments
<1>1. Merge!Fresh \in MergeAccounts
    BY <1>0 DEF Merge!Fresh, MergeAccounts
<1>2. MergeTypes
    BY <1>0, <1>1, NoCaseType, NoMergeCallType, NoImportType DEF Merge!Init, MergeTypes
<1>3. \A x \in Pair1 : r5[x] = None /\ r6[x] = "none" /\ r2[x] = Merge!Fresh /\ r11[x] = {}
    BY DEF Merge!Init
<1>4. \A c \in Pair2 : r4[c].status = "none" /\ r4[c].at = 0
    BY DEF Merge!Init, Merge!NoCase
<1>5. InLineMerges /\ ProofsSpent
    BY <1>3 DEF Merge!Init, InLineMerges, ProofsSpent, Merge!ProofsServeOnce
<1>6. ASSUME NEW c \in Pair2 PROVE CaseFits(c) /\ StaleFits(c)
    BY <1>0, <1>4 DEF CaseFits, StaleFits, Merge!Init
<1>7. ASSUME NEW x \in Pair1
      PROVE  AliasFits(x) /\ ToldFits(x) /\ (r5[x] # None => Overtaken(x) \/ SnapshotKeeps(x))
    BY <1>0, <1>3 DEF AliasFits, ToldFits, Merge!Resolve, Merge!Fresh, Merge!Init
<1>8. \A o \in MergeCalls : r9[o].pc = "idle"
    BY DEF Merge!Init, Merge!NoCall
<1>9. \A x \in Pair1 : r10[x].pc = "idle"
    BY DEF Merge!Init, Merge!NoImport
<1> QED BY <1>2, <1>5, <1>6, <1>7, <1>8, <1>9
        DEF MergeInv, MergeDatabase, TakesTurns, MergeCallFits, ImportFits

\* The registers of the database and the clock stand still while a request reads.
LEMMA RequestReads ==
    ASSUME MergeConstants, MergeInv, NEW o \in MergeCalls, r9[o].pc # "idle",
           NEW row \in MergeCallRows, UNCHANGED Merge!Frame,
           r9' = [r9 EXCEPT ![o] = row], MergeCallFits(o)'
    PROVE  MergeInv'
<1>1. r1 \in Moments /\ r1 <= r1 /\ r9 \in [MergeCalls -> MergeCallRows]
      /\ r10 \in [Pair1 -> ImportRows]
    BY DEF MergeInv, MergeDatabase, MergeTypes, Moments, MergeConstants
<1>2. MergeDatabase'
    BY <1>1, DatabaseStands DEF Merge!Frame, MergeInv
<1> QED BY <1>1, <1>2, CallIsAlone, CallSteps DEF Merge!Frame

LEMMA RequestEnds ==
    ASSUME MergeConstants, MergeInv, NEW o \in MergeCalls, r9[o].pc # "idle",
           UNCHANGED Merge!Frame, Merge!End(o)
    PROVE  MergeInv'
<1>1. r9' = [r9 EXCEPT ![o] = Merge!NoCall] /\ r9'[o] = Merge!NoCall
    BY DEF Merge!End, MergeInv, MergeDatabase, MergeTypes
<1>2. MergeCallFits(o)' BY <1>1, NoMergeCallType DEF MergeCallFits
<1> QED BY <1>1, <1>2, NoMergeCallType, RequestReads

\* A moment that begins now is ahead of the database.
LEMMA NowIsAhead ==
    ASSUME MergeConstants, MergeDatabase, r1 + 1 \in Moments
    PROVE  Ahead(r1 + 1) /\ \A x \in Pair1 : r2[x].itemAt < r1 + 1
<1>0. r1 \in Nat BY DEF MergeDatabase, MergeTypes, Moments, MergeConstants
<1>1. ASSUME NEW x \in Pair1
      PROVE  r2[x].progAt < r1 + 1 /\ r2[x].verAt < r1 + 1 /\ r2[x].itemAt < r1 + 1
    <2>1. r2[x] \in MergeAccounts BY DEF MergeDatabase, MergeTypes
    <2>2. r2[x].progAt \in Nat /\ r2[x].verAt \in Nat /\ r2[x].itemAt \in Nat
        BY <2>1 DEF MergeAccounts, Moments
    <2> QED BY <1>0, <2>2 DEF MergeDatabase, AliasFits
<1>2. ASSUME NEW c \in Pair2
      PROVE  /\ r4[c].at < r1 + 1
             /\ r4[c].status = "preview" => \A x \in Whose(c) : r4[c].digest[x].verAt < r1 + 1
    <2>1. CaseFits(c) /\ r4[c] \in CaseRows BY DEF MergeDatabase, MergeTypes
    <2>2. r4[c].at \in Nat BY <2>1 DEF CaseRows, Moments
    <2>3. ASSUME r4[c].status = "preview", NEW x \in Whose(c)
          PROVE  r4[c].digest[x].verAt \in Nat
        BY <2>1, <2>3 DEF CaseFits, MergeContents, Moments
    <2> QED BY <1>0, <2>1, <2>2, <2>3 DEF CaseFits
<1> QED BY <1>0, <1>1, <1>2 DEF Ahead

LEMMA BeginKeepsMerge ==
    ASSUME MergeConstants, MergeInv, NEW o \in MergeCalls, NEW c \in Pair2,
           NEW op \in {"preview", "complete", "rollback"}, Merge!Begin(o, op, c)
    PROVE  MergeInv'
<1> DEFINE row == [Merge!NoCall EXCEPT !.op = op, !.pc = "read", !.id = c, !.now = r1 + 1]
<1>1. MergeTypes /\ MergeDatabase BY DEF MergeInv, MergeDatabase
<1>2. Merge!MayBegin /\ r9' = [r9 EXCEPT ![o] = row] /\ r1' = r1 + 1
      /\ UNCHANGED <<r2, r3, r4, r5, r6, r7, r8, r10, r11, r12>>
    BY DEF Merge!Begin
<1>3. /\ \A q \in MergeCalls : r9[q].pc = "idle"
      /\ \A x \in Pair1 : r10[x].pc = "idle"
      /\ r1 + 1 \in Moments
    BY <1>1, <1>2, NobodyIsActive
<1>4. /\ row \in MergeCallRows /\ row.pc = "read" /\ row.id = c /\ row.now = r1 + 1
      /\ row.snap = Merge!NoSnapshot
    <2>1. Merge!NoCall.snap = Merge!NoSnapshot BY DEF Merge!NoCall
    <2> QED BY <1>3, <2>1, NoMergeCallType DEF MergeCallRows
<1>5. r9 \in [MergeCalls -> MergeCallRows] /\ r10 \in [Pair1 -> ImportRows]
    BY <1>1 DEF MergeTypes
<1>6. r9'[o] = row /\ r9' \in [MergeCalls -> MergeCallRows]
    BY <1>2, <1>4, <1>5
<1>7. MergeDatabase'
    <2>1. r1 \in Nat BY <1>1 DEF MergeTypes, Moments, MergeConstants
    <2> QED BY <1>1, <1>2, <1>3, <1>5, <1>6, <2>1, DatabaseStands
<1>8. Ahead(r1)' /\ \A x \in Pair1 : r2'[x].itemAt < r1'
    <2>1. Ahead(r1 + 1) /\ \A x \in Pair1 : r2[x].itemAt < r1 + 1
        BY <1>1, <1>3, NowIsAhead
    <2> QED BY <1>2, <2>1 DEF Ahead, Whose
<1>9. MergeCallFits(o)'
    <2>1. r1' \in Nat BY <1>2, <1>3 DEF Moments
    <2>2. Ahead(r9[o].now)' /\ (r9[o].now)' <= r1'
        BY <1>2, <1>4, <1>6, <1>8, <2>1 DEF Ahead
    <2> HIDE DEF row
    <2> QED BY <1>2, <1>4, <1>6, <1>8, <2>1, <2>2 DEF MergeCallFits
<1> HIDE DEF row
<1> QED BY <1>2, <1>3, <1>5, <1>7, <1>9, CallSteps

LEMMA CallDiesKeeps ==
    ASSUME MergeConstants, MergeInv, NEW o \in MergeCalls, Merge!CallDies(o)
    PROVE  MergeInv'
BY RequestEnds DEF Merge!CallDies

LEMMA ReadPreviewKeeps ==
    ASSUME MergeConstants, MergeInv, NEW o \in MergeCalls, Merge!ReadPreview(o)
    PROVE  MergeInv'
<1>1. CASE Merge!End(o)
    BY <1>1, RequestEnds DEF Merge!ReadPreview
<1>2. CASE ~Merge!End(o)
    <2>1. PICK s \in Pair1, v \in Pair1, i \in 1..MaxProofs, j \in 1..MaxProofs :
              /\ Merge!Mergeable(s, v)
              /\ r9' = [r9 EXCEPT ![o].pc = "batch",
                    ![o].read = [Merge!NoCase EXCEPT !.status = "preview", !.source = s,
                                   !.survivor = v, !.proofs = {<<s, i>>, <<v, j>>}]]
        <3> DEFINE R(s, v, i, j) == r9' = [r9 EXCEPT ![o].pc = "batch",
                      ![o].read = [Merge!NoCase EXCEPT !.status = "preview", !.source = s,
                                     !.survivor = v, !.proofs = {<<s, i>>, <<v, j>>}]]
                   P(s, v, i, j) == r3[<<s, i>>] = "available" /\ r3[<<v, j>>] = "available"
        <3>1. \E s, v \in Pair1, i, j \in 1..MaxProofs :
                 IF Merge!Mergeable(s, v) /\ P(s, v, i, j) THEN R(s, v, i, j) ELSE Merge!End(o)
            BY <1>2, ZenonT(60) DEF Merge!ReadPreview
        <3> HIDE DEF R, P
        <3>2. \E s \in Pair1, v \in Pair1, i \in 1..MaxProofs, j \in 1..MaxProofs :
                 Merge!Mergeable(s, v) /\ R(s, v, i, j)
            BY <1>2, <3>1
        <3> QED BY <3>2 DEF R
    <2> DEFINE r == [Merge!NoCase EXCEPT !.status = "preview", !.source = s,
                                         !.survivor = v, !.proofs = {<<s, i>>, <<v, j>>}]
               half == [r9[o] EXCEPT !.pc = "batch"]
               row == [half EXCEPT !.read = r]
    <2>2. r \in CaseRows /\ r.status = "preview" /\ r.source = s /\ r.survivor = v /\ r.at = 0
        <3>1. {<<s, i>>, <<v, j>>} \in SUBSET Merge!Proofs BY DEF Merge!Proofs
        <3>2. Merge!NoCase.at = 0 BY DEF Merge!NoCase
        <3> QED BY <3>1, <3>2, NoCaseType DEF CaseRows
    <2>3. /\ r9[o] \in MergeCallRows /\ r9[o].pc = "read" /\ r9[o].pc # "idle"
          /\ r9 \in [MergeCalls -> MergeCallRows]
        BY DEF MergeInv, MergeDatabase, MergeTypes, Merge!ReadPreview
    <2>4. r9[o].id \in Pair2 /\ r9[o].now <= r1 /\ r9[o].snap = Merge!NoSnapshot
        BY <2>3 DEF MergeInv, MergeCallFits
    <2> HIDE DEF r
    <2>5. half \in MergeCallRows /\ half.pc = "batch" /\ half.id = r9[o].id
          /\ half.now = r9[o].now /\ half.snap = r9[o].snap
        BY <2>3 DEF MergeCallRows
    <2> HIDE DEF half
    <2>6. row \in MergeCallRows /\ row.pc = "batch" /\ row.id = r9[o].id
          /\ row.now = r9[o].now /\ row.snap = Merge!NoSnapshot /\ row.read = r
        BY <2>2, <2>4, <2>5 DEF MergeCallRows
    <2>7. r9' = [r9 EXCEPT ![o] = row] /\ r9'[o] = row
        BY <2>1, <2>3 DEF half, r
    <2> HIDE DEF row
    <2>8. MergeCallFits(o)'
        <3>1. Merge!Mergeable(s, v)' BY <2>1 DEF Merge!Mergeable, Merge!ReadPreview, Merge!Frame
        <3>2. UNCHANGED r1 BY DEF Merge!ReadPreview, Merge!Frame
        <3>3. s # v BY <2>1 DEF Merge!Mergeable
        <3> QED BY <2>2, <2>4, <2>6, <2>7, <3>1, <3>2, <3>3 DEF MergeCallFits, Merge!Mergeable
    <2> QED BY <2>3, <2>6, <2>7, <2>8, RequestReads DEF Merge!ReadPreview
<1> QED BY <1>1, <1>2

LEMMA CapturePreviewKeeps ==
    ASSUME MergeConstants, MergeInv, NEW o \in MergeCalls, Merge!CapturePreview(o)
    PROVE  MergeInv'
<1> DEFINE s == Merge!Capture(r9[o].read.source, r9[o].read.survivor)
           row == [r9[o] EXCEPT !.snap = s]
<1>1. /\ r9[o] \in MergeCallRows /\ r9[o].pc = "batch" /\ r9[o].pc # "idle"
      /\ r9 \in [MergeCalls -> MergeCallRows] /\ MergeTypes
    BY DEF MergeInv, MergeDatabase, MergeTypes, Merge!CapturePreview
<1>2. MergeCallFits(o) BY DEF MergeInv
<1>3. s \in Snapshots
    BY <1>1, <1>2, CaptureType DEF MergeCallFits
<1>4. r9' = [r9 EXCEPT ![o] = row] BY DEF Merge!CapturePreview
<1>5. UNCHANGED <<r1, r2, r3, r4, r5, r12>> BY DEF Merge!CapturePreview, Merge!Frame
<1>6. row \in MergeCallRows /\ row.pc = "batch" /\ row.id = r9[o].id
      /\ row.now = r9[o].now /\ row.snap = s /\ row.read = r9[o].read
    <2> HIDE DEF s
    <2> QED BY <1>1, <1>3 DEF MergeCallRows
<1>7. r9'[o] = row BY <1>1, <1>4
<1>8. MergeCallFits(o)'
    <2>1. Merge!Capture(r9[o].read.source, r9[o].read.survivor)' = s
        BY <1>5, <1>6, <1>7 DEF Merge!Capture, Merge!Content
    <2>2. Merge!Mergeable(r9[o].read.source, r9[o].read.survivor)'
        BY <1>1, <1>2, <1>5, <1>6, <1>7 DEF MergeCallFits, Merge!Mergeable
    <2> HIDE DEF row, s
    <2> QED BY <1>1, <1>2, <1>5, <1>6, <1>7, <2>1, <2>2 DEF MergeCallFits
<1> HIDE DEF row, s
<1> QED BY <1>1, <1>4, <1>6, <1>8, RequestReads DEF Merge!CapturePreview

\* A request has read its case and goes on with it.
LEMMA CaseIsRead ==
    ASSUME MergeConstants, MergeInv, NEW o \in MergeCalls, r9[o].pc = "read",
           NEW p \in {"capture", "promote", "restore"}, NEW t \in SUBSET Pair1, NEW row,
           \/ row = [[[r9[o] EXCEPT !.read = r4[r9[o].id]] EXCEPT !.pc = p] EXCEPT !.todo = t]
           \/ row = [[r9[o] EXCEPT !.read = r4[r9[o].id]] EXCEPT !.pc = p],
           UNCHANGED Merge!Frame, r9' = [r9 EXCEPT ![o] = row],
           r4[r9[o].id].status # "none",
           p = "capture" => /\ r4[r9[o].id].status = "preview"
                            /\ \A q \in r4[r9[o].id].proofs :
                                  r3[q] = "available",
           p = "restore" => /\ r4[r9[o].id].status = "completed"
                            /\ ~Merge!ChangedSince(r4[r9[o].id])
    PROVE  MergeInv'
<1>1. MergeTypes /\ MergeCallFits(o) BY DEF MergeInv, MergeDatabase
<1>2. r9[o] \in MergeCallRows /\ r9[o].id \in Pair2 /\ r9[o].now <= r1
      /\ Ahead(r9[o].now) /\ \A x \in Pair1 : r2[x].itemAt < r9[o].now
    BY <1>1 DEF MergeTypes, MergeCallFits
<1>3. PICK r : r = r4[r9[o].id] OBVIOUS
<1>4. r \in CaseRows /\ r.source \in Pair1 /\ r.survivor \in Pair1
    BY <1>1, <1>2, <1>3 DEF MergeTypes, MergeInv, MergeDatabase, CaseFits
<1>5. PICK d : d = [r9[o] EXCEPT !.read = r] OBVIOUS
<1>6. /\ d \in MergeCallRows /\ d.id = r9[o].id /\ d.now = r9[o].now /\ d.read = r
    BY <1>2, <1>4, <1>5 DEF MergeCallRows
<1>7. PICK e : e = [d EXCEPT !.pc = p] OBVIOUS
<1>8. /\ e \in MergeCallRows /\ e.id = r9[o].id /\ e.now = r9[o].now /\ e.read = r /\ e.pc = p
    BY <1>6, <1>7 DEF MergeCallRows
<1>9. row = [e EXCEPT !.todo = t] \/ row = e
    BY <1>3, <1>5, <1>7
<1>10. /\ row \in MergeCallRows /\ row.id = r9[o].id /\ row.now = r9[o].now /\ row.read = r
       /\ row.pc = p
    BY <1>8, <1>9 DEF MergeCallRows
<1>11. UNCHANGED <<r1, r2, r3, r4, r12>> BY DEF Merge!Frame
<1>12. r9'[o] = row BY <1>1 DEF MergeTypes
<1>13. MergeCallFits(o)'
    <2>1. CASE p = "promote"
        BY <1>2, <1>4, <1>10, <1>11, <1>12, <2>1 DEF MergeCallFits
    <2>2. CASE p = "restore"
        <3>1. r.status = "completed" /\ ~Merge!ChangedSince(r)' /\ r = r4'[r9[o].id]
            BY <1>3, <1>11, <2>2 DEF Merge!ChangedSince
        <3> QED BY <1>2, <1>4, <1>10, <1>11, <1>12, <2>2, <3>1 DEF MergeCallFits
    <2>3. CASE p = "capture"
        <3>1. r.status = "preview" /\ r = r4'[r9[o].id] /\ \A q \in r.proofs : r3'[q] = "available"
            BY <1>3, <1>11, <2>3
        <3>2. \A q \in r.proofs : \A u \in r12' : u[2] # q
            BY <1>11, <3>1 DEF MergeInv, MergeDatabase, ProofsSpent
        <3>3. Ahead(r9[o].now)' /\ (r9[o].now)' = r9[o].now
            BY <1>10, <1>11, <1>12, <1>2 DEF Ahead, Whose
        <3> QED BY <1>2, <1>4, <1>10, <1>11, <1>12, <2>3, <3>1, <3>2, <3>3 DEF MergeCallFits
    <2> QED BY <2>1, <2>2, <2>3
<1> QED BY <1>10, <1>13, RequestReads

LEMMA ReadCompleteKeeps ==
    ASSUME MergeConstants, MergeInv, NEW o \in MergeCalls, Merge!ReadComplete(o)
    PROVE  MergeInv'
<1>1. /\ r9[o] \in MergeCallRows /\ r9[o].pc = "read" /\ r9[o].id \in Pair2
      /\ r9 \in [MergeCalls -> MergeCallRows]
    BY DEF MergeInv, MergeDatabase, MergeTypes, MergeCallFits, Merge!ReadComplete
<1>2. PICK r : r = r4[r9[o].id] OBVIOUS
<1>3. CASE r.status = "completed"
    <2>1. r9' = [r9 EXCEPT ![o].read = r, ![o].pc = "promote", ![o].todo = {r.survivor}]
        BY <1>2, <1>3 DEF Merge!ReadComplete
    <2>2. PICK row : row = [[[r9[o] EXCEPT !.read = r] EXCEPT !.pc = "promote"]
                                EXCEPT !.todo = {r.survivor}] OBVIOUS
    <2>3. r9' = [r9 EXCEPT ![o] = row] BY <1>1, <2>1, <2>2
    <2>4. {r.survivor} \in SUBSET Pair1
        BY <1>1, <1>2, <1>3 DEF MergeInv, MergeDatabase, CaseFits
    <2> QED BY <1>1, <1>2, <1>3, <2>2, <2>3, <2>4, CaseIsRead DEF Merge!ReadComplete
<1>4. CASE r.status = "preview" /\ Merge!ProofsFit(r)
    <2>1. r9' = [r9 EXCEPT ![o].read = r, ![o].pc = "capture"]
        BY <1>2, <1>4 DEF Merge!ReadComplete
    <2>2. PICK row : row = [[r9[o] EXCEPT !.read = r] EXCEPT !.pc = "capture"] OBVIOUS
    <2>3. r9' = [r9 EXCEPT ![o] = row] BY <1>1, <2>1, <2>2
    <2>4. \A q \in r.proofs : r3[q] = "available" BY <1>4 DEF Merge!ProofsFit
    <2>5. {} \in SUBSET Pair1 OBVIOUS
    <2> QED BY <1>1, <1>2, <1>4, <2>2, <2>3, <2>4, <2>5, CaseIsRead DEF Merge!ReadComplete
<1>5. CASE Merge!End(o)
    BY <1>1, <1>5, RequestEnds DEF Merge!ReadComplete
<1> QED BY <1>2, <1>3, <1>4, <1>5 DEF Merge!ReadComplete

LEMMA ReadRollbackKeeps ==
    ASSUME MergeConstants, MergeInv, NEW o \in MergeCalls, Merge!ReadRollback(o)
    PROVE  MergeInv'
<1>1. /\ r9[o] \in MergeCallRows /\ r9[o].pc = "read" /\ r9[o].id \in Pair2
      /\ r9 \in [MergeCalls -> MergeCallRows]
    BY DEF MergeInv, MergeDatabase, MergeTypes, MergeCallFits, Merge!ReadRollback
<1>2. PICK r : r = r4[r9[o].id] OBVIOUS
<1>3. CASE r.status = "rolled-back"
    <2>1. r9' = [r9 EXCEPT ![o].read = r, ![o].pc = "promote",
                           ![o].todo = {r.source, r.survivor}]
        BY <1>2, <1>3 DEF Merge!ReadRollback
    <2>2. PICK row : row = [[[r9[o] EXCEPT !.read = r] EXCEPT !.pc = "promote"]
                                EXCEPT !.todo = {r.source, r.survivor}] OBVIOUS
    <2>3. r9' = [r9 EXCEPT ![o] = row] BY <1>1, <2>1, <2>2
    <2>4. {r.source, r.survivor} \in SUBSET Pair1
        BY <1>1, <1>2, <1>3 DEF MergeInv, MergeDatabase, CaseFits
    <2> QED BY <1>1, <1>2, <1>3, <2>2, <2>3, <2>4, CaseIsRead DEF Merge!ReadRollback
<1>4. CASE r.status = "completed" /\ ~Merge!ChangedSince(r)
    <2>1. r9' = [r9 EXCEPT ![o].read = r, ![o].pc = "restore"]
        BY <1>2, <1>4 DEF Merge!ReadRollback
    <2>2. PICK row : row = [[r9[o] EXCEPT !.read = r] EXCEPT !.pc = "restore"] OBVIOUS
    <2>3. r9' = [r9 EXCEPT ![o] = row] BY <1>1, <2>1, <2>2
    <2>4. {} \in SUBSET Pair1 OBVIOUS
    <2> QED BY <1>1, <1>2, <1>4, <2>2, <2>3, <2>4, CaseIsRead DEF Merge!ReadRollback
<1>5. CASE Merge!End(o)
    BY <1>1, <1>5, RequestEnds DEF Merge!ReadRollback
<1> QED BY <1>2, <1>3, <1>4, <1>5 DEF Merge!ReadRollback

LEMMA CaptureCompleteKeeps ==
    ASSUME MergeConstants, MergeInv, NEW o \in MergeCalls, Merge!CaptureComplete(o)
    PROVE  MergeInv'
<1>1. /\ r9[o] \in MergeCallRows /\ r9[o].pc = "capture"
      /\ r9 \in [MergeCalls -> MergeCallRows] /\ MergeTypes /\ MergeCallFits(o)
    BY DEF MergeInv, MergeDatabase, MergeTypes, Merge!CaptureComplete
<1>2. PICK r : r = r9[o].read OBVIOUS
<1>3. /\ r = r4[r9[o].id] /\ r.status = "preview" /\ r9[o].id \in Pair2
      /\ r.source \in Pair1 /\ r.survivor \in Pair1
    BY <1>1, <1>2 DEF MergeCallFits, MergeInv, MergeDatabase, CaseFits
<1>4. PICK s : s = Merge!Capture(r.source, r.survivor) OBVIOUS
<1>5. s \in Snapshots BY <1>1, <1>3, <1>4, CaptureType
<1>6. UNCHANGED <<r1, r2, r3, r4, r12>> BY DEF Merge!CaptureComplete, Merge!Frame
<1>7. CASE Merge!Unchanged(r)
    <2>1. r9' = [r9 EXCEPT ![o].snap = s, ![o].pc = "merge"]
        BY <1>2, <1>4, <1>7 DEF Merge!CaptureComplete
    <2>2. PICK row : row = [[r9[o] EXCEPT !.snap = s] EXCEPT !.pc = "merge"] OBVIOUS
    <2>3. r9' = [r9 EXCEPT ![o] = row] /\ r9'[o] = row BY <1>1, <2>1, <2>2
    <2>4. /\ row \in MergeCallRows /\ row.pc = "merge" /\ row.id = r9[o].id /\ row.snap = s
          /\ row.now = r9[o].now /\ row.read = r
        BY <1>1, <1>2, <1>5, <2>2 DEF MergeCallRows
    <2>5. MergeCallFits(o)'
        <3>1. s = Merge!Capture(r.source, r.survivor)' /\ s = r.digest
            BY <1>4, <1>6, <1>7 DEF Merge!Unchanged, Merge!Capture, Merge!Content
        <3>2. Ahead(r9[o].now)' BY <1>1, <1>6, <2>3, <2>4 DEF MergeCallFits, Ahead, Whose
        <3> QED BY <1>1, <1>2, <1>6, <2>3, <2>4, <3>1, <3>2, ZenonT(30) DEF MergeCallFits
    <2> QED BY <1>1, <2>3, <2>4, <2>5, RequestReads DEF Merge!CaptureComplete
<1>8. CASE Merge!End(o)
    BY <1>1, <1>8, RequestEnds DEF Merge!CaptureComplete
<1> QED BY <1>2, <1>7, <1>8 DEF Merge!CaptureComplete

LEMMA MergeFailsKeeps ==
    ASSUME MergeConstants, MergeInv, NEW o \in MergeCalls, Merge!MergeFails(o)
    PROVE  MergeInv'
<1>1. /\ r9[o] \in MergeCallRows /\ r9[o].pc = "merge" /\ MergeCallFits(o)
    BY DEF MergeInv, MergeDatabase, MergeTypes, Merge!MergeFails
<1>2. r4[r9[o].id].status # "completed"
    BY <1>1 DEF MergeCallFits
<1> QED BY <1>1, <1>2, RequestEnds DEF Merge!MergeFails

\* Only the last import of an account changes, and has what those who lead to it were told.
LEMMA ItemsMove ==
    ASSUME MergeConstants, MergeDatabase, UNCHANGED <<r1, r3, r4, r5, r6, r7, r8, r11, r12>>,
           r2' \in [Pair1 -> MergeAccounts],
           r9' \in [MergeCalls -> MergeCallRows], r10' \in [Pair1 -> ImportRows],
           \A x \in Pair1 : /\ r2'[x].prog = r2[x].prog /\ r2'[x].progAt = r2[x].progAt
                            /\ r2'[x].ver = r2[x].ver /\ r2'[x].verAt = r2[x].verAt,
           \A x \in Pair1 : r2'[x].itemAt <= r1,
           \A x \in Pair1 : \/ r2'[x].item = r2[x].item /\ r2'[x].itemAt = r2[x].itemAt
                            \/ /\ r5[x] = None
                               /\ \A z \in Pair1 : Merge!Resolve(z) = x => r11[z] \subseteq r2'[x].item
    PROVE  MergeDatabase'
<1>1. MergeTypes' BY DEF MergeDatabase, MergeTypes
<1>2. InLineMerges' BY DEF MergeDatabase, InLineMerges, MergedAt, SnapOf
<1>3. ProofsSpent' BY DEF MergeDatabase, ProofsSpent, Merge!ProofsServeOnce
<1>4. ASSUME NEW c \in Pair2 PROVE CaseFits(c)' /\ StaleFits(c)'
    <2>1. CaseFits(c) /\ StaleFits(c) BY DEF MergeDatabase
    <2>2. CaseFits(c)' BY <2>1 DEF CaseFits, Whose
    <2>3. StaleFits(c)'
        <3>1. r4[c].status = "preview" => \A x \in Whose(c) : x \in Pair1
            BY <2>1 DEF CaseFits, Whose
        <3> QED BY <2>1, <3>1 DEF StaleFits, Whose, MergedAt
    <2> QED BY <2>2, <2>3
<1>5. \A x \in Pair1 : r5[x] = None \/ r5[x] \in Pair1
    BY DEF MergeDatabase, MergeTypes
<1>6. ASSUME NEW x \in Pair1 PROVE AliasFits(x)'
    <2>1. AliasFits(x) BY DEF MergeDatabase
    <2> QED BY <1>5, <2>1 DEF AliasFits, MergedAt
<1>7. ASSUME NEW x \in Pair1 PROVE ToldFits(x)'
    <2>1. ToldFits(x) /\ Merge!Resolve(x) \in Pair1
        BY <1>5 DEF MergeDatabase, Merge!Resolve
    <2>2. Merge!Resolve(x)' = Merge!Resolve(x) BY DEF Merge!Resolve
    <2>3. PICK v \in Pair1 : v = Merge!Resolve(x) BY <2>1
    <2>4. r5[x] # None => r5[x] = v BY <2>3 DEF Merge!Resolve
    <2>5. r11[x] \subseteq r2'[v].prog BY <2>1, <2>3 DEF ToldFits
    <2>6. \/ r11[x] \subseteq r2'[v].item
          \/ r5[x] # None /\ r2'[r5[x]].itemAt < MergedAt(x)
        BY <2>1, <2>3, <2>4 DEF ToldFits
    <2>7. MergedAt(x)' = MergedAt(x) BY DEF MergedAt
    <2> QED BY <2>2, <2>3, <2>5, <2>6, <2>7 DEF ToldFits
<1>8. ASSUME NEW x \in Pair1, r5[x] # None PROVE (Overtaken(x) \/ SnapshotKeeps(x))'
    <2>1. Overtaken(x) \/ SnapshotKeeps(x) BY <1>8 DEF MergeDatabase
    <2>2. r5[x] \in Pair1 BY <1>5, <1>8
    <2>3. Overtaken(x) => Overtaken(x)' BY <2>2 DEF Overtaken, MergedAt, SnapOf
    <2>4. SnapshotKeeps(x) => SnapshotKeeps(x)'
        BY <1>8, <2>2 DEF SnapshotKeeps, MergedAt, SnapOf
    <2> QED BY <2>1, <2>3, <2>4
<1> QED BY <1>1, <1>2, <1>3, <1>4, <1>6, <1>7, <1>8 DEF MergeDatabase

\* The one account whose last import changes.
LEMMA ItemMoves ==
    ASSUME MergeConstants, MergeDatabase, UNCHANGED <<r1, r3, r4, r5, r6, r7, r8, r11, r12>>,
           r9' \in [MergeCalls -> MergeCallRows], r10' \in [Pair1 -> ImportRows],
           NEW x \in Pair1, NEW row, r2' = [r2 EXCEPT ![x] = row], row \in MergeAccounts,
           row.prog = r2[x].prog, row.progAt = r2[x].progAt, row.ver = r2[x].ver,
           row.verAt = r2[x].verAt, row.itemAt <= r1, r5[x] = None,
           \A z \in Pair1 : Merge!Resolve(z) = x => r11[z] \subseteq row.item
    PROVE  MergeDatabase'
<1>1. r2 \in [Pair1 -> MergeAccounts] BY DEF MergeDatabase, MergeTypes
<1>2. r2' \in [Pair1 -> MergeAccounts] /\ r2'[x] = row /\ \A y \in Pair1 : y # x => r2'[y] = r2[y]
    BY <1>1
<1>3. \A y \in Pair1 : r2[y].itemAt <= r1 BY DEF MergeDatabase, AliasFits
<1> QED BY <1>2, <1>3, ItemsMove

\* An account that was merged away has nothing to promote, and the row of any other has what
\* was told of it.
LEMMA RowHasTold ==
    ASSUME MergeConstants, MergeDatabase, NEW x \in Pair1, r2[x].progAt # 0
    PROVE  /\ r5[x] = None
           /\ \A z \in Pair1 : Merge!Resolve(z) = x => r11[z] \subseteq r2[x].prog
BY DEF MergeDatabase, AliasFits, ToldFits

LEMMA ReadProgressKeeps ==
    ASSUME MergeConstants, MergeInv, NEW x \in Pair1, Merge!ReadProgress(x)
    PROVE  MergeInv'
<1>1. MergeTypes /\ MergeDatabase /\ Merge!MayBegin /\ r2[x].progAt # 0
    BY DEF MergeInv, MergeDatabase, Merge!ReadProgress, Merge!Promotable
<1>2. /\ \A q \in MergeCalls : r9[q].pc = "idle"
      /\ \A y \in Pair1 : r10[y].pc = "idle"
    BY <1>1, NobodyIsActive
<1>3. PICK half : half = [r2[x] EXCEPT !.item = r2[x].prog] OBVIOUS
<1>4. PICK row : row = [half EXCEPT !.itemAt = r2[x].progAt] OBVIOUS
<1>5. r2[x] \in MergeAccounts BY <1>1 DEF MergeTypes
<1>6. /\ row \in MergeAccounts /\ row.prog = r2[x].prog /\ row.progAt = r2[x].progAt
      /\ row.ver = r2[x].ver /\ row.verAt = r2[x].verAt /\ row.item = r2[x].prog
      /\ row.itemAt = r2[x].progAt
    BY <1>3, <1>4, <1>5 DEF MergeAccounts
<1>7. r2' = [r2 EXCEPT ![x] = row]
    BY <1>3, <1>4 DEF Merge!ReadProgress
<1>8. r2[x].progAt <= r1 BY <1>1 DEF MergeDatabase, AliasFits
<1>9. MergeDatabase'
    BY <1>1, <1>6, <1>7, <1>8, RowHasTold, ItemMoves DEF Merge!ReadProgress, MergeTypes
<1> QED BY <1>2, <1>9, NobodySteps DEF Merge!ReadProgress

LEMMA ImportDiesKeeps ==
    ASSUME MergeConstants, MergeInv, NEW x \in Pair1, Merge!ImportDies(x)
    PROVE  MergeInv'
<1>1. r1 \in Moments /\ r1 <= r1 /\ r9 \in [MergeCalls -> MergeCallRows]
      /\ r10 \in [Pair1 -> ImportRows]
    BY DEF MergeInv, MergeDatabase, MergeTypes, Moments, MergeConstants
<1>2. r10' = [r10 EXCEPT ![x] = Merge!NoImport] /\ r10'[x] = Merge!NoImport
      /\ r10' \in [Pair1 -> ImportRows]
    BY <1>1, NoImportType DEF Merge!ImportDies
<1>3. MergeDatabase'
    BY <1>1, <1>2, DatabaseStands DEF Merge!ImportDies, MergeInv
<1>4. ImportFits(x)' BY <1>2, NoImportType DEF ImportFits
<1> QED BY <1>1, <1>2, <1>3, <1>4, ImportIsAlone, ImportSteps DEF Merge!ImportDies

\* What is shown of an account is what its identities were told at least.
LEMMA ShownHasTold ==
    ASSUME MergeConstants, MergeDatabase, NEW x \in Pair1, NEW v \in Pair1, v = Merge!Resolve(x)
    PROVE  r11[x] \subseteq Merge!Shown(v)
<1>1. ToldFits(x) /\ AliasFits(x) /\ AliasFits(v) BY DEF MergeDatabase
<1>2. r11[x] \subseteq r2[v].prog BY <1>1 DEF ToldFits
<1>3. CASE Merge!Promotable(r2[v])
    BY <1>2, <1>3 DEF Merge!Shown
<1>4. CASE ~Merge!Promotable(r2[v]) /\ r11[x] \subseteq r2[v].item
    BY <1>4 DEF Merge!Shown
<1>5. CASE ~Merge!Promotable(r2[v]) /\ ~(r11[x] \subseteq r2[v].item)
    <2>1. r5[x] = v /\ r2[v].itemAt < MergedAt(x) /\ 0 < MergedAt(x) /\ MergedAt(x) <= r2[v].progAt
        BY <1>1, <1>5 DEF ToldFits, AliasFits, Merge!Resolve, MergeConstants
    <2>2. r2[v] \in MergeAccounts BY DEF MergeDatabase, MergeTypes
    <2>3. r6[x] \in Pair2 BY <1>1, <2>1 DEF AliasFits, MergeDatabase, MergeTypes, MergeConstants
    <2>4. r2[v].itemAt \in Nat /\ r2[v].progAt \in Nat /\ MergedAt(x) \in Nat
        BY <2>2, <2>3 DEF MergeAccounts, Moments, MergedAt, MergeDatabase, MergeTypes, CaseRows
    <2>5. r2[v].prog = r2[v].item
        BY <1>5, <2>1, <2>4 DEF Merge!Promotable
    <2> QED BY <1>2, <1>5, <2>5
<1> QED BY <1>3, <1>4, <1>5

LEMMA BeginImportKeeps ==
    ASSUME MergeConstants, MergeInv, NEW x \in Pair1, NEW e \in MergeEvidence,
           Merge!BeginImport(x, e)
    PROVE  MergeInv'
<1> DEFINE item == Merge!Shown(Merge!Resolve(x)) \cup r11[x] \cup {e}
           row == [pc |-> "append", into |-> Merge!Resolve(x), item |-> item, now |-> r1 + 1]
<1>1. MergeTypes /\ MergeDatabase /\ Merge!MayBegin
    BY DEF MergeInv, MergeDatabase, Merge!BeginImport
<1>2. /\ \A q \in MergeCalls : r9[q].pc = "idle"
      /\ \A y \in Pair1 : r10[y].pc = "idle"
      /\ r1 + 1 \in Moments
    BY <1>1, NobodyIsActive
<1>3. PICK v : v = Merge!Resolve(x) OBVIOUS
<1>4. v \in Pair1 /\ r5[v] = None
    BY <1>1, <1>3 DEF Merge!Resolve, MergeDatabase, MergeTypes, AliasFits
<1>5. item \in SUBSET MergeEvidence
    <2>1. r2[v] \in MergeAccounts /\ r11[x] \in SUBSET MergeEvidence
        BY <1>1, <1>4 DEF MergeTypes
    <2>2. Merge!Shown(v) \in SUBSET MergeEvidence
        BY <2>1 DEF MergeAccounts, Merge!Shown
    <2> QED BY <1>3, <2>1, <2>2
<1>6. \A z \in Pair1 : Merge!Resolve(z) = v => r11[z] \subseteq item
    BY <1>1, <1>3, <1>4, ShownHasTold
<1>7. /\ r10' = [r10 EXCEPT ![x] = row] /\ r1' = r1 + 1
      /\ UNCHANGED <<r2, r3, r4, r5, r6, r7, r8, r9, r11, r12>>
    BY DEF Merge!BeginImport
<1>8. PICK i : i = item OBVIOUS
<1> HIDE DEF item
<1>9. /\ row \in ImportRows /\ row.pc = "append" /\ row.into = v /\ row.item = i
      /\ row.now = r1 + 1
    BY <1>2, <1>3, <1>4, <1>5, <1>8 DEF ImportRows
<1> HIDE DEF row
<1>10. r9 \in [MergeCalls -> MergeCallRows] /\ r10 \in [Pair1 -> ImportRows] /\ r1 \in Nat
    BY <1>1 DEF MergeTypes, Moments, MergeConstants
<1>11. r10'[x] = row /\ r10' \in [Pair1 -> ImportRows]
    BY <1>7, <1>9, <1>10
<1>12. MergeDatabase'
    BY <1>1, <1>2, <1>7, <1>10, <1>11, DatabaseStands
<1>13. ImportFits(x)'
    <2>1. Ahead(r1 + 1) BY <1>1, <1>2, NowIsAhead
    <2>2. Ahead(r10[x].now)' BY <1>7, <1>9, <1>11, <2>1 DEF Ahead, Whose
    <2>3. (r10[x].into = Merge!Resolve(x))' /\ (r5[r10[x].into] = None)'
        BY <1>3, <1>4, <1>7, <1>9, <1>11 DEF Merge!Resolve
    <2>4. (\A z \in Pair1 : Merge!Resolve(z) = r10[x].into => r11[z] \subseteq r10[x].item)'
        BY <1>6, <1>7, <1>8, <1>9, <1>11 DEF Merge!Resolve
    <2>5. (r10[x].now <= r1)' BY <1>7, <1>9, <1>10, <1>11
    <2> QED BY <1>9, <1>11, <2>2, <2>3, <2>4, <2>5 DEF ImportFits
<1> QED BY <1>2, <1>7, <1>10, <1>12, <1>13, ImportSteps

LEMMA AppendImportKeeps ==
    ASSUME MergeConstants, MergeInv, NEW x \in Pair1, Merge!AppendImport(x)
    PROVE  MergeInv'
<1>1. MergeTypes /\ MergeDatabase /\ ImportFits(x) /\ r10[x].pc = "append"
    BY DEF MergeInv, MergeDatabase, Merge!AppendImport
<1>2. PICK v : v = r10[x].into OBVIOUS
<1>3. PICK i : i = r10[x].item OBVIOUS
<1>4. PICK n : n = r10[x].now OBVIOUS
<1>5. /\ r10[x] \in ImportRows /\ v = Merge!Resolve(x) /\ r5[v] = None /\ n <= r1 /\ Ahead(n)
      /\ \A z \in Pair1 : Merge!Resolve(z) = v => r11[z] \subseteq i
    BY <1>1, <1>2, <1>3, <1>4 DEF ImportFits, MergeTypes
<1>6. v \in Pair1 /\ i \in SUBSET MergeEvidence /\ n \in Moments
    BY <1>1, <1>2, <1>3, <1>4, <1>5 DEF ImportRows, Merge!Resolve, MergeTypes
<1>7. PICK half : half = [r2[v] EXCEPT !.item = i] OBVIOUS
<1>8. PICK row : row = [half EXCEPT !.itemAt = n] OBVIOUS
<1>9. r2[v] \in MergeAccounts /\ r2 \in [Pair1 -> MergeAccounts]
      /\ r9 \in [MergeCalls -> MergeCallRows] /\ r10 \in [Pair1 -> ImportRows]
    BY <1>1, <1>6 DEF MergeTypes
<1>10. /\ row \in MergeAccounts /\ row.prog = r2[v].prog /\ row.progAt = r2[v].progAt
       /\ row.ver = r2[v].ver /\ row.verAt = r2[v].verAt /\ row.item = i /\ row.itemAt = n
    BY <1>6, <1>7, <1>8, <1>9 DEF MergeAccounts
<1>11. r2' = [r2 EXCEPT ![v].item = i, ![v].itemAt = n]
    BY <1>2, <1>3, <1>4 DEF Merge!AppendImport
<1>12. r2' = [r2 EXCEPT ![v] = row]
    BY <1>6, <1>7, <1>8, <1>9, <1>11
<1>13. PICK next : next = [r10[x] EXCEPT !.pc = "row"] OBVIOUS
<1>14. /\ next \in ImportRows /\ next.pc = "row" /\ next.into = v /\ next.item = i
       /\ next.now = n
    BY <1>2, <1>3, <1>4, <1>5, <1>13 DEF ImportRows
<1>15. r10' = [r10 EXCEPT ![x] = next] /\ r10' \in [Pair1 -> ImportRows] /\ r10'[x] = next
    BY <1>9, <1>13, <1>14 DEF Merge!AppendImport
<1>16. UNCHANGED <<r1, r3, r4, r5, r6, r7, r8, r9, r11, r12>> BY DEF Merge!AppendImport
<1>17. MergeDatabase'
    BY <1>1, <1>5, <1>6, <1>9, <1>10, <1>12, <1>15, <1>16, ItemMoves
<1>18. ImportFits(x)'
    <2>1. \A y \in Pair1 : r2'[y].progAt = r2[y].progAt /\ r2'[y].verAt = r2[y].verAt
        BY <1>6, <1>9, <1>10, <1>12
    <2>2. Ahead(r10[x].now)' BY <1>5, <1>14, <1>15, <1>16, <2>1 DEF Ahead, Whose
    <2>3. (r10[x].into = Merge!Resolve(x))' /\ (r5[r10[x].into] = None)'
        BY <1>5, <1>14, <1>15, <1>16 DEF Merge!Resolve
    <2>4. (\A z \in Pair1 : Merge!Resolve(z) = r10[x].into => r11[z] \subseteq r10[x].item)'
        BY <1>5, <1>14, <1>15, <1>16 DEF Merge!Resolve
    <2>5. r2'[v].item = i BY <1>6, <1>9, <1>10, <1>12
    <2> QED BY <1>5, <1>14, <1>15, <1>16, <2>2, <2>3, <2>4, <2>5 DEF ImportFits
<1> QED BY <1>1, <1>9, <1>15, <1>16, <1>17, <1>18, ImportIsAlone, ImportSteps

LEMMA PromoteKeeps ==
    ASSUME MergeConstants, MergeInv, NEW o \in MergeCalls, NEW x \in Pair1, Merge!Promote(o, x)
    PROVE  MergeInv'
<1>1. MergeTypes /\ MergeDatabase /\ MergeCallFits(o) /\ r9[o].pc = "promote"
      /\ r9[o] \in MergeCallRows /\ r9[o].id \in Pair2 /\ r9[o].now <= r1
      /\ r9 \in [MergeCalls -> MergeCallRows] /\ r10 \in [Pair1 -> ImportRows] /\ r1 \in Moments
    BY DEF MergeInv, MergeDatabase, Merge!Promote, MergeTypes, MergeCallFits
<1>2. UNCHANGED <<r1, r3, r4, r5, r6, r7, r8, r10, r11, r12>> BY DEF Merge!Promote
<1>3. \E row \in MergeCallRows : /\ r9' = [r9 EXCEPT ![o] = row]
                                 /\ \/ row = Merge!NoCall
                                    \/ row = [r9[o] EXCEPT !.todo = @ \ {x}]
    <2>1. [r9[o] EXCEPT !.todo = @ \ {x}] \in MergeCallRows
        BY <1>1 DEF MergeCallRows
    <2>2. \/ r9' = [r9 EXCEPT ![o] = Merge!NoCall]
          \/ r9' = [r9 EXCEPT ![o] = [r9[o] EXCEPT !.todo = @ \ {x}]]
        BY <1>1 DEF Merge!Promote, Merge!End
    <2> QED BY <2>1, <2>2, NoMergeCallType
<1>4. PICK row \in MergeCallRows : /\ r9' = [r9 EXCEPT ![o] = row]
                                   /\ \/ row = Merge!NoCall
                                      \/ row = [r9[o] EXCEPT !.todo = @ \ {x}]
    BY <1>3
<1>5. r9' \in [MergeCalls -> MergeCallRows] /\ r9'[o] = row BY <1>1, <1>4
<1>6. MergeDatabase'
    <2>1. CASE UNCHANGED r2
        <3>1. r1 <= r1' BY <1>1, <1>2 DEF Moments, MergeConstants
        <3> QED BY <1>1, <1>2, <1>5, <2>1, <3>1, DatabaseStands
    <2>2. CASE ~UNCHANGED r2
        <3> DEFINE k == <<Merge!PromoteKey(o, x), r2[x].prog>>
        <3>1. /\ r2[x].progAt # 0
              /\ r2' = [r2 EXCEPT ![x].item = r2[x].prog, ![x].itemAt = r9[o].now,
                                  ![x].keys = @ \cup {k}]
            BY <2>2 DEF Merge!Promote
        <3>2. r2[x] \in MergeAccounts /\ r2 \in [Pair1 -> MergeAccounts]
            BY <1>1 DEF MergeTypes
        <3>3. k \in PromoteKeys \X SUBSET MergeEvidence
            BY <1>1, <3>2 DEF Merge!PromoteKey, PromoteKeys, MergeCallRows, MergeAccounts
        <3> HIDE DEF k
        <3>4. PICK a : a = [r2[x] EXCEPT !.item = r2[x].prog] OBVIOUS
        <3>5. PICK b : b = [a EXCEPT !.itemAt = r9[o].now] OBVIOUS
        <3>6. PICK c : c = [b EXCEPT !.keys = @ \cup {k}] OBVIOUS
        <3>7. /\ a \in MergeAccounts /\ a.prog = r2[x].prog /\ a.progAt = r2[x].progAt
              /\ a.ver = r2[x].ver /\ a.verAt = r2[x].verAt /\ a.item = r2[x].prog
            BY <3>2, <3>4 DEF MergeAccounts
        <3>8. /\ b \in MergeAccounts /\ b.prog = r2[x].prog /\ b.progAt = r2[x].progAt
              /\ b.ver = r2[x].ver /\ b.verAt = r2[x].verAt /\ b.item = r2[x].prog
              /\ b.itemAt = r9[o].now
            BY <1>1, <3>5, <3>7 DEF MergeAccounts, MergeCallRows
        <3>9. /\ c \in MergeAccounts /\ c.prog = r2[x].prog /\ c.progAt = r2[x].progAt
              /\ c.ver = r2[x].ver /\ c.verAt = r2[x].verAt /\ c.item = r2[x].prog
              /\ c.itemAt = r9[o].now
            BY <3>3, <3>6, <3>8 DEF MergeAccounts
        <3>10. r2' = [r2 EXCEPT ![x] = c]
            BY <3>1, <3>2, <3>4, <3>5, <3>6
        <3> QED BY <1>1, <1>2, <1>5, <3>1, <3>9, <3>10, RowHasTold, ItemMoves
    <2> QED BY <2>1, <2>2
<1>7. MergeCallFits(o)'
    <2>1. CASE row = Merge!NoCall BY <1>5, <2>1, NoMergeCallType DEF MergeCallFits
    <2>2. CASE row = [r9[o] EXCEPT !.todo = @ \ {x}]
        <3>1. row.pc = "promote" /\ row.id = r9[o].id /\ row.now = r9[o].now
              /\ row.read = r9[o].read
            BY <1>1, <2>2 DEF MergeCallRows
        <3> QED BY <1>1, <1>2, <1>5, <3>1 DEF MergeCallFits
    <2> QED BY <1>4, <2>1, <2>2
<1> QED BY <1>1, <1>2, <1>4, <1>6, <1>7, CallIsAlone, CallSteps

\* Only the proofs change, and those that a completion relied on stay spent.
LEMMA ProofsMove ==
    ASSUME MergeConstants, MergeDatabase,
           UNCHANGED <<r1, r2, r4, r5, r6, r7, r8, r9, r10, r11, r12>>,
           r3' \in [Merge!Proofs -> {"none", "available", "expired", "consumed"}],
           \A t \in r12 : r3'[t[2]] \in {"consumed", "expired"}
    PROVE  MergeDatabase'
<1>1. MergeTypes' BY DEF MergeDatabase, MergeTypes
<1>2. InLineMerges' BY DEF MergeDatabase, InLineMerges, MergedAt, SnapOf
<1>3. ProofsSpent' BY DEF MergeDatabase, ProofsSpent, Merge!ProofsServeOnce
<1>4. ASSUME NEW c \in Pair2 PROVE CaseFits(c)' /\ StaleFits(c)'
    <2>1. CaseFits(c) /\ StaleFits(c) BY DEF MergeDatabase
    <2>2. CaseFits(c)' BY <2>1 DEF CaseFits, Whose
    <2>3. StaleFits(c)' BY <2>1 DEF StaleFits, Whose, MergedAt
    <2> QED BY <2>2, <2>3
<1>5. ASSUME NEW x \in Pair1 PROVE AliasFits(x)'
    BY DEF MergeDatabase, AliasFits, MergedAt
<1>6. ASSUME NEW x \in Pair1
      PROVE  ToldFits(x)' /\ (r5'[x] # None => (Overtaken(x) \/ SnapshotKeeps(x))')
    BY DEF MergeDatabase, ToldFits, Overtaken, SnapshotKeeps, MergedAt, SnapOf, Merge!Resolve
<1> QED BY <1>1, <1>2, <1>3, <1>4, <1>5, <1>6 DEF MergeDatabase

LEMMA CreateProofKeeps ==
    ASSUME MergeConstants, MergeInv, NEW p \in Merge!Proofs, Merge!CreateProof(p)
    PROVE  MergeInv'
<1>1. MergeTypes /\ MergeDatabase /\ Merge!MayBegin /\ ProofsSpent
    BY DEF MergeInv, MergeDatabase, Merge!CreateProof
<1>2. /\ \A q \in MergeCalls : r9[q].pc = "idle"
      /\ \A y \in Pair1 : r10[y].pc = "idle"
    BY <1>1, NobodyIsActive
<1>3. r3 \in [Merge!Proofs -> {"none", "available", "expired", "consumed"}]
    BY <1>1 DEF MergeTypes
<1>4. r3' = [r3 EXCEPT ![p] = "available"] /\ r3[p] = "none" BY DEF Merge!CreateProof
<1>5. r3' \in [Merge!Proofs -> {"none", "available", "expired", "consumed"}]
    BY <1>3, <1>4
<1>6. ASSUME NEW t \in r12 PROVE r3'[t[2]] \in {"consumed", "expired"}
    <2>1. t[2] \in Merge!Proofs /\ r3[t[2]] \in {"consumed", "expired"}
        BY <1>1 DEF ProofsSpent, MergeTypes
    <2> QED BY <1>3, <1>4, <2>1
<1>7. MergeDatabase'
    BY <1>1, <1>5, <1>6, ProofsMove DEF Merge!CreateProof
<1> QED BY <1>2, <1>7, NobodySteps DEF Merge!CreateProof

LEMMA ProofsExpireKeeps ==
    ASSUME MergeConstants, MergeInv, Merge!ProofsExpire
    PROVE  MergeInv'
<1>1. MergeTypes /\ MergeDatabase /\ ProofsSpent
    BY DEF MergeInv, MergeDatabase
<1>2. r3 \in [Merge!Proofs -> {"none", "available", "expired", "consumed"}]
    BY <1>1 DEF MergeTypes
<1>3. r3' = [p \in Merge!Proofs |-> IF r3[p] = "available" THEN "expired" ELSE r3[p]]
      /\ UNCHANGED <<r1, r2, r4, r5, r6, r7, r8, r9, r10, r11, r12>>
    BY DEF Merge!ProofsExpire
<1>4. \A t \in r12 : r3'[t[2]] \in {"consumed", "expired"}
    BY <1>1, <1>3 DEF ProofsSpent, MergeTypes
<1>5. MergeDatabase'
    BY <1>1, <1>2, <1>3, <1>4, ProofsMove
<1>6. ASSUME NEW o \in MergeCalls PROVE MergeCallFits(o)'
    <2>1. MergeCallFits(o) /\ r9[o] \in MergeCallRows BY <1>1 DEF MergeInv, MergeTypes
    <2>2. r9[o].read.proofs \subseteq Merge!Proofs BY <2>1 DEF MergeCallRows, CaseRows
    <2>3. \A p \in r9[o].read.proofs : r3[p] \in {"available", "expired"} =>
              r3'[p] \in {"available", "expired"}
        BY <1>3, <2>2
    <2>4. Ahead(r9[o].now) => Ahead(r9[o].now)' BY <1>3 DEF Ahead, Whose
    <2> QED BY <1>3, <2>1, <2>3, <2>4 DEF MergeCallFits, Merge!Capture, Merge!Content,
            Merge!Mergeable, Merge!ChangedSince
<1>7. ASSUME NEW x \in Pair1 PROVE ImportFits(x)'
    <2>1. ImportFits(x) BY DEF MergeInv
    <2>2. Ahead(r10[x].now) => Ahead(r10[x].now)' BY <1>3 DEF Ahead, Whose
    <2> QED BY <1>3, <2>1, <2>2 DEF ImportFits, Merge!Resolve
<1>8. TakesTurns' BY <1>3 DEF MergeInv, TakesTurns
<1> QED BY <1>5, <1>6, <1>7, <1>8 DEF MergeInv

\* An account changes: its version is newer than what any preview shows.
LEMMA ChangeAccountKeeps ==
    ASSUME MergeConstants, MergeInv, NEW x \in Pair1, Merge!ChangeAccount(x)
    PROVE  MergeInv'
<1>1. MergeTypes /\ MergeDatabase /\ Merge!MayBegin
    BY DEF MergeInv, MergeDatabase, Merge!ChangeAccount
<1>2. /\ \A q \in MergeCalls : r9[q].pc = "idle"
      /\ \A y \in Pair1 : r10[y].pc = "idle"
      /\ r1 + 1 \in Moments
    BY <1>1, NobodyIsActive
<1>3. r1 \in Nat /\ r1 + 1 \in Nat /\ \A t \in Moments : t \in Nat
    BY <1>1 DEF MergeTypes, Moments, MergeConstants
<1>4. PICK n : n = r1 + 1 OBVIOUS
<1>5. PICK half : half = [r2[x] EXCEPT !.ver = @ + 1] OBVIOUS
<1>6. PICK row : row = [half EXCEPT !.verAt = n] OBVIOUS
<1>7. r2[x] \in MergeAccounts /\ r2 \in [Pair1 -> MergeAccounts]
    BY <1>1 DEF MergeTypes
<1>8. /\ half \in MergeAccounts /\ half.prog = r2[x].prog /\ half.progAt = r2[x].progAt
      /\ half.item = r2[x].item /\ half.itemAt = r2[x].itemAt /\ half.ver = r2[x].ver + 1
    BY <1>5, <1>7 DEF MergeAccounts
<1>9. /\ row \in MergeAccounts /\ row.prog = r2[x].prog /\ row.progAt = r2[x].progAt
      /\ row.item = r2[x].item /\ row.itemAt = r2[x].itemAt /\ row.ver = r2[x].ver + 1
      /\ row.verAt = n /\ row.ver > 0
    <2>1. r2[x].ver \in Nat BY <1>7 DEF MergeAccounts
    <2> QED BY <1>2, <1>4, <1>6, <1>8, <2>1 DEF MergeAccounts
<1>10. r2' = [r2 EXCEPT ![x] = row]
    <2>1. r2' = [r2 EXCEPT ![x].ver = @ + 1, ![x].verAt = r1 + 1] BY DEF Merge!ChangeAccount
    <2> QED BY <1>4, <1>5, <1>6, <1>7, <2>1
<1>11. r2' \in [Pair1 -> MergeAccounts] /\ r2'[x] = row /\ \A y \in Pair1 : y # x => r2'[y] = r2[y]
    BY <1>7, <1>9, <1>10
<1>12. r1' = n /\ n = r1 + 1 /\ UNCHANGED <<r3, r4, r5, r6, r7, r8, r9, r10, r11, r12>>
    BY <1>4 DEF Merge!ChangeAccount
<1>13. ASSUME NEW y \in Pair1
       PROVE  /\ r2'[y].prog = r2[y].prog /\ r2'[y].progAt = r2[y].progAt
              /\ r2'[y].item = r2[y].item /\ r2'[y].itemAt = r2[y].itemAt
              /\ r2[y].ver > 0 => r2'[y].ver > 0
              /\ \/ r2'[y].ver = r2[y].ver /\ r2'[y].verAt = r2[y].verAt
                 \/ y = x /\ r2'[y].ver > 0 /\ r2'[y].verAt = n
              /\ r2[y].progAt \in Nat /\ r2[y].verAt \in Nat /\ r2[y].itemAt \in Nat
              /\ r2[y].progAt <= r1 /\ r2[y].verAt <= r1 /\ r2[y].itemAt <= r1
    <2>1. r2[y] \in MergeAccounts /\ AliasFits(y) BY <1>1 DEF MergeTypes, MergeDatabase
    <2>2. r2[y].progAt \in Nat /\ r2[y].verAt \in Nat /\ r2[y].itemAt \in Nat
        BY <1>3, <2>1 DEF MergeAccounts
    <2>3. r2[y].progAt <= r1 /\ r2[y].verAt <= r1 /\ r2[y].itemAt <= r1
        BY <2>1 DEF AliasFits
    <2> QED BY <1>9, <1>11, <2>2, <2>3
<1>14. \A y \in Pair1 : r5[y] = None \/ r5[y] \in Pair1
    BY <1>1 DEF MergeTypes
<1>15. MergeTypes' BY <1>1, <1>2, <1>4, <1>11, <1>12 DEF MergeTypes
<1>16. InLineMerges' BY <1>1, <1>12 DEF MergeDatabase, InLineMerges, MergedAt, SnapOf
<1>17. ProofsSpent' BY <1>1, <1>12 DEF MergeDatabase, ProofsSpent, Merge!ProofsServeOnce
<1>18. ASSUME NEW c \in Pair2 PROVE CaseFits(c)' /\ StaleFits(c)'
    <2>1. CaseFits(c) /\ StaleFits(c) /\ r4[c] \in CaseRows BY <1>1 DEF MergeDatabase, MergeTypes
    <2>2. r4[c].at \in Nat BY <1>3, <2>1 DEF CaseRows
    <2>3. ASSUME r4[c].status = "preview", NEW y \in Whose(c)
          PROVE  /\ r4[c].digest[y].verAt \in Nat /\ y \in Pair1
                 /\ r4[c].digest[y].verAt <= r1
        BY <1>3, <2>1, <2>3 DEF CaseFits, MergeContents, Whose
    <2>4. CaseFits(c)' BY <1>3, <1>12, <2>1, <2>2, <2>3 DEF CaseFits, Whose
    <2>5. ASSUME r4[c].status = "preview", NEW y \in Whose(c), r5[y] # None
          PROVE  r2'[y].ver = 0 \/ r2'[y].verAt > r4[c].digest[y].verAt
        <3>1. r2[y].ver = 0 \/ r2[y].verAt > r4[c].digest[y].verAt
            BY <2>1, <2>5 DEF StaleFits
        <3>2. y \in Pair1 /\ r4[c].digest[y].verAt \in Nat /\ r4[c].digest[y].verAt <= r1
            BY <2>3, <2>5
        <3> QED BY <1>3, <1>12, <1>13, <3>1, <3>2
    <2>6. StaleFits(c)' BY <1>12, <2>1, <2>5 DEF StaleFits, Whose, MergedAt
    <2> QED BY <2>4, <2>6
<1>19. ASSUME NEW y \in Pair1 PROVE AliasFits(y)'
    <2>1. AliasFits(y) BY <1>1 DEF MergeDatabase
    <2>2. r5[y] # None => MergedAt(y) \in Nat
        BY <1>1, <1>3, <2>1 DEF AliasFits, MergedAt, MergeTypes, CaseRows, MergeConstants
    <2>3. r2'[y].progAt <= r1' /\ r2'[y].verAt <= r1' /\ r2'[y].itemAt <= r1'
        BY <1>3, <1>12, <1>13
    <2>4. r5[y] = None => r2'[y].ver > 0
        BY <1>13, <2>1 DEF AliasFits
    <2>5. ASSUME r5[y] # None
          PROVE  MergedAt(y) <= r2'[r5[y]].progAt /\ MergedAt(y) <= r2'[r5[y]].verAt
        <3>1. PICK v \in Pair1 : v = r5[y] BY <1>14, <2>5
        <3> QED BY <1>3, <1>12, <1>13, <2>1, <2>2, <2>5, <3>1 DEF AliasFits
    <2> QED BY <1>12, <1>13, <2>1, <2>3, <2>4, <2>5 DEF AliasFits, MergedAt
<1>20. ASSUME NEW y \in Pair1 PROVE ToldFits(y)'
    <2>1. ToldFits(y) /\ Merge!Resolve(y) \in Pair1
        BY <1>1, <1>14 DEF MergeDatabase, Merge!Resolve
    <2>2. Merge!Resolve(y)' = Merge!Resolve(y) BY <1>12 DEF Merge!Resolve
    <2>3. r5[y] # None => r5[y] \in Pair1 BY <1>14
    <2> QED BY <1>12, <1>13, <2>1, <2>2, <2>3 DEF ToldFits, MergedAt
<1>21. ASSUME NEW y \in Pair1, r5[y] # None PROVE (Overtaken(y) \/ SnapshotKeeps(y))'
    <2>1. Overtaken(y) \/ SnapshotKeeps(y) BY <1>1, <1>21 DEF MergeDatabase
    <2>2. r5[y] \in Pair1 BY <1>14, <1>21
    <2>3. Overtaken(y) => Overtaken(y)' BY <1>12, <1>13, <2>2 DEF Overtaken, MergedAt, SnapOf
    <2>4. SnapshotKeeps(y) => SnapshotKeeps(y)'
        BY <1>12, <1>13, <2>2 DEF SnapshotKeeps, MergedAt, SnapOf
    <2> QED BY <2>1, <2>3, <2>4
<1>22. MergeDatabase'
    BY <1>15, <1>16, <1>17, <1>18, <1>19, <1>20, <1>21, <1>12 DEF MergeDatabase
<1> QED BY <1>2, <1>12, <1>22, NobodySteps

\* An import reaches the row: every merge into the account is overtaken.
LEMMA WriteProgressKeeps ==
    ASSUME MergeConstants, MergeInv, NEW x \in Pair1, Merge!WriteProgress(x)
    PROVE  MergeInv'
<1>1. MergeTypes /\ MergeDatabase /\ ImportFits(x) /\ r10[x].pc = "row"
    BY DEF MergeInv, MergeDatabase, Merge!WriteProgress
<1>2. PICK v : v = r10[x].into OBVIOUS
<1>3. PICK i : i = r10[x].item OBVIOUS
<1>4. PICK n : n = r10[x].now OBVIOUS
<1>5. /\ r10[x] \in ImportRows /\ v = Merge!Resolve(x) /\ r5[v] = None /\ n <= r1 /\ Ahead(n)
      /\ \A z \in Pair1 : Merge!Resolve(z) = v => r11[z] \subseteq i
      /\ r2[v].item = i
    BY <1>1, <1>2, <1>3, <1>4 DEF ImportFits, MergeTypes
<1>6. v \in Pair1 /\ i \in SUBSET MergeEvidence /\ n \in Moments
    BY <1>1, <1>2, <1>3, <1>4, <1>5 DEF ImportRows, Merge!Resolve, MergeTypes
<1>7. PICK half : half = [r2[v] EXCEPT !.prog = i] OBVIOUS
<1>8. PICK row : row = [half EXCEPT !.progAt = n] OBVIOUS
<1>9. r2[v] \in MergeAccounts /\ r2 \in [Pair1 -> MergeAccounts]
      /\ r9 \in [MergeCalls -> MergeCallRows] /\ r10 \in [Pair1 -> ImportRows]
      /\ r11 \in [Pair1 -> SUBSET MergeEvidence]
    BY <1>1, <1>6 DEF MergeTypes
<1>10. /\ row \in MergeAccounts /\ row.prog = i /\ row.progAt = n /\ row.ver = r2[v].ver
       /\ row.verAt = r2[v].verAt /\ row.item = i /\ row.itemAt = r2[v].itemAt
    BY <1>5, <1>6, <1>7, <1>8, <1>9 DEF MergeAccounts
<1>11. r2' = [r2 EXCEPT ![v].prog = i, ![v].progAt = n]
    BY <1>2, <1>3, <1>4 DEF Merge!WriteProgress
<1>12. r2' = [r2 EXCEPT ![v] = row]
    BY <1>6, <1>7, <1>8, <1>9, <1>11
<1>13. r2' \in [Pair1 -> MergeAccounts] /\ r2'[v] = row /\ \A y \in Pair1 : y # v => r2'[y] = r2[y]
    BY <1>6, <1>9, <1>10, <1>12
<1>14. r11' = [r11 EXCEPT ![x] = @ \cup i] BY <1>3 DEF Merge!WriteProgress
<1>15. /\ r11' \in [Pair1 -> SUBSET MergeEvidence] /\ \A y \in Pair1 : y # x => r11'[y] = r11[y]
       /\ r11'[x] = r11[x] \cup i
    BY <1>6, <1>9, <1>14
<1>16. r10' = [r10 EXCEPT ![x] = Merge!NoImport] /\ r10' \in [Pair1 -> ImportRows]
       /\ r10'[x] = Merge!NoImport
    BY <1>9, NoImportType DEF Merge!WriteProgress
<1>17. UNCHANGED <<r1, r3, r4, r5, r6, r7, r8, r9, r12>> BY DEF Merge!WriteProgress
<1>18. \A y \in Pair1 : r5[y] = None \/ (r5[y] \in Pair1 /\ r6[y] \in Pair2)
    BY <1>1 DEF MergeTypes, MergeDatabase, AliasFits, MergeConstants
<1>19. \A t \in Moments : t \in Nat BY DEF Moments, MergeConstants
<1>20. \A y \in Pair1 : r5[y] # None => MergedAt(y) \in Nat /\ MergedAt(y) < n
    BY <1>1, <1>5, <1>18, <1>19 DEF Ahead, MergedAt, MergeTypes, CaseRows
<1>21. MergeTypes' BY <1>1, <1>13, <1>15, <1>16, <1>17 DEF MergeTypes
<1>22. InLineMerges' /\ ProofsSpent'
    <2>1. InLineMerges' BY <1>1, <1>17 DEF MergeDatabase, InLineMerges, MergedAt, SnapOf
    <2>2. ProofsSpent' BY <1>1, <1>17 DEF MergeDatabase, ProofsSpent, Merge!ProofsServeOnce
    <2> QED BY <2>1, <2>2
<1>23. ASSUME NEW c \in Pair2 PROVE CaseFits(c)' /\ StaleFits(c)'
    <2>1. CaseFits(c) /\ StaleFits(c) BY <1>1 DEF MergeDatabase
    <2>2. CaseFits(c)' BY <1>17, <2>1 DEF CaseFits, Whose
    <2>3. \A y \in Pair1 : r2'[y].ver = r2[y].ver /\ r2'[y].verAt = r2[y].verAt
        BY <1>10, <1>13
    <2>4. r4[c].status = "preview" => \A y \in Whose(c) : y \in Pair1
        BY <2>1 DEF CaseFits, Whose
    <2>5. StaleFits(c)' BY <1>17, <2>1, <2>3, <2>4 DEF StaleFits, Whose, MergedAt
    <2> QED BY <2>2, <2>5
<1>24. ASSUME NEW y \in Pair1 PROVE AliasFits(y)'
    <2>1. AliasFits(y) BY <1>1 DEF MergeDatabase
    <2>2. r2'[y].progAt <= r1 /\ r2'[y].verAt <= r1 /\ r2'[y].itemAt <= r1 /\ r2'[y].ver = r2[y].ver
        <3>1. AliasFits(y) /\ AliasFits(v) BY <1>1, <1>6 DEF MergeDatabase
        <3> QED BY <1>5, <1>10, <1>13, <3>1 DEF AliasFits
    <2>3. ASSUME r5[y] # None
          PROVE  /\ MergedAt(y) <= r2'[r5[y]].progAt /\ MergedAt(y) <= r2'[r5[y]].verAt
                 /\ r2'[y] = r2[y]
        <3>1. PICK w \in Pair1 : w = r5[y] BY <1>18, <2>3
        <3>2. y # v BY <1>5, <2>3
        <3>3. CASE w = v
            <4>1. MergedAt(y) <= r2[v].verAt BY <2>1, <2>3, <3>1, <3>3 DEF AliasFits
            <4>2. n \in Nat BY <1>6, <1>19
            <4>3. r2'[v].progAt = n /\ r2'[v].verAt = r2[v].verAt BY <1>10, <1>13
            <4>4. MergedAt(y) <= n BY <1>20, <2>3, <4>2
            <4>5. r2'[y] = r2[y] BY <1>13, <3>2
            <4>6. r5[y] = v BY <3>1, <3>3
            <4> QED BY <4>1, <4>3, <4>4, <4>5, <4>6
        <3>4. CASE w # v
            BY <1>13, <2>1, <2>3, <3>1, <3>2, <3>4 DEF AliasFits
        <3> QED BY <3>3, <3>4
    <2> QED BY <1>17, <2>1, <2>2, <2>3 DEF AliasFits, MergedAt
<1>25. ASSUME NEW y \in Pair1 PROVE ToldFits(y)'
    <2>1. ToldFits(y) BY <1>1 DEF MergeDatabase
    <2>2. PICK w \in Pair1 : w = Merge!Resolve(y) BY <1>18 DEF Merge!Resolve
    <2>3. Merge!Resolve(y)' = w BY <1>17, <2>2 DEF Merge!Resolve
    <2>4. CASE w = v
        <3>1. r11'[y] \subseteq i BY <1>5, <1>15, <2>2, <2>4
        <3> QED BY <1>10, <1>13, <2>3, <2>4, <3>1 DEF ToldFits
    <2>5. CASE w # v
        <3>1. r11'[y] = r11[y] /\ r2'[w] = r2[w] BY <1>5, <1>13, <1>15, <2>2, <2>5
        <3>2. r5[y] # None => r5[y] = w BY <2>2 DEF Merge!Resolve
        <3> QED BY <1>17, <2>1, <2>2, <2>3, <3>1, <3>2 DEF ToldFits, MergedAt
    <2> QED BY <2>4, <2>5
<1>26. ASSUME NEW y \in Pair1, r5[y] # None PROVE (Overtaken(y) \/ SnapshotKeeps(y))'
    <2>1. PICK w \in Pair1 : w = r5[y] BY <1>18, <1>26
    <2>2. CASE w = v
        <3>1. /\ MergedAt(y) < n /\ n <= r2'[v].progAt
              /\ \A z \in Pair1 : r5[z] = v => MergedAt(z) # n /\ ~(MergedAt(z) > n)
            <4>1. n \in Nat BY <1>6, <1>19
            <4>2. ASSUME NEW z \in Pair1, r5[z] = v PROVE MergedAt(z) # n /\ ~(MergedAt(z) > n)
                BY <1>6, <1>20, <2>1, <2>2, <4>1, <4>2, <1>26, MergeConstantsHold DEF MergeConstants
            <4> QED BY <1>10, <1>13, <1>20, <1>26, <4>1, <4>2
        <3> QED BY <1>6, <1>17, <2>1, <2>2, <3>1 DEF Overtaken, MergedAt, SnapOf
    <2>3. CASE w # v
        <3>1. Overtaken(y) \/ SnapshotKeeps(y) BY <1>1, <1>26 DEF MergeDatabase
        <3>2. r5[w] = None BY <1>1, <1>26, <2>1 DEF MergeDatabase, AliasFits
        <3>3. Overtaken(y) => Overtaken(y)'
            BY <1>13, <1>17, <2>1, <2>3 DEF Overtaken, MergedAt, SnapOf
        <3>4. \A z \in Pair1 : z = w \/ r5[z] = w => r11'[z] = r11[z]
            BY <1>5, <1>15, <1>26, <2>1, <2>3, <3>2 DEF Merge!Resolve
        <3>5. r2'[y] = r2[y] BY <1>5, <1>13, <1>26
        <3>6. SnapshotKeeps(y) => SnapshotKeeps(y)'
            BY <1>17, <2>1, <3>4, <3>5 DEF SnapshotKeeps, MergedAt, SnapOf
        <3> QED BY <3>1, <3>3, <3>6
    <2> QED BY <2>2, <2>3
<1>27. MergeDatabase'
    BY <1>17, <1>21, <1>22, <1>23, <1>24, <1>25, <1>26 DEF MergeDatabase
<1>28. ImportFits(x)' BY <1>16, NoImportType DEF ImportFits
<1> QED BY <1>1, <1>9, <1>16, <1>17, <1>27, <1>28, ImportIsAlone, ImportSteps

\* A preview is written: it shows what there is, of two accounts that nobody merged away.
LEMMA WritePreviewKeeps ==
    ASSUME MergeConstants, MergeInv, NEW o \in MergeCalls, Merge!WritePreview(o)
    PROVE  MergeInv'
<1>1. MergeTypes /\ MergeDatabase /\ MergeCallFits(o) /\ r9[o].pc = "batch"
      /\ r9[o] \in MergeCallRows /\ r9[o].snap # Merge!NoSnapshot
      /\ r9 \in [MergeCalls -> MergeCallRows] /\ r10 \in [Pair1 -> ImportRows] /\ r1 \in Moments
      /\ r4 \in [Pair2 -> CaseRows]
    BY DEF MergeInv, MergeDatabase, MergeTypes, Merge!WritePreview
<1>2. PICK r : r = r9[o].read OBVIOUS
<1>3. PICK s : s = r9[o].snap OBVIOUS
<1>4. PICK c : c = r9[o].id OBVIOUS
<1>5. /\ c \in Pair2 /\ r.status = "preview" /\ r.at = 0/\ r.source \in Pair1 /\ r.survivor \in Pair1
      /\ Merge!Mergeable(r.source, r.survivor) /\ s = Merge!Capture(r.source, r.survivor)
      /\ r \in CaseRows
    BY <1>1, <1>2, <1>3, <1>4 DEF MergeCallFits, MergeCallRows
<1>6. UNCHANGED <<r1, r2, r3, r5, r6, r7, r8, r10, r11, r12>> BY DEF Merge!WritePreview
<1>7. r9' = [r9 EXCEPT ![o] = Merge!NoCall] /\ r9'[o] = Merge!NoCall
      /\ r9' \in [MergeCalls -> MergeCallRows]
    BY <1>1, NoMergeCallType DEF Merge!WritePreview, Merge!End
<1>8. MergeDatabase'
    <2>1. CASE UNCHANGED r4
        <3>1. r1 <= r1' BY <1>1, <1>6 DEF Moments, MergeConstants
        <3> QED BY <1>1, <1>6, <1>7, <2>1, <3>1, DatabaseStands
    <2>2. CASE ~UNCHANGED r4
        <3>1. PICK new : new = [r EXCEPT !.digest = s] OBVIOUS
        <3>2. /\ new \in CaseRows /\ new.status = "preview" /\ new.source = r.source
              /\ new.survivor = r.survivor /\ new.digest = s /\ new.at = r.at
            BY <1>1, <1>3, <1>5, <3>1 DEF CaseRows, MergeCallRows
        <3>3. /\ r4[c].status = "none"
              /\ r4' = [d \in Pair2 |->
                    IF d = c THEN new
                    ELSE IF r4[d].status = "preview" /\ r4[d].source = r.source
                         THEN [r4[d] EXCEPT !.status = "cancelled"]
                    ELSE r4[d]]
            BY <1>2, <1>3, <1>4, <2>2, <3>1 DEF Merge!WritePreview
        <3>4. ASSUME NEW d \in Pair2
              PROVE  /\ [r4[d] EXCEPT !.status = "cancelled"] \in CaseRows
                     /\ [r4[d] EXCEPT !.status = "cancelled"].status = "cancelled"
                     /\ [r4[d] EXCEPT !.status = "cancelled"].source = r4[d].source
                     /\ [r4[d] EXCEPT !.status = "cancelled"].survivor = r4[d].survivor
                     /\ [r4[d] EXCEPT !.status = "cancelled"].at = r4[d].at
            <4>1. r4[d] \in CaseRows BY <1>1
            <4> QED BY <4>1 DEF CaseRows
        <3>5. ASSUME NEW d \in Pair2, d # c
              PROVE  \/ r4'[d] = r4[d]
                     \/ /\ r4[d].status = "preview" /\ r4'[d] \in CaseRows
                        /\ r4'[d].status = "cancelled" /\ r4'[d].source = r4[d].source
                        /\ r4'[d].survivor = r4[d].survivor /\ r4'[d].at = r4[d].at
            BY <3>3, <3>4, <3>5
        <3>6. r4'[c] = new BY <1>5, <3>3
        <3>7. r4' \in [Pair2 -> CaseRows] BY <1>1, <3>2, <3>3, <3>4
        <3>8. \A d \in Pair2 : r4[d].status = "completed" => r4'[d] = r4[d]
            BY <3>3, <3>5
        <3>9. \A x \in Pair1 : r5[x] # None => r6[x] \in Pair2 /\ r4'[r6[x]] = r4[r6[x]]
            BY <1>1, <3>8 DEF MergeTypes, MergeDatabase, AliasFits, MergeConstants
        <3>10. MergeTypes' BY <1>1, <1>6, <1>7, <3>7 DEF MergeTypes
        <3>11. InLineMerges'
            BY <1>1, <1>6, <3>9, MergeConstantsHold
               DEF MergeDatabase, InLineMerges, MergedAt, SnapOf
        <3>12. ProofsSpent' BY <1>1, <1>6 DEF MergeDatabase, ProofsSpent, Merge!ProofsServeOnce
        <3>13. ASSUME NEW d \in Pair2 PROVE CaseFits(d)' /\ StaleFits(d)'
            <4>1. CaseFits(d) /\ StaleFits(d) BY <1>1 DEF MergeDatabase
            <4>2. CASE d = c
                <5>1. /\ s \in [{r.source, r.survivor} -> MergeContents] /\ r.source # r.survivor
                      /\ \A x \in {r.source, r.survivor} :
                            s[x].ver = r2[x].ver /\ s[x].verAt = r2[x].verAt
                    BY <1>1, <1>5, CaptureType DEF Merge!Mergeable
                <5>2. \A x \in {r.source, r.survivor} : r2[x].ver > 0 /\ r2[x].verAt <= r1
                    BY <1>1, <1>5 DEF MergeDatabase, AliasFits, Merge!Mergeable
                <5>3. 0 <= r1 BY <1>1 DEF Moments, MergeConstants
                <5>4. CaseFits(c)'
                    <6>1. r4'[c].source = r.source /\ r4'[c].survivor = r.survivor
                          /\ r4'[c].status = "preview" /\ r4'[c].digest = s /\ r4'[c].at = 0
                        BY <1>5, <3>2, <3>6
                    <6>2. \A x \in {r.source, r.survivor} : s[x].ver > 0 /\ s[x].verAt <= r1
                        BY <5>1, <5>2
                    <6>3. Whose(c)' = {r.source, r.survivor} BY <6>1 DEF Whose
                    <6> QED BY <1>5, <1>6, <5>1, <5>3, <6>1, <6>2, <6>3 DEF CaseFits
                <5>5. /\ r5[r.source] = None /\ r5[r.survivor] = None
                      /\ \A y \in Pair1 : r5[y] # r.source
                    BY <1>5 DEF Merge!Mergeable
                <5>6. StaleFits(c)'
                    BY <1>5, <1>6, <3>2, <3>6, <5>5 DEF StaleFits, Whose
                <5> QED BY <4>2, <5>4, <5>6
            <4>3. CASE d # c /\ r4'[d] = r4[d]
                <5>1. CaseFits(d)' BY <1>6, <4>1, <4>3 DEF CaseFits, Whose
                <5>2. \A y \in Pair1 : r5[y] # None => MergedAt(y)' = MergedAt(y)
                    BY <1>6, <3>9 DEF MergedAt
                <5>3. r4[d].status = "preview" => r4[d].source # None
                    BY <4>1, MergeConstantsHold DEF CaseFits, MergeConstants
                <5>4. StaleFits(d)' BY <1>6, <4>1, <4>3, <5>2, <5>3 DEF StaleFits, Whose
                <5> QED BY <5>1, <5>4
            <4>4. CASE d # c /\ r4'[d] # r4[d]
                BY <1>6, <3>5, <4>1, <4>4 DEF CaseFits, StaleFits
            <4> QED BY <4>2, <4>3, <4>4
        <3>14. ASSUME NEW x \in Pair1 PROVE AliasFits(x)'
            <4>1. AliasFits(x) BY <1>1 DEF MergeDatabase
            <4> QED BY <1>6, <3>9, <4>1 DEF AliasFits, MergedAt
        <3>15. ASSUME NEW x \in Pair1 PROVE ToldFits(x)'
            <4>1. ToldFits(x) BY <1>1 DEF MergeDatabase
            <4> QED BY <1>6, <3>9, <4>1 DEF ToldFits, MergedAt, Merge!Resolve
        <3>16. ASSUME NEW x \in Pair1, r5[x] # None PROVE (Overtaken(x) \/ SnapshotKeeps(x))'
            <4>1. Overtaken(x) \/ SnapshotKeeps(x) BY <1>1, <3>16 DEF MergeDatabase
            <4>2. \A y \in Pair1 : r5[y] = r5[x] =>
                      MergedAt(y)' = MergedAt(y) /\ SnapOf(y)' = SnapOf(y)
                BY <1>6, <3>9, <3>16 DEF MergedAt, SnapOf
            <4>3. Overtaken(x) => Overtaken(x)' BY <1>6, <4>2 DEF Overtaken
            <4>4. SnapshotKeeps(x) => SnapshotKeeps(x)' BY <1>6, <4>2 DEF SnapshotKeeps
            <4> QED BY <4>1, <4>3, <4>4
        <3> QED BY <1>6, <3>10, <3>11, <3>12, <3>13, <3>14, <3>15, <3>16 DEF MergeDatabase
    <2> QED BY <2>1, <2>2
<1>9. MergeCallFits(o)' BY <1>7, NoMergeCallType DEF MergeCallFits
<1> QED BY <1>1, <1>6, <1>7, <1>8, <1>9, CallIsAlone, CallSteps

\* The batch of a completion, on the database: the source, which nobody leads to, gets an
\* alias of the completed case, whose snapshot has what both sides showed before.
LEMMA MergeCommits ==
    ASSUME MergeConstants, MergeDatabase,
           NEW c \in Pair2, NEW s \in Pair1, NEW v \in Pair1, NEW n \in Moments, NEW S,
           NEW P \in SUBSET Merge!Proofs,
           r4[c].status = "preview", s # v, c \notin r7,
           r5[s] = None, r5[v] = None, \A y \in Pair1 : r5[y] # s,
           Ahead(n), n <= r1, \A x \in Pair1 : r2[x].itemAt < n,
           S \in [{s, v} -> MergeContents], S[s].ver > 0, S[v].ver > 0,
           S[s].prog = r2[s].prog, S[v].prog = r2[v].prog, S[v].progAt = r2[v].progAt,
           S[v].verAt = r2[v].verAt, S[s].progAt = r2[s].progAt, S[s].verAt = r2[s].verAt,
           \A p \in P : \A t \in r12 : t[2] # p,
           r2' \in [Pair1 -> MergeAccounts],
           \A x \in Pair1 : x # s /\ x # v => r2'[x] = r2[x],
           r2'[v].prog = S[v].prog \cup S[s].prog, r2'[v].progAt = n, r2'[v].verAt = n,
           r2'[v].ver > 0, r2'[v].item = r2[v].item, r2'[v].itemAt = r2[v].itemAt,
           r2'[s].prog = {}, r2'[s].progAt = 0, r2'[s].ver = 0, r2'[s].verAt = r2[s].verAt,
           r2'[s].item = r2[s].item, r2'[s].itemAt = r2[s].itemAt,
           r3' \in [Merge!Proofs -> {"none", "available", "expired", "consumed"}],
           \A p \in Merge!Proofs : r3[p] \in {"consumed", "expired"} => r3'[p] = r3[p],
           \A p \in P : r3'[p] \in {"consumed", "expired"},
           r4' \in [Pair2 -> CaseRows], \A d \in Pair2 : d # c => r4'[d] = r4[d],
           r4'[c].status = "completed", r4'[c].source = s, r4'[c].survivor = v,
           r4'[c].snap = S, r4'[c].at = n,
           r5' = [r5 EXCEPT ![s] = v], r6' = [r6 EXCEPT ![s] = c], r7' = r7 \cup {c},
           r12' = r12 \cup {<<c, p>> : p \in P},
           UNCHANGED <<r1, r8, r10, r11>>, r9' \in [MergeCalls -> MergeCallRows]
    PROVE  MergeDatabase'
<1>1. MergeTypes /\ InLineMerges /\ ProofsSpent BY DEF MergeDatabase
<1>2. \A t \in Moments : t \in Nat BY DEF Moments, MergeConstants
<1>3. /\ r5 \in [Pair1 -> Pair1 \cup {None}] /\ r6 \in [Pair1 -> Pair2 \cup {"none"}]
      /\ n \in Nat /\ 0 < n
    BY <1>1, <1>2 DEF MergeTypes, Ahead
<1>4. /\ r5'[s] = v /\ r6'[s] = c /\ r5'[v] = None /\ v # None /\ c # "none"
      /\ \A x \in Pair1 : x # s => r5'[x] = r5[x] /\ r6'[x] = r6[x]
    BY <1>3, MergeConstantsHold DEF MergeConstants
<1>5. MergedAt(s)' = n /\ SnapOf(s)' = S BY <1>4 DEF MergedAt, SnapOf
<1>6. ASSUME NEW x \in Pair1, x # s, r5[x] # None
      PROVE  /\ r5[x] \in Pair1 /\ r5[x] # s /\ x # v /\ r2'[x] = r2[x]
             /\ MergedAt(x)' = MergedAt(x) /\ SnapOf(x)' = SnapOf(x)
             /\ MergedAt(x) \in Nat /\ MergedAt(x) < n /\ AliasFits(x)
    <2>1. AliasFits(x) /\ r5[x] \in Pair1 BY <1>3, <1>6 DEF MergeDatabase
    <2>2. r6[x] \in Pair2 /\ r4[r6[x]].status = "completed"
        BY <1>3, <1>6, <2>1 DEF AliasFits
    <2>3. r6[x] # c BY <2>2
    <2>4. r4'[r6'[x]] = r4[r6[x]] BY <1>4, <1>6, <2>2, <2>3
    <2>5. r4[r6[x]] \in CaseRows /\ r4[r6[x]].at < n
        BY <1>1, <2>2 DEF MergeTypes, Ahead
    <2>6. MergedAt(x) \in Nat /\ MergedAt(x) < n
        BY <1>2, <2>5 DEF CaseRows, MergedAt
    <2> QED BY <1>6, <2>1, <2>4, <2>6 DEF MergedAt, SnapOf
<1>7. ASSUME NEW x \in Pair1
      PROVE  /\ r2[x] \in MergeAccounts /\ r2[x].progAt \in Nat /\ r2[x].verAt \in Nat
             /\ r2[x].progAt < n /\ r2[x].verAt < n
             /\ r2[x].progAt <= r1 /\ r2[x].verAt <= r1 /\ r2[x].itemAt <= r1
    <2>1. r2[x] \in MergeAccounts /\ AliasFits(x) BY <1>1 DEF MergeTypes, MergeDatabase
    <2> QED BY <1>2, <2>1 DEF MergeAccounts, AliasFits, Ahead
<1>8. MergeTypes'
    <2>1. r12' \subseteq Pair2 \X Merge!Proofs BY <1>1 DEF MergeTypes
    <2>2. r5' \in [Pair1 -> Pair1 \cup {None}] /\ r6' \in [Pair1 -> Pair2 \cup {"none"}]
        BY <1>3
    <2> QED BY <1>1, <2>1, <2>2 DEF MergeTypes
<1>9. InLineMerges'
    <2> SUFFICES ASSUME NEW x \in Pair1, NEW y \in Pair1, r5'[x] # None, r5'[x] = r5'[y], x # y
                 PROVE  /\ MergedAt(x)' # MergedAt(y)'
                        /\ MergedAt(x)' < MergedAt(y)' =>
                              /\ SnapOf(y)'[r5'[x]].progAt >= MergedAt(x)'
                              /\ SnapOf(y)'[r5'[x]].verAt >= MergedAt(x)'
        BY DEF InLineMerges
    <2>1. CASE x # s /\ y # s
        <3>1. r5'[x] = r5[x] /\ r5'[y] = r5[y] BY <1>4, <2>1
        <3>2. /\ MergedAt(x)' = MergedAt(x) /\ MergedAt(y)' = MergedAt(y)
              /\ SnapOf(y)' = SnapOf(y)
            BY <1>6, <2>1, <3>1
        <3> QED BY <1>1, <3>1, <3>2 DEF InLineMerges
    <2>2. CASE x = s
        <3>1. y # s /\ r5[y] = v BY <1>4, <2>2
        <3>2. MergedAt(y)' \in Nat /\ MergedAt(y)' < n BY <1>4, <1>6, <3>1
        <3> QED BY <1>3, <1>5, <2>2, <3>2
    <2>3. CASE y = s
        <3>1. x # s /\ r5[x] = v /\ r5'[x] = v BY <1>4, <2>3
        <3>2. MergedAt(x)' = MergedAt(x) /\ MergedAt(x)' \in Nat /\ MergedAt(x)' < n
            BY <1>4, <1>6, <3>1
        <3>3. MergedAt(x) <= r2[v].progAt /\ MergedAt(x) <= r2[v].verAt
            BY <1>4, <1>6, <3>1 DEF AliasFits
        <3>4. MergedAt(x)' <= S[v].progAt /\ MergedAt(x)' <= S[v].verAt
            BY <3>2, <3>3
        <3>5. S[v].progAt \in Nat /\ S[v].verAt \in Nat BY <1>7
        <3> QED BY <1>3, <1>5, <2>3, <3>1, <3>2, <3>4, <3>5
    <2> QED BY <2>1, <2>2, <2>3
<1>10. ProofsSpent'
    <2>1. \A t \in r12 : t[2] \in Merge!Proofs /\ r3'[t[2]] \in {"consumed", "expired"}
        BY <1>1 DEF ProofsSpent, MergeTypes
    <2>2. \A t \in r12' : r3'[t[2]] \in {"consumed", "expired"}
        BY <2>1
    <2>3. ASSUME NEW t \in r12', NEW u \in r12', t[2] = u[2] PROVE t[1] = u[1]
        <3>1. CASE t \in r12 /\ u \in r12
            BY <1>1, <2>3, <3>1 DEF ProofsSpent, Merge!ProofsServeOnce
        <3>2. CASE t \notin r12 /\ u \notin r12
            <4>1. t[1] = c /\ u[1] = c BY <3>2
            <4> QED BY <4>1
        <3>3. CASE t \in r12 /\ u \notin r12
            <4>1. u[2] \in P BY <3>3
            <4> QED BY <2>3, <3>3, <4>1
        <3>4. CASE t \notin r12 /\ u \in r12
            <4>1. t[2] \in P BY <3>4
            <4> QED BY <2>3, <3>4, <4>1
        <3> QED BY <3>1, <3>2, <3>3, <3>4
    <2> QED BY <2>2, <2>3 DEF ProofsSpent, Merge!ProofsServeOnce
<1>11. ASSUME NEW d \in Pair2 PROVE CaseFits(d)' /\ StaleFits(d)'
    <2>1. CaseFits(d) /\ StaleFits(d) BY DEF MergeDatabase
    <2>2. CASE d = c
        <3>1. Whose(c)' = {s, v} BY DEF Whose
        <3>2. \A x \in {s, v} : S[x].ver > 0 /\ S[x].progAt <= n /\ S[x].verAt <= n
            BY <1>3, <1>7
        <3>4. CaseFits(c)' BY <1>4, <3>1, <3>2 DEF CaseFits
        <3>3. StaleFits(c)' BY DEF StaleFits
        <3> QED BY <2>2, <3>3, <3>4
    <2>3. CASE d # c
        <3>1. r4'[d] = r4[d] /\ Whose(d)' = Whose(d) BY <2>3 DEF Whose
        <3>2. r4[d].status = "completed" =>
                  r6'[r4[d].source] = d /\ r5'[r4[d].source] = r4[d].survivor
            BY <1>4, <2>1, MergeConstantsHold DEF CaseFits, MergeConstants
        <3>3. CaseFits(d)' BY <2>1, <3>1, <3>2 DEF CaseFits
        <3>4. ASSUME r4[d].status = "preview", NEW x \in Whose(d), r5'[x] # None
              PROVE  r2'[x].ver = 0 \/ r2'[x].verAt > r4[d].digest[x].verAt
            <4>1. x \in Pair1 BY <2>1, <3>4 DEF CaseFits, Whose
            <4>2. CASE x = s BY <4>2
            <4>3. CASE x # s
                <5>1. r5[x] # None BY <1>4, <3>4, <4>1, <4>3
                <5>2. r2'[x] = r2[x] BY <1>6, <4>1, <4>3, <5>1
                <5> QED BY <2>1, <3>4, <5>1, <5>2 DEF StaleFits
            <4> QED BY <4>2, <4>3
        <3>5. ASSUME r4[d].status = "preview", NEW y \in Pair1, r5'[y] = r4[d].source
              PROVE  r4[d].digest[r4[d].source].verAt < MergedAt(y)'
            <4>1. r4[d].source \in Pair1 /\ r4[d].source \in Whose(d)
                BY <2>1, <3>5 DEF CaseFits, Whose
            <4>2. CASE y = s BY <1>5, <3>5, <4>1, <4>2 DEF Ahead
            <4>3. CASE y # s
                <5>1. r5[y] = r4[d].source /\ r5[y] # None
                    BY <1>4, <3>5, <4>1, <4>3, MergeConstantsHold DEF MergeConstants
                <5>2. MergedAt(y)' = MergedAt(y) BY <1>6, <4>3, <5>1
                <5> QED BY <2>1, <3>5, <5>1, <5>2 DEF StaleFits
            <4> QED BY <4>2, <4>3
        <3>6. StaleFits(d)' BY <3>1, <3>4, <3>5 DEF StaleFits
        <3> QED BY <3>3, <3>6
    <2> QED BY <2>2, <2>3
<1>12. ASSUME NEW x \in Pair1 PROVE AliasFits(x)'
    <2>1. AliasFits(x) BY DEF MergeDatabase
    <2>2. CASE x = s
        <3>1. r1 \in Nat BY <1>1, <1>2 DEF MergeTypes
        <3>2. r2'[s].progAt <= r1' /\ r2'[s].verAt <= r1' /\ r2'[s].itemAt <= r1'
            BY <1>7, <3>1
        <3>3. 0 < MergedAt(s)' /\ MergedAt(s)' <= r2'[v].progAt /\ MergedAt(s)' <= r2'[v].verAt
            BY <1>3, <1>5
        <3>4. AliasFits(s)' BY <1>4, <3>2, <3>3 DEF AliasFits
        <3> QED BY <2>2, <3>4
    <2>3. CASE x # s /\ r5[x] = None
        <3>1. r5'[x] = None /\ r6'[x] = "none" BY <1>4, <2>1, <2>3 DEF AliasFits
        <3>2. CASE x = v BY <1>7, <3>1, <3>2 DEF AliasFits
        <3>3. CASE x # v BY <2>1, <2>3, <3>1, <3>3 DEF AliasFits
        <3> QED BY <3>2, <3>3
    <2>4. CASE x # s /\ r5[x] # None
        <3>1. PICK w \in Pair1 : w = r5[x] BY <1>6, <2>4
        <3>2. /\ r5'[x] = w /\ r5'[w] = None /\ r6'[x] = r6[x] /\ w # s /\ r2'[x] = r2[x]
              /\ MergedAt(x)' = MergedAt(x) /\ MergedAt(x) \in Nat /\ MergedAt(x) < n
            BY <1>4, <1>6, <2>1, <2>4, <3>1 DEF AliasFits
        <3>3. r6[x] \in Pair2 /\ r6[x] # c
            BY <1>3, <2>1, <2>4 DEF AliasFits
        <3>4. MergedAt(x) <= r2'[w].progAt /\ MergedAt(x) <= r2'[w].verAt
            <4>1. CASE w = v BY <1>3, <3>2, <4>1
            <4>2. CASE w # v BY <2>1, <2>4, <3>1, <3>2, <4>2 DEF AliasFits
            <4> QED BY <4>1, <4>2
        <3>5. r4'[r6'[x]] = r4[r6[x]] BY <3>2, <3>3
        <3>6. 0 < MergedAt(x) /\ r5[x] # None BY <2>1, <2>4 DEF AliasFits
        <3> QED BY <2>1, <3>1, <3>2, <3>4, <3>5, <3>6 DEF AliasFits
    <2> QED BY <2>2, <2>3, <2>4
<1>13. ASSUME NEW x \in Pair1 PROVE ToldFits(x)'
    <2>1. ToldFits(x) BY DEF MergeDatabase
    <2>2. CASE x = s
        <3>1. Merge!Resolve(s) = s /\ Merge!Resolve(s)' = v BY <1>4 DEF Merge!Resolve
        <3>2. r11'[s] \subseteq r2'[v].prog BY <2>1, <2>2, <3>1 DEF ToldFits
        <3>3. r2'[v].itemAt < MergedAt(s)' BY <1>5
        <3> QED BY <1>4, <2>2, <3>1, <3>2, <3>3 DEF ToldFits
    <2>3. CASE x # s
        <3>1. PICK w \in Pair1 : w = Merge!Resolve(x) BY <1>6, <2>3 DEF Merge!Resolve
        <3>2. Merge!Resolve(x)' = w /\ w # s
            BY <1>4, <1>6, <2>3, <3>1 DEF Merge!Resolve
        <3>3. /\ r2[w].prog \subseteq r2'[w].prog /\ r2'[w].item = r2[w].item
              /\ r2'[w].itemAt = r2[w].itemAt
            BY <3>2
        <3>4. r11'[x] \subseteq r2'[w].prog BY <2>1, <3>1, <3>3 DEF ToldFits
        <3>5. CASE r11[x] \subseteq r2[w].item
            BY <3>2, <3>3, <3>4, <3>5 DEF ToldFits
        <3>6. CASE r5[x] # None /\ r2[r5[x]].itemAt < MergedAt(x)
            <4>1. w = r5[x] /\ r5'[x] = w BY <1>4, <2>3, <3>1, <3>6 DEF Merge!Resolve
            <4>2. MergedAt(x)' = MergedAt(x) BY <1>6, <2>3, <3>6
            <4> QED BY <3>2, <3>3, <3>4, <3>6, <4>1, <4>2 DEF ToldFits
        <3> QED BY <2>1, <3>1, <3>5, <3>6 DEF ToldFits
    <2> QED BY <2>2, <2>3
<1>14. ASSUME NEW x \in Pair1, r5'[x] # None PROVE (Overtaken(x) \/ SnapshotKeeps(x))'
    <2>1. \A y \in Pair1 : y # s /\ r5[y] = v => r11[y] \subseteq r2[v].prog
        BY <1>4 DEF MergeDatabase, ToldFits, Merge!Resolve
    <2>2. CASE x = s
        <3>1. Merge!Resolve(s) = s /\ Merge!Resolve(v) = v BY DEF Merge!Resolve
        <3>2. /\ r11[s] \subseteq r2[s].prog /\ r11[s] \subseteq r2[s].item
              /\ r11[v] \subseteq r2[v].prog
            BY <3>1 DEF MergeDatabase, ToldFits
        <3>3. ASSUME NEW y \in Pair1, r5'[y] = v, MergedAt(y)' < MergedAt(s)'
              PROVE  r11'[y] \subseteq S[v].prog
            <4>1. y # s BY <1>3, <1>5, <3>3
            <4> QED BY <1>4, <2>1, <3>3, <4>1
        <3> QED BY <1>4, <1>5, <2>2, <3>2, <3>3 DEF SnapshotKeeps
    <2>3. CASE x # s
        <3>1. r5'[x] = r5[x] /\ r5[x] # None BY <1>4, <1>14, <2>3
        <3>2. PICK w \in Pair1 : w = r5[x] /\ w # s BY <1>6, <2>3, <3>1
        <3>3. MergedAt(x)' = MergedAt(x) /\ SnapOf(x)' = SnapOf(x) /\ r2'[x] = r2[x]
              /\ MergedAt(x) \in Nat /\ MergedAt(x) < n
            BY <1>6, <2>3, <3>1
        <3>4. \A y \in Pair1 : y # s /\ r5'[y] = w =>
                  r5[y] = w /\ MergedAt(y)' = MergedAt(y) /\ SnapOf(y)' = SnapOf(y)
            BY <1>4, <1>6, <3>1, <3>2
        <3>5. CASE Overtaken(x)
            <4>1. PICK t \in Moments :
                      /\ MergedAt(x) < t /\ t <= r2[w].progAt
                      /\ \A y \in Pair1 : r5[y] = w =>
                            /\ MergedAt(y) # t
                            /\ MergedAt(y) > t => SnapOf(y)[w].progAt >= t
                BY <3>2, <3>5 DEF Overtaken
            <4>2. t \in Nat /\ t < n BY <1>2, <1>3, <1>7, <4>1
            <4>3. t <= r2'[w].progAt
                <5>1. CASE w = v BY <1>3, <4>2, <5>1
                <5>2. CASE w # v BY <3>2, <4>1, <5>2
                <5> QED BY <5>1, <5>2
            <4>4. ASSUME NEW y \in Pair1, r5'[y] = w
                  PROVE  /\ MergedAt(y)' # t
                         /\ MergedAt(y)' > t => SnapOf(y)'[w].progAt >= t
                <5>1. CASE y # s BY <3>4, <4>1, <4>4, <5>1
                <5>2. CASE y = s
                    <6>1. w = v BY <1>4, <4>4, <5>2
                    <6>2. S[v].progAt >= t BY <1>7, <4>1, <4>2, <6>1
                    <6> QED BY <1>3, <1>5, <4>2, <5>2, <6>1, <6>2
                <5> QED BY <5>1, <5>2
            <4>5. Overtaken(x)'
                BY <3>1, <3>2, <3>3, <4>1, <4>3, <4>4 DEF Overtaken, Moments
            <4> QED BY <4>5
        <3>6. CASE SnapshotKeeps(x)
            <4>1. ASSUME NEW y \in Pair1, r5'[y] = w, MergedAt(y)' < MergedAt(x)'
                  PROVE  r11'[y] \subseteq SnapOf(x)'[w].prog
                <5>1. y # s BY <1>3, <1>5, <3>3, <4>1
                <5> QED BY <3>2, <3>3, <3>4, <3>6, <4>1, <5>1 DEF SnapshotKeeps
            <4> QED BY <3>1, <3>2, <3>3, <3>6, <4>1 DEF SnapshotKeeps
        <3> QED BY <3>1, <3>5, <3>6 DEF MergeDatabase
    <2> QED BY <2>2, <2>3
<1> QED BY <1>8, <1>9, <1>10, <1>11, <1>12, <1>13, <1>14 DEF MergeDatabase

LEMMA MergeBatchKeeps ==
    ASSUME MergeConstants, MergeInv, NEW o \in MergeCalls, Merge!MergeBatch(o)
    PROVE  MergeInv'
<1>1. /\ MergeTypes /\ MergeDatabase /\ MergeCallFits(o) /\ r9[o].pc = "merge"
      /\ r9[o] \in MergeCallRows /\ ~Merge!MergeThrows(o)
      /\ r9 \in [MergeCalls -> MergeCallRows] /\ r10 \in [Pair1 -> ImportRows]
    BY DEF MergeInv, MergeDatabase, MergeTypes, Merge!MergeBatch
<1>2. PICK c : c = r9[o].id OBVIOUS
<1>3. PICK n : n = r9[o].now OBVIOUS
<1>4. PICK r : r = r9[o].read OBVIOUS
<1>5. PICK s : s = r.source OBVIOUS
<1>6. PICK v : v = r.survivor OBVIOUS
<1>7. PICK S : S = r9[o].snap OBVIOUS
<1>8. PICK P : P = r.proofs OBVIOUS
<1>9. \A t \in Moments : t \in Nat BY DEF Moments, MergeConstants
<1>10. /\ c \in Pair2 /\ n \in Moments /\ n <= r1 /\ Ahead(n) /\ \A x \in Pair1 : r2[x].itemAt < n
       /\ r = r4[c] /\ r.status = "preview" /\ r \in CaseRows /\ S \in Snapshots
    BY <1>1, <1>2, <1>3, <1>4, <1>7 DEF MergeCallFits, MergeCallRows
<1>11. /\ s \in Pair1 /\ v \in Pair1 /\ s # v /\ P \in SUBSET Merge!Proofs
       /\ CaseFits(c) /\ StaleFits(c) /\ Whose(c) = {s, v}
    BY <1>1, <1>5, <1>6, <1>8, <1>10 DEF MergeDatabase, CaseFits, CaseRows, Whose
<1>12. /\ S = r4[c].digest /\ S = Merge!Capture(s, v) /\ S \in [{s, v} -> MergeContents]
       /\ S[s].ver > 0 /\ S[v].ver > 0
    <2>1. S = r4[c].digest /\ S = Merge!Capture(s, v)
        BY <1>1, <1>2, <1>4, <1>5, <1>6, <1>7, <1>10 DEF MergeCallFits
    <2> QED BY <1>10, <1>11, <2>1 DEF CaseFits
<1>13. \A x \in {s, v} : /\ S[x].prog = r2[x].prog /\ S[x].progAt = r2[x].progAt
                         /\ S[x].ver = r2[x].ver /\ S[x].verAt = r2[x].verAt
    <2>1. \A x \in {s, v} : /\ Merge!Capture(s, v)[x].prog = r2[x].prog
                            /\ Merge!Capture(s, v)[x].progAt = r2[x].progAt
                            /\ Merge!Capture(s, v)[x].ver = r2[x].ver
                            /\ Merge!Capture(s, v)[x].verAt = r2[x].verAt
        BY <1>1, <1>11, CaptureType
    <2> QED BY <1>12, <2>1
<1>14. \A x \in {s, v} : S[x] \in MergeContents /\ S[x].verAt \in Nat
    BY <1>9, <1>12 DEF MergeContents
<1>15. c \notin r7 /\ r5[s] = None
    BY <1>1, <1>2, <1>4, <1>5 DEF Merge!MergeThrows
\* Another merge of the survivor or into the source would have changed what was previewed.
<1>16. r5[v] = None
    BY <1>10, <1>11, <1>12, <1>13, <1>14 DEF StaleFits
<1>17. ASSUME NEW y \in Pair1, r5[y] = s PROVE FALSE
    <2>1. S[s].verAt < MergedAt(y)
        BY <1>5, <1>10, <1>11, <1>12, <1>17 DEF StaleFits
    <2>2. /\ r6[y] \in Pair2 /\ MergedAt(y) <= r2[s].verAt
        BY <1>1, <1>11, <1>17, MergeConstantsHold
           DEF MergeDatabase, AliasFits, MergeTypes, MergeConstants
    <2>3. MergedAt(y) \in Nat
        BY <1>1, <1>9, <2>2 DEF MergeTypes, CaseRows, MergedAt
    <2> QED BY <1>13, <1>14, <2>1, <2>2, <2>3
<1>18. \A p \in P : r3[p] \in {"available", "expired"} /\ \A t \in r12 : t[2] # p
    BY <1>1, <1>4, <1>8 DEF MergeCallFits
<1>19. /\ r2 \in [Pair1 -> MergeAccounts] /\ r4 \in [Pair2 -> CaseRows]
       /\ r3 \in [Merge!Proofs -> {"none", "available", "expired", "consumed"}]
       /\ r2[s] \in MergeAccounts /\ r2[v] \in MergeAccounts
    BY <1>1, <1>11 DEF MergeTypes
<1>20. PICK a : a = Merge!Combined(r2[v], S, r, n) OBVIOUS
<1>21. /\ a \in MergeAccounts /\ a.prog = S[v].prog \cup S[s].prog /\ a.progAt = n /\ a.verAt = n
       /\ a.ver > 0 /\ a.item = r2[v].item /\ a.itemAt = r2[v].itemAt
    <2>1. Merge!Merged(S, r) = S[v].prog \cup S[s].prog
        BY <1>5, <1>6 DEF Merge!Merged
    <2>2. PICK m : m = Merge!Merged(S, r) OBVIOUS
    <2>3. m \in SUBSET MergeEvidence BY <1>14, <2>1, <2>2 DEF MergeContents
    <2>4. PICK a1 : a1 = [r2[v] EXCEPT !.prog = m] OBVIOUS
    <2>5. PICK a2 : a2 = [a1 EXCEPT !.progAt = n] OBVIOUS
    <2>6. PICK a3 : a3 = [a2 EXCEPT !.ver = r2[v].ver + 1] OBVIOUS
    <2>7. /\ a1 \in MergeAccounts /\ a1.prog = m /\ a1.item = r2[v].item
          /\ a1.itemAt = r2[v].itemAt
        BY <1>19, <2>3, <2>4 DEF MergeAccounts
    <2>8. /\ a2 \in MergeAccounts /\ a2.prog = m /\ a2.item = r2[v].item
          /\ a2.itemAt = r2[v].itemAt /\ a2.progAt = n
        BY <1>10, <2>5, <2>7 DEF MergeAccounts
    <2>9. r2[v].ver \in Nat BY <1>19 DEF MergeAccounts
    <2>10. /\ a3 \in MergeAccounts /\ a3.prog = m /\ a3.item = r2[v].item
           /\ a3.itemAt = r2[v].itemAt /\ a3.progAt = n /\ a3.ver > 0
        BY <2>6, <2>8, <2>9 DEF MergeAccounts
    <2>11. a = [a3 EXCEPT !.verAt = n]
        BY <1>19, <1>20, <2>2, <2>4, <2>5, <2>6, <2>7, <2>8, <2>10 DEF Merge!Combined
    <2> QED BY <1>10, <2>1, <2>2, <2>10, <2>11 DEF MergeAccounts
<1>22. PICK b : b = Merge!Emptied(r2[s]) OBVIOUS
<1>23. /\ b \in MergeAccounts /\ b.prog = {} /\ b.progAt = 0 /\ b.ver = 0
       /\ b.verAt = r2[s].verAt /\ b.item = r2[s].item /\ b.itemAt = r2[s].itemAt
    <2>1. 0 \in Moments BY DEF MergeConstants, Moments
    <2>2. PICK b1 : b1 = [r2[s] EXCEPT !.prog = {}] OBVIOUS
    <2>3. PICK b2 : b2 = [b1 EXCEPT !.progAt = 0] OBVIOUS
    <2>4. /\ b1 \in MergeAccounts /\ b1.prog = {} /\ b1.verAt = r2[s].verAt
          /\ b1.item = r2[s].item /\ b1.itemAt = r2[s].itemAt
        BY <1>19, <2>2 DEF MergeAccounts
    <2>5. /\ b2 \in MergeAccounts /\ b2.prog = {} /\ b2.verAt = r2[s].verAt /\ b2.progAt = 0
          /\ b2.item = r2[s].item /\ b2.itemAt = r2[s].itemAt
        BY <2>1, <2>3, <2>4 DEF MergeAccounts
    <2>6. b = [b2 EXCEPT !.ver = 0]
        BY <1>19, <1>22, <2>2, <2>3, <2>4, <2>5 DEF Merge!Emptied
    <2> QED BY <2>5, <2>6 DEF MergeAccounts
<1>24. r2' = [r2 EXCEPT ![v] = a, ![s] = b]
    BY <1>3, <1>4, <1>5, <1>6, <1>7, <1>11, <1>19, <1>20, <1>22 DEF Merge!MergeBatch
<1>25. /\ r2' \in [Pair1 -> MergeAccounts] /\ r2'[v] = a /\ r2'[s] = b
       /\ \A x \in Pair1 : x # s /\ x # v => r2'[x] = r2[x]
    BY <1>11, <1>19, <1>21, <1>23, <1>24
<1>26. r3' = [p \in Merge!Proofs |-> IF p \in P /\ r3[p] = "available" THEN "consumed" ELSE r3[p]]
    BY <1>4, <1>8 DEF Merge!MergeBatch
<1>27. /\ r3' \in [Merge!Proofs -> {"none", "available", "expired", "consumed"}]
       /\ \A p \in Merge!Proofs : r3[p] \in {"consumed", "expired"} => r3'[p] = r3[p]
       /\ \A p \in P : r3'[p] \in {"consumed", "expired"}
    BY <1>11, <1>18, <1>19, <1>26
<1>28. PICK f : f = [x \in {s, v} |-> Merge!Shown(x)] OBVIOUS
<1>29. f \in UNION {[T -> SUBSET MergeEvidence] : T \in SUBSET Pair1}
    <2>1. \A x \in {s, v} : Merge!Shown(x) \in SUBSET MergeEvidence
        BY <1>19 DEF Merge!Shown, MergeAccounts
    <2>2. f \in [{s, v} -> SUBSET MergeEvidence] BY <1>28, <2>1
    <2>3. {s, v} \in SUBSET Pair1 BY <1>11
    <2> QED BY <2>2, <2>3
<1>30. PICK e1 : e1 = [r EXCEPT !.status = "completed"] OBVIOUS
<1>31. PICK e2 : e2 = [e1 EXCEPT !.at = n] OBVIOUS
<1>32. PICK e3 : e3 = [e2 EXCEPT !.snap = S] OBVIOUS
<1>33. PICK e : e = [e3 EXCEPT !.before = f] OBVIOUS
<1>34. /\ e1 \in CaseRows /\ e1.status = "completed" /\ e1.source = s /\ e1.survivor = v
    BY <1>5, <1>6, <1>10, <1>30 DEF CaseRows
<1>35. /\ e2 \in CaseRows /\ e2.status = "completed" /\ e2.source = s /\ e2.survivor = v
       /\ e2.at = n
    BY <1>10, <1>31, <1>34 DEF CaseRows
<1>36. /\ e3 \in CaseRows /\ e3.status = "completed" /\ e3.source = s /\ e3.survivor = v
       /\ e3.at = n /\ e3.snap = S
    BY <1>10, <1>32, <1>35 DEF CaseRows
<1>37. /\ e \in CaseRows /\ e.status = "completed" /\ e.source = s /\ e.survivor = v
       /\ e.at = n /\ e.snap = S
    BY <1>29, <1>33, <1>36 DEF CaseRows
<1>38. r4' = [r4 EXCEPT ![c] = e]
    <2>1. r4' = [r4 EXCEPT ![c].status = IF @ = "preview" THEN "completed" ELSE @,
                          ![c].at = n, ![c].snap = S, ![c].before = f]
        BY <1>2, <1>3, <1>4, <1>5, <1>6, <1>7, <1>28 DEF Merge!MergeBatch
    <2>2. PICK k1 : k1 = [r4 EXCEPT ![c] = e1] OBVIOUS
    <2>3. PICK k2 : k2 = [k1 EXCEPT ![c] = e2] OBVIOUS
    <2>4. PICK k3 : k3 = [k2 EXCEPT ![c] = e3] OBVIOUS
    <2>5. [r4 EXCEPT ![c].status = IF @ = "preview" THEN "completed" ELSE @] = k1
        BY <1>10, <1>19, <1>30, <2>2
    <2>6. [k1 EXCEPT ![c].at = n] = k2 BY <1>10, <1>19, <1>31, <2>2, <2>3
    <2>7. [k2 EXCEPT ![c].snap = S] = k3 BY <1>10, <1>19, <1>32, <2>2, <2>3, <2>4
    <2>8. [k3 EXCEPT ![c].before = f] = [k3 EXCEPT ![c] = e]
        BY <1>10, <1>19, <1>33, <2>2, <2>3, <2>4
    <2>9. r4' = [k3 EXCEPT ![c] = e] BY <2>1, <2>5, <2>6, <2>7, <2>8
    <2> QED BY <1>10, <1>19, <2>2, <2>3, <2>4, <2>9
<1>39. r4' \in [Pair2 -> CaseRows] /\ r4'[c] = e /\ \A d \in Pair2 : d # c => r4'[d] = r4[d]
    BY <1>10, <1>19, <1>37, <1>38
<1>40. /\ r5' = [r5 EXCEPT ![s] = v] /\ r6' = [r6 EXCEPT ![s] = c] /\ r7' = r7 \cup {c}
       /\ r12' = r12 \cup {<<c, p>> : p \in P} /\ UNCHANGED <<r1, r8, r10, r11>>
    BY <1>2, <1>4, <1>5, <1>6, <1>8 DEF Merge!MergeBatch
<1>41. PICK g : g = [r9[o] EXCEPT !.pc = "promote"] OBVIOUS
<1>42. PICK row : row = [g EXCEPT !.todo = {v}] OBVIOUS
<1>43. g \in MergeCallRows /\ g.pc = "promote" /\ g.id = c /\ g.now = n /\ g.read = r
    BY <1>1, <1>2, <1>3, <1>4, <1>41 DEF MergeCallRows
<1>44. row \in MergeCallRows /\ row.pc = "promote" /\ row.id = c /\ row.now = n /\ row.read = r
    BY <1>11, <1>42, <1>43 DEF MergeCallRows
<1>45. r9' = [r9 EXCEPT ![o] = row]
    <2>1. r9' = [r9 EXCEPT ![o].pc = "promote", ![o].todo = {v}]
        BY <1>4, <1>6 DEF Merge!MergeBatch
    <2> QED BY <1>1, <1>41, <1>42, <2>1
<1>46. r9' \in [MergeCalls -> MergeCallRows] /\ r9'[o] = row
    BY <1>1, <1>44, <1>45
<1>47. MergeDatabase'
    <2>1. \A y \in Pair1 : r5[y] # s BY <1>17
    <2>2. \A p \in P : \A t \in r12 : t[2] # p BY <1>18
    <2>3. /\ S[s].prog = r2[s].prog /\ S[v].prog = r2[v].prog
          /\ S[v].progAt = r2[v].progAt /\ S[v].verAt = r2[v].verAt
          /\ S[s].progAt = r2[s].progAt /\ S[s].verAt = r2[s].verAt
        BY <1>13
    <2>4. /\ r2'[v].prog = S[v].prog \cup S[s].prog /\ r2'[v].progAt = n /\ r2'[v].verAt = n
          /\ r2'[v].ver > 0 /\ r2'[v].item = r2[v].item /\ r2'[v].itemAt = r2[v].itemAt
        BY <1>21, <1>25
    <2>5. /\ r2'[s].prog = {} /\ r2'[s].progAt = 0 /\ r2'[s].ver = 0
          /\ r2'[s].verAt = r2[s].verAt /\ r2'[s].item = r2[s].item
          /\ r2'[s].itemAt = r2[s].itemAt
        BY <1>23, <1>25
    <2>6. /\ r4'[c].status = "completed" /\ r4'[c].source = s /\ r4'[c].survivor = v
          /\ r4'[c].snap = S /\ r4'[c].at = n /\ r4[c].status = "preview"
        BY <1>10, <1>37, <1>39
    <2> QED BY <1>1, <1>10, <1>11, <1>12, <1>15, <1>16, <1>25, <1>27, <1>39, <1>40, <1>46,
               <2>1, <2>2, <2>3, <2>4, <2>5, <2>6, MergeCommits, ZenonT(90)
<1>48. MergeCallFits(o)'
    BY <1>5, <1>6, <1>10, <1>11, <1>40, <1>44, <1>46 DEF MergeCallFits
<1> QED BY <1>1, <1>40, <1>45, <1>47, <1>48, CallIsAlone, CallSteps

\* An account has the contents of the snapshot again; its imports stay.
TakesBack(x, S) ==
    /\ r2'[x].prog = S[x].prog /\ r2'[x].progAt = S[x].progAt
    /\ r2'[x].ver = S[x].ver /\ r2'[x].verAt = S[x].verAt
    /\ r2'[x].item = r2[x].item /\ r2'[x].itemAt = r2[x].itemAt

\* The batch of a rollback, on the database: without later activity the case is the newest
\* into its survivor, so what its snapshot restores has what all the others were told.
LEMMA RestoreCommits ==
    ASSUME MergeConstants, MergeDatabase,
           NEW c \in Pair2, NEW s \in Pair1, NEW v \in Pair1, NEW S,
           r4[c].status = "completed", r4[c].source = s, r4[c].survivor = v, r4[c].snap = S,
           r2[v].progAt <= r4[c].at, r2[v].verAt <= r4[c].at,
           r2' \in [Pair1 -> MergeAccounts],
           \A x \in Pair1 : x # s /\ x # v => r2'[x] = r2[x],
           TakesBack(s, S), TakesBack(v, S),
           r4' \in [Pair2 -> CaseRows], \A d \in Pair2 : d # c => r4'[d] = r4[d],
           r4'[c].status = "rolled-back", r4'[c].source = s, r4'[c].survivor = v,
           r4'[c].at = r4[c].at,
           r5' = [x \in Pair1 |-> IF r6[x] = c THEN None ELSE r5[x]],
           r6' = [x \in Pair1 |-> IF r6[x] = c THEN "none" ELSE r6[x]],
           r8' \subseteq r7, UNCHANGED <<r1, r3, r7, r10, r11, r12>>,
           r9' \in [MergeCalls -> MergeCallRows]
    PROVE  MergeDatabase'
<1> USE DEF TakesBack
<1>1. MergeTypes /\ InLineMerges /\ ProofsSpent /\ CaseFits(c) BY DEF MergeDatabase
<1>2. \A t \in Moments : t \in Nat BY DEF Moments, MergeConstants
<1>3. PICK n : n = r4[c].at OBVIOUS
<1>4. /\ s # v /\ r6[s] = c /\ r5[s] = v /\ Whose(c) = {s, v}
      /\ S \in [{s, v} -> MergeContents] /\ n <= r1 /\ n \in Nat /\ r1 \in Nat
      /\ v # None /\ c # "none"
      /\ \A x \in {s, v} : S[x].ver > 0 /\ S[x].progAt <= n /\ S[x].verAt <= n
      /\ S[v].progAt \in Nat /\ S[v].verAt \in Nat
    <2>1. /\ s # v /\ r6[s] = c /\ r5[s] = v /\ Whose(c) = {s, v}
          /\ S \in [{s, v} -> MergeContents] /\ n <= r1
          /\ \A x \in {s, v} : S[x].ver > 0 /\ S[x].progAt <= n /\ S[x].verAt <= n
        BY <1>1, <1>3 DEF CaseFits, Whose
    <2>2. n \in Nat /\ r1 \in Nat
        <3>1. r4[c] \in CaseRows /\ r1 \in Moments BY <1>1 DEF MergeTypes
        <3> QED BY <1>2, <1>3, <3>1 DEF CaseRows
    <2>3. S[v] \in MergeContents BY <2>1
    <2> QED BY <1>2, <2>1, <2>2, <2>3, MergeConstantsHold DEF MergeConstants, MergeContents
<1>5. /\ r5 \in [Pair1 -> Pair1 \cup {None}] /\ r6 \in [Pair1 -> Pair2 \cup {"none"}]
    BY <1>1 DEF MergeTypes
<1>6. MergedAt(s) = n /\ SnapOf(s) = S BY <1>3, <1>4 DEF MergedAt, SnapOf
<1>7. \A x \in Pair1 : r6[x] = c => x = s
    BY <1>4 DEF MergeDatabase, AliasFits
<1>8. /\ r5'[s] = None /\ r6'[s] = "none" /\ r5[v] = None /\ r5'[v] = None
      /\ \A x \in Pair1 : x # s => r5'[x] = r5[x] /\ r6'[x] = r6[x]
      /\ \A x \in Pair1 : r5[x] # s
    <2>1. r5[v] = None /\ \A x \in Pair1 : r5[x] # s
        BY <1>4, MergeConstantsHold DEF MergeDatabase, AliasFits, MergeConstants
    <2> QED BY <1>4, <1>7, <2>1
<1>9. r2[v].progAt \in Nat /\ r2[v].verAt \in Nat
    <2>1. r2[v] \in MergeAccounts BY <1>1 DEF MergeTypes
    <2> QED BY <1>2, <2>1 DEF MergeAccounts
<1>10. ASSUME NEW x \in Pair1, x # s, r5[x] # None
       PROVE  /\ r5'[x] = r5[x] /\ r6'[x] = r6[x] /\ r5[x] \in Pair1 /\ r5[x] # s /\ x # v
              /\ r2'[x] = r2[x] /\ r6[x] \in Pair2 /\ r4'[r6'[x]] = r4[r6[x]]
              /\ MergedAt(x)' = MergedAt(x) /\ SnapOf(x)' = SnapOf(x) /\ MergedAt(x) \in Nat
    <2>1. AliasFits(x) /\ r5[x] \in Pair1 BY <1>5, <1>10 DEF MergeDatabase
    <2>2. r6[x] \in Pair2 /\ r6[x] # c BY <1>5, <1>7, <1>10, <2>1 DEF AliasFits
    <2>3. r4'[r6'[x]] = r4[r6[x]] BY <1>8, <1>10, <2>2
    <2>4. MergedAt(x) \in Nat
        BY <1>1, <1>2, <2>2 DEF MergeTypes, CaseRows, MergedAt
    <2> QED BY <1>8, <1>10, <2>1, <2>2, <2>3, <2>4 DEF MergedAt, SnapOf
\* The others that lead to the survivor were merged before, and the snapshot has seen them.
<1>11. ASSUME NEW x \in Pair1, x # s, r5[x] = v
       PROVE  MergedAt(x) < n /\ S[v].progAt >= MergedAt(x) /\ S[v].verAt >= MergedAt(x)
    <2>1. r5[x] # None /\ MergedAt(x) \in Nat BY <1>4, <1>10, <1>11
    <2>2. MergedAt(x) <= r2[v].progAt BY <1>11, <2>1 DEF MergeDatabase, AliasFits
    <2>3. MergedAt(x) # MergedAt(s) BY <1>1, <1>4, <1>11, <2>1 DEF InLineMerges
    <2>4. MergedAt(x) < n BY <1>3, <1>4, <1>6, <1>9, <2>1, <2>2, <2>3
    <2> QED BY <1>1, <1>4, <1>6, <1>11, <2>1, <2>4 DEF InLineMerges
<1>12. SnapshotKeeps(s)
    <2>1. r5[s] # None BY <1>4
    <2>2. ~Overtaken(s)
        <3> SUFFICES ASSUME NEW t \in Moments, n < t, t <= r2[v].progAt PROVE FALSE
            BY <1>4, <1>6 DEF Overtaken
        <3> QED BY <1>2, <1>3, <1>4, <1>9
    <2> QED BY <2>1, <2>2 DEF MergeDatabase
<1>13. MergeTypes'
    <2>1. r5' \in [Pair1 -> Pair1 \cup {None}] /\ r6' \in [Pair1 -> Pair2 \cup {"none"}]
        BY <1>5
    <2> QED BY <1>1, <2>1 DEF MergeTypes
<1>14. InLineMerges'
    <2> SUFFICES ASSUME NEW x \in Pair1, NEW y \in Pair1, r5'[x] # None, r5'[x] = r5'[y], x # y
                 PROVE  /\ MergedAt(x)' # MergedAt(y)'
                        /\ MergedAt(x)' < MergedAt(y)' =>
                              /\ SnapOf(y)'[r5'[x]].progAt >= MergedAt(x)'
                              /\ SnapOf(y)'[r5'[x]].verAt >= MergedAt(x)'
        BY DEF InLineMerges
    <2>1. x # s /\ y # s BY <1>8
    <2>2. r5'[x] = r5[x] /\ r5'[y] = r5[y] BY <1>8, <2>1
    <2>3. /\ MergedAt(x)' = MergedAt(x) /\ MergedAt(y)' = MergedAt(y)
          /\ SnapOf(y)' = SnapOf(y)
        BY <1>10, <2>1, <2>2
    <2> QED BY <1>1, <2>2, <2>3 DEF InLineMerges
<1>15. ProofsSpent' BY <1>1 DEF ProofsSpent, Merge!ProofsServeOnce
<1>16. ASSUME NEW d \in Pair2 PROVE CaseFits(d)' /\ StaleFits(d)'
    <2>1. CaseFits(d) /\ StaleFits(d) BY DEF MergeDatabase
    <2>2. CASE d = c
        BY <1>3, <1>4, <2>2 DEF CaseFits, StaleFits
    <2>3. CASE d # c
        <3>1. r4'[d] = r4[d] /\ Whose(d)' = Whose(d) BY <2>3 DEF Whose
        <3>2. r4[d].status = "completed" =>
                  r6'[r4[d].source] = d /\ r5'[r4[d].source] = r4[d].survivor
            BY <1>4, <1>8, <2>1, <2>3 DEF CaseFits
        <3>3. CaseFits(d)' BY <2>1, <3>1, <3>2 DEF CaseFits
        <3>4. ASSUME r4[d].status = "preview", NEW x \in Whose(d), r5'[x] # None
              PROVE  r2'[x].ver = 0 \/ r2'[x].verAt > r4[d].digest[x].verAt
            <4>1. x \in Pair1 BY <2>1, <3>4 DEF CaseFits, Whose
            <4>2. x # s /\ r5[x] # None BY <1>8, <3>4, <4>1
            <4>3. r2'[x] = r2[x] BY <1>10, <4>1, <4>2
            <4> QED BY <2>1, <3>4, <4>2, <4>3 DEF StaleFits
        <3>5. ASSUME r4[d].status = "preview", NEW y \in Pair1, r5'[y] = r4[d].source
              PROVE  r4[d].digest[r4[d].source].verAt < MergedAt(y)'
            <4>1. r4[d].source \in Pair1 /\ r4[d].source # None
                BY <2>1, <3>5, MergeConstantsHold DEF CaseFits, MergeConstants
            <4>2. y # s /\ r5[y] = r4[d].source /\ r5[y] # None BY <1>8, <3>5, <4>1
            <4>3. MergedAt(y)' = MergedAt(y) BY <1>10, <4>2
            <4> QED BY <2>1, <3>5, <4>2, <4>3 DEF StaleFits
        <3>6. StaleFits(d)' BY <3>1, <3>4, <3>5 DEF StaleFits
        <3> QED BY <3>3, <3>6
    <2> QED BY <2>2, <2>3
<1>17. ASSUME NEW x \in Pair1 PROVE AliasFits(x)'
    <2>1. AliasFits(x) BY DEF MergeDatabase
    <2>2. CASE x \in {s, v}
        <3>1. S[x] \in MergeContents /\ S[x].progAt \in Nat /\ S[x].verAt \in Nat
            BY <1>2, <1>4, <2>2 DEF MergeContents
        <3>2. r2'[x].progAt <= r1' /\ r2'[x].verAt <= r1' /\ r2'[x].ver > 0
            BY <1>4, <2>2, <3>1
        <3>3. r2'[x].itemAt <= r1' BY <2>1, <2>2 DEF AliasFits
        <3>4. r5'[x] = None /\ r6'[x] = "none"
            BY <1>4, <1>8, <2>1, <2>2 DEF AliasFits
        <3> QED BY <3>2, <3>3, <3>4 DEF AliasFits
    <2>3. CASE x \notin {s, v} /\ r5[x] = None
        BY <1>8, <2>1, <2>3 DEF AliasFits
    <2>4. CASE x \notin {s, v} /\ r5[x] # None
        <3>1. PICK w \in Pair1 : w = r5[x] /\ w # s BY <1>10, <2>4
        <3>2. /\ r5'[x] = w /\ r5'[w] = None /\ r6'[x] = r6[x] /\ r2'[x] = r2[x]
              /\ MergedAt(x)' = MergedAt(x) /\ r4'[r6'[x]] = r4[r6[x]] /\ r6'[x] # "none"
            BY <1>8, <1>10, <2>1, <2>4, <3>1 DEF AliasFits
        <3>3. MergedAt(x) <= r2'[w].progAt /\ MergedAt(x) <= r2'[w].verAt
            <4>1. CASE w = v
                <5>1. MergedAt(x) \in Nat BY <1>10, <2>4
                <5>2. S[v].progAt >= MergedAt(x) /\ S[v].verAt >= MergedAt(x)
                    BY <1>11, <2>4, <3>1, <4>1
                <5> QED BY <1>4, <4>1, <5>1, <5>2
            <4>2. CASE w # v BY <2>1, <2>4, <3>1, <4>2 DEF AliasFits
            <4> QED BY <4>1, <4>2
        <3>4. 0 < MergedAt(x) BY <2>1, <2>4 DEF AliasFits
        <3> QED BY <2>1, <2>4, <3>1, <3>2, <3>3, <3>4 DEF AliasFits
    <2> QED BY <2>2, <2>3, <2>4
<1>18. ASSUME NEW x \in Pair1 PROVE ToldFits(x)'
    <2>1. ToldFits(x) BY DEF MergeDatabase
    <2>2. CASE x \in {s, v}
        <3>1. Merge!Resolve(x)' = x BY <1>8, <2>2 DEF Merge!Resolve
        <3>2. r11[x] \subseteq S[x].prog BY <1>4, <1>6, <1>12, <2>2 DEF SnapshotKeeps
        <3>3. r11[x] \subseteq r2[x].item
            <4>1. CASE x = s BY <1>12, <4>1 DEF SnapshotKeeps
            <4>2. CASE x = v BY <1>8, <2>1, <4>2 DEF ToldFits, Merge!Resolve
            <4> QED BY <2>2, <4>1, <4>2
        <3> QED BY <2>2, <3>1, <3>2, <3>3 DEF ToldFits
    <2>3. CASE x \notin {s, v}
        <3>1. PICK w \in Pair1 : w = Merge!Resolve(x) BY <1>5 DEF Merge!Resolve
        <3>2. Merge!Resolve(x)' = w /\ w # s /\ r5'[x] = r5[x]
            BY <1>8, <2>3, <3>1 DEF Merge!Resolve
        <3>3. r11[x] \subseteq r2'[w].prog
            <4>1. CASE w = v
                <5>1. r5[x] = v BY <2>3, <3>1, <4>1 DEF Merge!Resolve
                <5>2. MergedAt(x) < MergedAt(s) BY <1>6, <1>11, <2>3, <5>1
                <5>3. r11[x] \subseteq S[v].prog
                    BY <1>4, <1>6, <1>12, <5>1, <5>2 DEF SnapshotKeeps
                <5> QED BY <4>1, <5>3
            <4>2. CASE w # v BY <2>1, <3>1, <3>2, <4>2 DEF ToldFits
            <4> QED BY <4>1, <4>2
        <3>4. r2'[w].item = r2[w].item /\ r2'[w].itemAt = r2[w].itemAt BY <3>2
        <3>5. CASE r11[x] \subseteq r2[w].item
            BY <3>2, <3>3, <3>4, <3>5 DEF ToldFits
        <3>6. CASE r5[x] # None /\ r2[r5[x]].itemAt < MergedAt(x)
            <4>1. w = r5[x] /\ r5'[x] = w BY <3>1, <3>2, <3>6 DEF Merge!Resolve
            <4>2. MergedAt(x)' = MergedAt(x) BY <1>10, <2>3, <3>6
            <4> QED BY <3>2, <3>3, <3>4, <3>6, <4>1, <4>2 DEF ToldFits
        <3> QED BY <2>1, <3>1, <3>5, <3>6 DEF ToldFits
    <2> QED BY <2>2, <2>3
<1>19. ASSUME NEW x \in Pair1, r5'[x] # None PROVE (Overtaken(x) \/ SnapshotKeeps(x))'
    <2>1. x # s /\ r5'[x] = r5[x] /\ r5[x] # None BY <1>8, <1>19
    <2>2. PICK w \in Pair1 : w = r5[x] /\ w # s BY <1>10, <2>1
    <2>3. MergedAt(x)' = MergedAt(x) /\ SnapOf(x)' = SnapOf(x) /\ r2'[x] = r2[x]
        BY <1>10, <2>1
    <2>4. \A y \in Pair1 : r5'[y] = w =>
              r5[y] = w /\ MergedAt(y)' = MergedAt(y) /\ SnapOf(y)' = SnapOf(y)
        BY <1>8, <1>10, <2>1, <2>2
    <2>5. CASE Overtaken(x)
        <3>1. PICK t \in Moments :
                  /\ MergedAt(x) < t /\ t <= r2[w].progAt
                  /\ \A y \in Pair1 : r5[y] = w =>
                        /\ MergedAt(y) # t
                        /\ MergedAt(y) > t => SnapOf(y)[w].progAt >= t
            BY <2>2, <2>5 DEF Overtaken
        <3>2. t <= r2'[w].progAt
            <4>1. CASE w = v
                <5>1. MergedAt(s) # t /\ (MergedAt(s) > t => S[v].progAt >= t)
                    BY <1>4, <1>6, <3>1, <4>1
                <5>2. S[v].progAt >= t BY <1>2, <1>3, <1>4, <1>6, <1>9, <3>1, <4>1, <5>1
                <5> QED BY <1>2, <1>4, <4>1, <5>2
            <4>2. CASE w # v BY <2>2, <3>1, <4>2
            <4> QED BY <4>1, <4>2
        <3>3. Overtaken(x)'
            BY <2>1, <2>2, <2>3, <2>4, <3>1, <3>2 DEF Overtaken, Moments
        <3> QED BY <3>3
    <2>6. CASE SnapshotKeeps(x)
        <3>1. ASSUME NEW y \in Pair1, r5'[y] = w, MergedAt(y)' < MergedAt(x)'
              PROVE  r11'[y] \subseteq SnapOf(x)'[w].prog
            BY <2>2, <2>3, <2>4, <2>6, <3>1 DEF SnapshotKeeps
        <3> QED BY <2>1, <2>2, <2>3, <2>6, <3>1 DEF SnapshotKeeps
    <2> QED BY <2>1, <2>5, <2>6 DEF MergeDatabase
<1> QED BY <1>13, <1>14, <1>15, <1>16, <1>17, <1>18, <1>19 DEF MergeDatabase

LEMMA RestoreBatchKeeps ==
    ASSUME MergeConstants, MergeInv, NEW o \in MergeCalls, Merge!RestoreBatch(o)
    PROVE  MergeInv'
<1>1. /\ MergeTypes /\ MergeDatabase /\ MergeCallFits(o) /\ r9[o].pc = "restore"
      /\ r9[o] \in MergeCallRows /\ r9[o].pc # "idle"
      /\ r9 \in [MergeCalls -> MergeCallRows] /\ r10 \in [Pair1 -> ImportRows]
    BY DEF MergeInv, MergeDatabase, MergeTypes, Merge!RestoreBatch
<1>2. PICK c : c = r9[o].id OBVIOUS
<1>3. PICK r : r = r9[o].read OBVIOUS
<1>4. PICK s : s = r.source OBVIOUS
<1>5. PICK v : v = r.survivor OBVIOUS
<1>6. PICK S : S = r.snap OBVIOUS
<1>7. CASE r9[o].id \in r8
    <2>1. UNCHANGED Merge!Frame /\ Merge!End(o)
        BY <1>7, Zenon DEF Merge!RestoreBatch, Merge!Frame
    <2> QED BY <1>1, <2>1, RequestEnds, SMTT(30)
<1>8. CASE r9[o].id \notin r8
    <2>1. /\ c \in Pair2 /\ r9[o].now <= r1 /\ r = r4[c] /\ r.status = "completed"
          /\ r \in CaseRows /\ ~Merge!ChangedSince(r)
        BY <1>1, <1>2, <1>3 DEF MergeCallFits, MergeCallRows
    <2>2. /\ s \in Pair1 /\ v \in Pair1 /\ c \in r7 /\ Whose(c) = {s, v}
          /\ S \in [{s, v} -> MergeContents]
        BY <1>1, <1>4, <1>5, <1>6, <2>1 DEF MergeDatabase, CaseFits, Whose
    <2>3. /\ r2 \in [Pair1 -> MergeAccounts] /\ r4 \in [Pair2 -> CaseRows]
        BY <1>1 DEF MergeTypes
    <2>4. r2[v].progAt <= r4[c].at /\ r2[v].verAt <= r4[c].at
        <3>1. r2[v].progAt \in Nat /\ r2[v].verAt \in Nat /\ r.at \in Nat
            <4>1. r2[v] \in MergeAccounts BY <2>2, <2>3, SMTT(30)
            <4> QED BY <2>1, <4>1 DEF MergeAccounts, CaseRows, Moments
        <3> QED BY <1>5, <2>1, <3>1 DEF Merge!ChangedSince
    <2> DEFINE back(x) == [r2[x] EXCEPT !.prog = S[x].prog, !.progAt = S[x].progAt,
                                        !.ver = S[x].ver, !.verAt = S[x].verAt]
    <2>5. r2' = [x \in Pair1 |-> IF x \in {s, v} THEN back(x) ELSE r2[x]]
        BY <1>3, <1>4, <1>5, <1>6, <1>8, Zenon DEF Merge!RestoreBatch
    <2>6. ASSUME NEW x \in {s, v}
          PROVE  /\ back(x) \in MergeAccounts
                 /\ back(x).prog = S[x].prog /\ back(x).progAt = S[x].progAt
                 /\ back(x).ver = S[x].ver /\ back(x).verAt = S[x].verAt
                 /\ back(x).item = r2[x].item /\ back(x).itemAt = r2[x].itemAt
        <3>1. r2[x] \in MergeAccounts /\ S[x] \in MergeContents BY <2>2, <2>3
        <3>2. /\ S[x].prog \in SUBSET MergeEvidence /\ S[x].progAt \in Moments
              /\ S[x].ver \in Nat /\ S[x].verAt \in Moments
            BY <3>1 DEF MergeContents
        <3>3. PICK a1 : a1 = [r2[x] EXCEPT !.prog = S[x].prog] OBVIOUS
        <3>4. PICK a2 : a2 = [a1 EXCEPT !.progAt = S[x].progAt] OBVIOUS
        <3>5. PICK a3 : a3 = [a2 EXCEPT !.ver = S[x].ver] OBVIOUS
        <3>6. PICK a4 : a4 = [a3 EXCEPT !.verAt = S[x].verAt] OBVIOUS
        <3>7. /\ a1 \in MergeAccounts /\ a1.prog = S[x].prog
              /\ a1.item = r2[x].item /\ a1.itemAt = r2[x].itemAt
            BY <3>1, <3>2, <3>3 DEF MergeAccounts
        <3>8. /\ a2 \in MergeAccounts /\ a2.prog = S[x].prog /\ a2.progAt = S[x].progAt
              /\ a2.item = r2[x].item /\ a2.itemAt = r2[x].itemAt
            BY <3>2, <3>4, <3>7 DEF MergeAccounts
        <3>9. /\ a3 \in MergeAccounts /\ a3.prog = S[x].prog /\ a3.progAt = S[x].progAt
              /\ a3.ver = S[x].ver /\ a3.item = r2[x].item /\ a3.itemAt = r2[x].itemAt
            BY <3>2, <3>5, <3>8 DEF MergeAccounts
        <3>10. /\ a4 \in MergeAccounts /\ a4.prog = S[x].prog /\ a4.progAt = S[x].progAt
               /\ a4.ver = S[x].ver /\ a4.verAt = S[x].verAt
               /\ a4.item = r2[x].item /\ a4.itemAt = r2[x].itemAt
            BY <3>2, <3>6, <3>9 DEF MergeAccounts
        <3>11. back(x) = a4 BY <3>3, <3>4, <3>5, <3>6
        <3> HIDE DEF back
        <3> QED BY <3>10, <3>11
    <2> HIDE DEF back
    <2>7. /\ r2' \in [Pair1 -> MergeAccounts]
          /\ \A x \in Pair1 : x # s /\ x # v => r2'[x] = r2[x]
          /\ \A x \in {s, v} : r2'[x] = back(x)
        BY <2>2, <2>3, <2>5, <2>6
    <2>8. TakesBack(s, S) /\ TakesBack(v, S)
        BY <2>6, <2>7 DEF TakesBack
    <2>9. PICK e : e = [r EXCEPT !.status = "rolled-back"] OBVIOUS
    <2>10. /\ e \in CaseRows /\ e.status = "rolled-back" /\ e.source = s /\ e.survivor = v
           /\ e.at = r.at
        BY <1>4, <1>5, <2>1, <2>9 DEF CaseRows
    <2>11. r4' = [r4 EXCEPT ![c] = e]
        BY <1>2, <1>8, <2>1, <2>3, <2>9, Zenon DEF Merge!RestoreBatch
    <2>12. /\ r4' \in [Pair2 -> CaseRows] /\ r4'[c] = e
           /\ \A d \in Pair2 : d # c => r4'[d] = r4[d]
        BY <2>1, <2>3, <2>10, <2>11, SMTT(30)
    <2>13. /\ r5' = [x \in Pair1 |-> IF r6[x] = c THEN None ELSE r5[x]]
           /\ r6' = [x \in Pair1 |-> IF r6[x] = c THEN "none" ELSE r6[x]]
           /\ r8' = r8 \cup {c} /\ UNCHANGED <<r1, r3, r7, r10, r11, r12>>
        BY <1>2, <1>8, Zenon DEF Merge!RestoreBatch, Merge!Freed
    <2>14. r8' \subseteq r7 BY <1>1, <2>2, <2>13 DEF MergeTypes
    <2>15. PICK g : g = [r9[o] EXCEPT !.pc = "promote"] OBVIOUS
    <2>16. PICK row : row = [g EXCEPT !.todo = {s, v}] OBVIOUS
    <2>17. g \in MergeCallRows /\ g.pc = "promote" /\ g.id = c /\ g.now = r9[o].now /\ g.read = r
        BY <1>1, <1>2, <1>3, <2>15 DEF MergeCallRows
    <2>18. row \in MergeCallRows /\ row.pc = "promote" /\ row.id = c /\ row.now = r9[o].now
           /\ row.read = r
        BY <2>2, <2>16, <2>17 DEF MergeCallRows
    <2>19. r9' = [r9 EXCEPT ![o] = row]
        <3>1. r9' = [r9 EXCEPT ![o].pc = "promote", ![o].todo = {s, v}]
            BY <1>3, <1>4, <1>5, <1>8, Zenon DEF Merge!RestoreBatch
        <3> QED BY <1>1, <2>15, <2>16, <3>1, Zenon
    <2>20. r9' \in [MergeCalls -> MergeCallRows] /\ r9'[o] = row
        BY <1>1, <2>18, <2>19
    <2>21. MergeDatabase'
        <3>1. /\ r4[c].status = "completed" /\ r4[c].source = s /\ r4[c].survivor = v
              /\ r4[c].snap = S
            BY <1>4, <1>5, <1>6, <2>1
        <3>2. /\ r4'[c].status = "rolled-back" /\ r4'[c].source = s /\ r4'[c].survivor = v
              /\ r4'[c].at = r4[c].at
            BY <2>1, <2>10, <2>12
        <3>3. MergeDatabase /\ c \in Pair2 /\ s \in Pair1 /\ v \in Pair1 BY <1>1, <2>1, <2>2
        <3>7. /\ r5' = [x \in Pair1 |-> IF r6[x] = c THEN None ELSE r5[x]]
              /\ r6' = [x \in Pair1 |-> IF r6[x] = c THEN "none" ELSE r6[x]]
              /\ UNCHANGED <<r1, r3, r7, r10, r11, r12>>
            BY <2>13
        <3>4. r2' \in [Pair1 -> MergeAccounts] /\ \A x \in Pair1 : x # s /\ x # v => r2'[x] = r2[x]
            BY <2>7
        <3>5. r4' \in [Pair2 -> CaseRows] /\ \A d \in Pair2 : d # c => r4'[d] = r4[d]
            BY <2>12
        <3>6. r9' \in [MergeCalls -> MergeCallRows] BY <2>20
        <3> QED BY <2>4, <2>8, <2>14, <3>1, <3>2, <3>3, <3>4, <3>5, <3>6, <3>7,
                   RestoreCommits, ZenonT(90)
    <2>22. MergeCallFits(o)'
        BY <1>4, <1>5, <2>1, <2>2, <2>13, <2>18, <2>20 DEF MergeCallFits
    <2> QED BY <1>1, <2>13, <2>19, <2>21, <2>22, CallIsAlone, CallSteps
<1> QED BY <1>7, <1>8

\* Every step of the owner and of the learners.
LEMMA MergeStepInv ==
    ASSUME MergeConstants, MergeInv, Merge!Next
    PROVE  MergeInv'
<1>1. ASSUME NEW o \in MergeCalls, Merge!OwnerStep(o) PROVE MergeInv'
    <2>1. ASSUME NEW c \in Pair2, NEW op \in {"preview", "complete", "rollback"},
                 Merge!Begin(o, op, c)
          PROVE  MergeInv'
        BY <2>1, BeginKeepsMerge
    <2>2. ASSUME NEW x \in Pair1, Merge!Promote(o, x) PROVE MergeInv'
        BY <2>2, PromoteKeeps
    <2>3. CASE Merge!ReadPreview(o) BY <2>3, ReadPreviewKeeps
    <2>4. CASE Merge!CapturePreview(o) BY <2>4, CapturePreviewKeeps
    <2>5. CASE Merge!WritePreview(o) BY <2>5, WritePreviewKeeps
    <2>6. CASE Merge!ReadComplete(o) BY <2>6, ReadCompleteKeeps
    <2>7. CASE Merge!CaptureComplete(o) BY <2>7, CaptureCompleteKeeps
    <2>8. CASE Merge!MergeBatch(o) BY <2>8, MergeBatchKeeps
    <2>9. CASE Merge!MergeFails(o) BY <2>9, MergeFailsKeeps
    <2>10. CASE Merge!ReadRollback(o) BY <2>10, ReadRollbackKeeps
    <2>11. CASE Merge!RestoreBatch(o) BY <2>11, RestoreBatchKeeps
    <2>12. CASE Merge!CallDies(o) BY <2>12, CallDiesKeeps
    <2> QED BY <1>1, <2>1, <2>2, <2>3, <2>4, <2>5, <2>6, <2>7, <2>8, <2>9, <2>10, <2>11, <2>12
            DEF Merge!OwnerStep
<1>2. ASSUME NEW x \in Pair1, Merge!LearnerStep(x) PROVE MergeInv'
    <2>1. ASSUME NEW e \in MergeEvidence, Merge!BeginImport(x, e) PROVE MergeInv'
        BY <2>1, BeginImportKeeps
    <2>2. CASE Merge!AppendImport(x) BY <2>2, AppendImportKeeps
    <2>3. CASE Merge!WriteProgress(x) BY <2>3, WriteProgressKeeps
    <2>4. CASE Merge!ImportDies(x) BY <2>4, ImportDiesKeeps
    <2>5. CASE Merge!ChangeAccount(x) BY <2>5, ChangeAccountKeeps
    <2>6. CASE Merge!ReadProgress(x) BY <2>6, ReadProgressKeeps
    <2> QED BY <1>2, <2>1, <2>2, <2>3, <2>4, <2>5, <2>6 DEF Merge!LearnerStep
<1>3. ASSUME NEW p \in Merge!Proofs, Merge!CreateProof(p) PROVE MergeInv'
    BY <1>3, CreateProofKeeps
<1>4. CASE Merge!ProofsExpire BY <1>4, ProofsExpireKeeps
<1> QED BY <1>1, <1>2, <1>3, <1>4 DEF Merge!Next

LEMMA MergeStutter ==
    ASSUME MergeConstants, MergeInv, UNCHANGED registers
    PROVE  MergeInv'
<1>1. MergeDatabase'
    <2>1. /\ r1' \in Moments /\ r1 <= r1' /\ r9' \in [MergeCalls -> MergeCallRows]
          /\ r10' \in [Pair1 -> ImportRows] /\ MergeDatabase
        BY DEF MergeInv, MergeDatabase, MergeTypes, Moments, MergeConstants, registers
    <2> QED BY <2>1, DatabaseStands DEF registers
<1>2. TakesTurns' BY DEF MergeInv, TakesTurns, registers
<1>3. ASSUME NEW o \in MergeCalls PROVE MergeCallFits(o)'
    <2>1. MergeCallFits(o) BY DEF MergeInv
    <2>2. Ahead(r9[o].now) => Ahead(r9[o].now)' BY DEF Ahead, Whose, registers
    <2> QED BY <2>1, <2>2 DEF MergeCallFits, Merge!Capture, Merge!Content, Merge!Mergeable,
            Merge!ChangedSince, registers
<1>4. ASSUME NEW x \in Pair1 PROVE ImportFits(x)'
    <2>1. ImportFits(x) BY DEF MergeInv
    <2>2. Ahead(r10[x].now) => Ahead(r10[x].now)' BY DEF Ahead, Whose, registers
    <2> QED BY <2>1, <2>2 DEF ImportFits, Merge!Resolve, registers
<1> QED BY <1>1, <1>2, <1>3, <1>4 DEF MergeInv

LEMMA MergeInvImplies ==
    ASSUME MergeConstants, MergeInv
    PROVE  /\ Merge!MergeTypeOK /\ Merge!MergeIsRecoverable /\ Merge!ConfirmedSurvives
           /\ Merge!AliasesAreFlat /\ Merge!ProofsServeOnce
<1>1. MergeTypes /\ MergeDatabase BY DEF MergeInv, MergeDatabase
<1>2. ASSUME NEW x \in Pair1
      PROVE  /\ r5[x] \in (Pair1 \ {x}) \cup {None} /\ (r5[x] = None <=> r6[x] = "none")
             /\ r5[x] # None => r4[r6[x]].status = "completed" /\ r5[r5[x]] = None
    <2>1. AliasFits(x) /\ r5[x] \in Pair1 \cup {None} /\ r6[x] \in Pair2 \cup {"none"}
        BY <1>1 DEF MergeDatabase, MergeTypes
    <2>2. ASSUME r5[x] # None PROVE r5[x] # x
        BY <2>1, <2>2 DEF AliasFits
    <2> QED BY <2>1, <2>2 DEF AliasFits
<1>3. Merge!MergeTypeOK
    BY <1>1, <1>2 DEF Merge!MergeTypeOK, MergeTypes, Moments
<1>4. Merge!MergeIsRecoverable /\ Merge!AliasesAreFlat
    BY <1>2 DEF Merge!MergeIsRecoverable, Merge!AliasesAreFlat
<1>5. Merge!ConfirmedSurvives
    <2>1. \A x \in Pair1 : Merge!Resolve(x) \in Pair1
        BY <1>1 DEF MergeTypes, Merge!Resolve
    <2> QED BY <1>1, <2>1, ShownHasTold DEF Merge!ConfirmedSurvives
<1>6. Merge!ProofsServeOnce BY <1>1 DEF MergeDatabase, ProofsSpent
<1> QED BY <1>3, <1>4, <1>5, <1>6

\* Whatever merges and rollbacks an owner runs one after the other, and wherever they and the
\* learners' imports die (worker.ts:3837-4640), for any number of accounts, cases, requests
\* and proofs: a merge in force has a completed case, nothing that an identity was told is
\* saved is lost, no alias leads to an alias and no proof serves two completions.
THEOREM MergesAreRecoverable == RecordsSpec => []MergeIsRecoverable
<1> DEFINE I == machine = "merge" => MergeInv
<1>1. RecordsInit => I
    BY MergeConstantsHold, MergeInitInv DEF RecordsInit
<1>2. I /\ [RecordsNext]_<<machine, registers>> => I'
    <2> SUFFICES ASSUME I, [RecordsNext]_<<machine, registers>>, machine' = "merge"
                 PROVE  MergeInv'
        OBVIOUS
    <2>1. machine = "merge" /\ MergeInv BY DEF RecordsNext
    <2>2. Merge!Next \/ UNCHANGED registers BY <2>1 DEF RecordsNext
    <2> QED BY <2>1, <2>2, MergeConstantsHold, MergeStepInv, MergeStutter
<1>3. I => MergeIsRecoverable
    BY MergeConstantsHold, MergeInvImplies DEF MergeIsRecoverable
<1> QED BY <1>1, <1>2, <1>3, PTL DEF RecordsSpec

-----------------------------------------------------------------------------
(***************************************************************************)
(* What a merge does to the rows of two accounts (MergeValues), for any    *)
(* two accounts whose rows are such as the tables permit.                  *)
(*                                                                         *)
(* The registers hold r1 the source, r2 the survivor, r3 whether somebody  *)
(* else is an owner, r4 the case, r5 the completion, r6 the edits.         *)
(***************************************************************************)

\* The owner has decided every conflict of the two accounts, and no policy forbids the merge.
Accepted(s, v) ==
    /\ r5.choice \in [Values!Conflicts(s, v) -> Values!Sides]
    /\ Values!PolicyBlocks(s, v) = {}

\* A preview shows the conflicts of the accounts it was made of; what a completion has read
\* is still so; after it the survivor is what the rows of both and the choices make it.
ValuesInv ==
    /\ r3 \in BOOLEAN /\ Values!OwnerRemains
    /\ r5.pc \in {"idle", "batch"}
    /\ r4.status \in {"none", "preview", "completed"}
    /\ r4.status # "completed" => Values!AccountRows(r1) /\ Values!AccountRows(r2)
    /\ r4.status = "none" => r4 = Values!NoCase /\ r5.pc = "idle"
    /\ r4.status = "preview" =>
          /\ r4 = [status |-> r4.status, conflicts |-> r4.conflicts, blocks |-> r4.blocks,
                   digest |-> r4.digest, was |-> r4.was]
          /\ r4.conflicts = Values!Conflicts(r4.digest[1], r4.digest[2])
          /\ r5.pc = "batch" => /\ Accepted(r1, r2)
                                /\ Values!SelectedOwner(r1, r2, r5.choice) \/ r3
    /\ r4.status = "completed" =>
          /\ Values!AccountRows(r4.was[1]) /\ Values!AccountRows(r4.was[2])
          /\ Accepted(r4.was[1], r4.was[2])
          /\ r2 = Values!Survivor(r4.was[1], r4.was[2], r5.choice)

-----------------------------------------------------------------------------
LEMMA LeastOfTwo ==
    ASSUME NEW a \in Nat, NEW b \in Nat
    PROVE  /\ Values!Min({a, b}) \in {a, b}
           /\ Values!Min({a, b}) <= a /\ Values!Min({a, b}) <= b
<1>1. \E x \in {a, b} : \A y \in {a, b} : x <= y OBVIOUS
<1>2. /\ Values!Min({a, b}) \in {a, b} /\ \A y \in {a, b} : Values!Min({a, b}) <= y
    BY <1>1 DEF Values!Min
<1> QED BY <1>2

LEMMA GreatestOfTwo ==
    ASSUME NEW a \in Nat, NEW b \in Nat
    PROVE  /\ Values!Max({a, b}) \in {a, b}
           /\ Values!Max({a, b}) >= a /\ Values!Max({a, b}) >= b
<1>1. \E x \in {a, b} : \A y \in {a, b} : x >= y OBVIOUS
<1>2. /\ Values!Max({a, b}) \in {a, b} /\ \A y \in {a, b} : Values!Max({a, b}) >= y
    BY <1>1 DEF Values!Max
<1> QED BY <1>2

\* The rows of a module: the earlier first visit, completed if either is, at the earlier time.
LEMMA ModuleIsKept ==
    ASSUME None \notin Nat, NEW r, NEW t, Values!ModuleFits(r), Values!ModuleFits(t),
           NEW m, m = Values!MergeModule(r, t)
    PROVE  /\ \A w \in {r, t} : w # None =>
                 /\ m.first <= w.first
                 /\ w.status = "completed" => m.status = "completed" /\ m.completed <= w.completed
           /\ m # None => (m.status = "completed" <=> m.completed # None)
<1>1. CASE r = None
    BY <1>1 DEF Values!ModuleFits, Values!MergeModule
<1>2. CASE r # None /\ t = None
    BY <1>2 DEF Values!ModuleFits, Values!MergeModule
<1>3. CASE r # None /\ t # None
    <2>1. /\ m.status = IF "completed" \in {r.status, t.status} THEN "completed" ELSE "visited"
          /\ m.first = Values!Min({r.first, t.first})
          /\ m.completed = Values!Least(r.completed, t.completed)
        BY <1>3 DEF Values!MergeModule
    <2>2. /\ r.first \in Nat /\ t.first \in Nat
          /\ r.completed \in Nat \cup {None} /\ t.completed \in Nat \cup {None}
          /\ r.status \in {"visited", "completed"} /\ t.status \in {"visited", "completed"}
          /\ r.status = "completed" <=> r.completed # None
          /\ t.status = "completed" <=> t.completed # None
        BY <1>3 DEF Values!ModuleFits
    <2>3. m.first <= r.first /\ m.first <= t.first
        BY <2>1, <2>2, LeastOfTwo
    <2>4. CASE r.completed = None
        BY <2>1, <2>2, <2>3, <2>4 DEF Values!Least
    <2>5. CASE r.completed # None /\ t.completed = None
        BY <2>1, <2>2, <2>3, <2>5 DEF Values!Least
    <2>6. CASE r.completed # None /\ t.completed # None
        <3>1. m.completed = Values!Min({r.completed, t.completed})
            BY <2>1, <2>6 DEF Values!Least
        <3>2. /\ m.completed <= r.completed /\ m.completed <= t.completed
              /\ m.completed \in Nat
            BY <2>2, <2>6, <3>1, LeastOfTwo
        <3> QED BY <2>1, <2>2, <2>3, <2>6, <3>2
    <2> QED BY <2>4, <2>5, <2>6
<1> QED BY <1>1, <1>2, <1>3

\* The rows of a transcript: no count is lowered, and none exceeds the total.
LEMMA TranscriptIsKept ==
    ASSUME NEW r, NEW t, Values!TranscriptFits(r), Values!TranscriptFits(t),
           NEW m, m = Values!MergeTranscript(r, t)
    PROVE  \A w \in {r, t} : w # None => m.done >= w.done /\ m.done <= m.total
<1>1. CASE r = None
    BY <1>1 DEF Values!TranscriptFits, Values!MergeTranscript
<1>2. CASE r # None /\ t = None
    BY <1>2 DEF Values!TranscriptFits, Values!MergeTranscript
<1>3. CASE r # None /\ t # None
    <2>1. /\ m.done = Values!Max({r.done, t.done}) /\ m.total = Values!Max({r.total, t.total})
        BY <1>3 DEF Values!MergeTranscript
    <2>2. /\ r.done \in Nat /\ t.done \in Nat /\ r.total \in Nat /\ t.total \in Nat
          /\ r.done <= r.total /\ t.done <= t.total
        BY <1>3 DEF Values!TranscriptFits
    <2>3. /\ m.done \in {r.done, t.done} /\ m.done >= r.done /\ m.done >= t.done
        BY <2>1, <2>2, GreatestOfTwo
    <2>4. /\ m.total \in Nat /\ m.total >= r.total /\ m.total >= t.total
        BY <2>1, <2>2, GreatestOfTwo
    <2> QED BY <2>2, <2>3, <2>4
<1> QED BY <1>1, <1>2, <1>3

\* The attempts of both accounts, none lost and no two with one name.
LEMMA AttemptsAreKept ==
    ASSUME NEW S, NEW V, Values!AttemptsFit(S), Values!AttemptsFit(V),
           NEW M, M = Values!MergeAttempts(S, V)
    PROVE  /\ Cardinality(M) = Cardinality(S) + Cardinality(V)
           /\ \A t, u \in M : t.id = u.id /\ t.prefixed = u.prefixed => t = u
<1> DEFINE Taken(t) == \E w \in V : w.id = t.id /\ w.prefixed = t.prefixed
           Moved(t) == [t EXCEPT !.prefixed = @ \/ Taken(t)]
           f == [t \in S |-> Moved(t)]
           T == {Moved(t) : t \in S}
<1>1. M = V \cup T
    BY DEF Values!MergeAttempts
<1>2. \A t \in S \cup V : t = [id |-> t.id, prefixed |-> FALSE]
    BY DEF Values!AttemptsFit
<1>3. ASSUME NEW t \in S PROVE Moved(t) = [id |-> t.id, prefixed |-> Taken(t)]
    <2>1. t = [id |-> t.id, prefixed |-> FALSE] BY <1>2
    <2>2. t.prefixed = FALSE BY <2>1
    <2>3. (t.prefixed \/ Taken(t)) = Taken(t) BY <2>2
    <2>4. Moved(t) = [t EXCEPT !.prefixed = Taken(t)] BY <2>3
    <2> HIDE DEF Taken, Moved
    <2> QED BY <2>1, <2>4
<1>4. \A t \in S : Taken(t) <=> \E w \in V : w.id = t.id
    BY <1>2
<1> HIDE DEF Taken, Moved
<1>5. ASSUME NEW t \in S PROVE Moved(t) \notin V
    <2>1. SUFFICES ASSUME Moved(t) \in V PROVE FALSE OBVIOUS
    <2>2. Moved(t).prefixed = FALSE /\ Moved(t).id = t.id BY <1>2, <1>3, <2>1
    <2>3. Taken(t) BY <1>4, <2>1, <2>2
    <2> QED BY <1>3, <2>2, <2>3
<1>6. ASSUME NEW t \in S, NEW u \in S, Moved(t) = Moved(u) PROVE t = u
    <2>1. t.id = u.id BY <1>3, <1>6
    <2> QED BY <1>2, <2>1
<1>7. IsFiniteSet(S) /\ IsFiniteSet(V)
    BY DEF Values!AttemptsFit, Values!IsFiniteSet, IsFiniteSet
<1>8. IsFiniteSet(T) /\ Cardinality(T) = Cardinality(S)
    <2>1. f \in Bijection(S, T)
        BY <1>6 DEF Bijection, Injection, Surjection, IsInjective
    <2> QED BY <1>7, <2>1, FS_Bijection DEF ExistsBijection
<1>9. V \cap T = {} BY <1>5
<1>10. Cardinality(M) = Cardinality(S) + Cardinality(V)
    <2>1. Cardinality(V \cup T) = Cardinality(V) + Cardinality(T) - Cardinality(V \cap T)
        BY <1>7, <1>8, FS_Union
    <2>2. Cardinality(V \cap T) = 0 BY <1>9, FS_EmptySet
    <2>3. Cardinality(S) \in Nat /\ Cardinality(V) \in Nat BY <1>7, FS_CardinalityType
    <2> QED BY <1>1, <1>8, <2>1, <2>2, <2>3
<1>11. ASSUME NEW t \in M, NEW u \in M, t.id = u.id, t.prefixed = u.prefixed PROVE t = u
    <2>1. CASE t \in V /\ u \in V BY <1>2, <1>11, <2>1
    <2>2. ASSUME NEW x \in S, t = Moved(x), u \in V PROVE FALSE
        <3>1. u.id = x.id /\ ~u.prefixed BY <1>2, <1>3, <1>11, <2>2
        <3>2. Taken(x) BY <1>4, <2>2, <3>1
        <3> QED BY <1>3, <1>11, <2>2, <3>1, <3>2
    <2>3. ASSUME NEW x \in S, u = Moved(x), t \in V PROVE FALSE
        <3>1. t.id = x.id /\ ~t.prefixed BY <1>2, <1>3, <1>11, <2>3
        <3>2. Taken(x) BY <1>4, <2>3, <3>1
        <3> QED BY <1>3, <1>11, <2>3, <3>1, <3>2
    <2>4. CASE t \in T /\ u \in T
        <3>1. PICK x \in S : t = Moved(x) BY <2>4
        <3>2. PICK y \in S : u = Moved(y) BY <2>4
        <3>3. x.id = y.id BY <1>3, <1>11, <3>1, <3>2
        <3> QED BY <1>2, <3>1, <3>2, <3>3
    <2> QED BY <1>1, <2>1, <2>2, <2>3, <2>4
<1> QED BY <1>10, <1>11

-----------------------------------------------------------------------------
\* A merge that no policy forbids: both accounts have the required consent as it is now.
Consents(a) ==
    /\ Values!Current(a) # {}
    /\ \A c \in Values!Current(a) : c.version = Values!Required /\ c.decision # "withdrawn"

LEMMA ConsentBlockEmpty ==
    ASSUME NEW a PROVE Values!ConsentBlock(a) = {} <=> Consents(a)
<1> DEFINE C == Values!Current(a)
           W == \E c \in C : c.version = Values!Required /\ c.decision = "withdrawn"
           O == \E c \in C : c.version # Values!Required
<1>1. CASE C = {} BY <1>1 DEF Values!ConsentBlock, Consents
<1>2. CASE C # {} /\ W BY <1>2 DEF Values!ConsentBlock, Consents
<1>3. CASE C # {} /\ ~W /\ O BY <1>3 DEF Values!ConsentBlock, Consents
<1>4. CASE C # {} /\ ~W /\ ~O BY <1>4 DEF Values!ConsentBlock, Consents
<1> QED BY <1>1, <1>2, <1>3, <1>4

LEMMA PolicyIsClear ==
    ASSUME NEW s, NEW v, s.held \in BOOLEAN, v.held \in BOOLEAN
    PROVE  Values!PolicyBlocks(s, v) = {} <=>
              Consents(s) /\ Consents(v) /\ ~s.held /\ ~v.held
<1> DEFINE Of(a) == Values!ConsentBlock(IF a = "source" THEN s ELSE v)
                    \cup {h \in {"legal-hold-active"} : IF a = "source" THEN s.held ELSE v.held}
<1>1. Values!PolicyBlocks(s, v) = UNION {{<<a, r>> : r \in Of(a)} : a \in Values!Sides}
    BY DEF Values!PolicyBlocks
<1>2. Values!PolicyBlocks(s, v) = {} <=> \A a \in Values!Sides : Of(a) = {}
    <2> HIDE DEF Of
    <2>1. ASSUME NEW a \in Values!Sides, NEW r \in Of(a)
          PROVE  <<a, r>> \in Values!PolicyBlocks(s, v)
        BY <1>1
    <2>2. ASSUME NEW b \in Values!PolicyBlocks(s, v)
          PROVE  \E a \in Values!Sides : \E r \in Of(a) : b = <<a, r>>
        BY <1>1
    <2> QED BY <2>1, <2>2
<1>3. Of("source") = {} <=> Consents(s) /\ ~s.held BY ConsentBlockEmpty
<1>4. Of("survivor") = {} <=> Consents(v) /\ ~v.held BY ConsentBlockEmpty
<1> QED BY <1>2, <1>3, <1>4 DEF Values!Sides

\* The newest decisions of two accounts together are among the newest of each.
LEMMA ConsentsJoin ==
    ASSUME NEW s, NEW v, NEW u, u.consents = s.consents \cup v.consents,
           \A c \in u.consents : c.at \in Nat, Consents(s), Consents(v)
    PROVE  Consents(u)
<1>1. PICK c \in s.consents : \A d \in s.consents : d.at <= c.at
    BY DEF Consents, Values!Current
<1>2. PICK e \in v.consents : \A d \in v.consents : d.at <= e.at
    BY DEF Consents, Values!Current
<1>3. Values!Current(u) # {}
    <2>1. CASE c.at >= e.at
        <3>1. c \in Values!Current(u) BY <1>1, <1>2, <2>1 DEF Values!Current
        <3> QED BY <3>1
    <2>2. CASE e.at >= c.at
        <3>1. e \in Values!Current(u) BY <1>1, <1>2, <2>2 DEF Values!Current
        <3> QED BY <3>1
    <2>3. c.at \in Nat /\ e.at \in Nat BY <1>1, <1>2
    <2> QED BY <2>1, <2>2, <2>3
<1>4. Values!Current(u) \subseteq Values!Current(s) \cup Values!Current(v)
    BY DEF Values!Current
<1> QED BY <1>3, <1>4 DEF Consents

-----------------------------------------------------------------------------
\* What completes a case: two accounts, the owner's choices, no policy against it.
LEMMA ConflictsAreChosen ==
    ASSUME NEW s, NEW v, Accepted(s, v)
    PROVE  /\ DOMAIN r5.choice = Values!Conflicts(s, v)
           /\ \A k \in Values!Conflicts(s, v) : r5.choice[k] \in Values!Sides
BY DEF Accepted

LEMMA ConflictOfValues ==
    ASSUME NEW s, NEW v, NEW k \in {"mail", "bio", "motion", "photo"}
    PROVE  k \in Values!Conflicts(s, v) <=>
              /\ Values!Column(s, k) # None /\ Values!Column(v, k) # None
              /\ Values!Column(s, k) # Values!Column(v, k)
BY DEF Values!Conflicts, Values!Keys, Values!Present

\* A column of the survivor: the only value there is, or the chosen one of two.
Selected(a, b, k, x) ==
    /\ a # None /\ b = None => x = a
    /\ b # None /\ a = None => x = b
    /\ a # None /\ b # None => x = IF a = b THEN b
                                   ELSE IF r5.choice[k] = "source" THEN a ELSE b

LEMMA ValueIsSelected ==
    ASSUME NEW s, NEW v, Accepted(s, v), NEW k \in {"mail", "bio", "motion", "photo"},
           NEW a, NEW b, a = Values!Column(s, k), b = Values!Column(v, k)
    PROVE  Selected(a, b, k, Values!SelectMergeValue(k, a, b, r5.choice))
<1>1. k \in DOMAIN r5.choice <=> a # None /\ b # None /\ a # b
    BY ConflictsAreChosen, ConflictOfValues
<1>2. k \in DOMAIN r5.choice => r5.choice[k] \in {"source", "survivor"}
    BY ConflictsAreChosen DEF Values!Sides
<1>3. CASE a = None \/ b = None
    BY <1>3 DEF Selected, Values!SelectMergeValue, Values!Present
<1>4. CASE a # None /\ b # None /\ a = b
    BY <1>4 DEF Selected, Values!SelectMergeValue, Values!Present
<1>5. CASE a # None /\ b # None /\ a # b
    BY <1>1, <1>2, <1>5 DEF Selected, Values!SelectMergeValue, Values!Present
<1> QED BY <1>3, <1>4, <1>5

LEMMA PhotoIsSelected ==
    ASSUME NEW s, NEW v, Accepted(s, v)
    PROVE  Selected(Values!Column(s, "photo"), Values!Column(v, "photo"), "photo",
                    Values!SelectedPhoto(s, v, r5.choice))
<1> DEFINE a == Values!Column(s, "photo")
           b == Values!Column(v, "photo")
           x == Values!SelectedPhoto(s, v, r5.choice)
<1>1. "photo" \in DOMAIN r5.choice <=> a # None /\ b # None /\ a # b
    BY ConflictsAreChosen, ConflictOfValues
<1>2. "photo" \in DOMAIN r5.choice => r5.choice["photo"] \in {"source", "survivor"}
    BY ConflictsAreChosen DEF Values!Sides
<1>3. CASE "photo" \in DOMAIN r5.choice
    <2>1. x = IF r5.choice["photo"] = "source" THEN a ELSE b
        BY <1>2, <1>3 DEF Values!SelectedPhoto
    <2> QED BY <1>1, <1>3, <2>1 DEF Selected
<1>4. CASE "photo" \notin DOMAIN r5.choice
    <2>1. x = IF b # None THEN b ELSE a
        BY <1>4 DEF Values!SelectedPhoto, Values!Present
    <2> QED BY <1>1, <1>4, <2>1 DEF Selected
<1> QED BY <1>3, <1>4

\* What the preview shows of the flag is what is compared, if both profiles exist or neither.
LEMMA MotionIsSelected ==
    ASSUME None \notin Nat, NEW s, NEW v, Values!AccountRows(s), Values!AccountRows(v), Accepted(s, v),
           s.profile = v.profile
    PROVE  Selected(Values!Column(s, "motion"), Values!Column(v, "motion"), "motion",
                    Values!SelectMergeValue("motion", Values!WithDefault(s, "motion"),
                                            Values!WithDefault(v, "motion"), r5.choice))
<1>1. s.profile \in BOOLEAN /\ s.motion \in {0, 1} /\ v.motion \in {0, 1}
    BY DEF Values!AccountRows
<1>2. CASE s.profile
    <2>1. Values!Column(s, "motion") = s.motion /\ Values!Column(v, "motion") = v.motion
        BY <1>2 DEF Values!Column
    <2>2. s.motion # None /\ v.motion # None BY <1>1
    <2>3. /\ Values!WithDefault(s, "motion") = Values!Column(s, "motion")
          /\ Values!WithDefault(v, "motion") = Values!Column(v, "motion")
        BY <2>1, <2>2 DEF Values!WithDefault
    <2> QED BY <2>3, ValueIsSelected
<1>3. CASE ~s.profile
    <2>1. Values!Column(s, "motion") = None /\ Values!Column(v, "motion") = None
        BY <1>3 DEF Values!Column
    <2> QED BY <2>1 DEF Selected
<1> QED BY <1>1, <1>2, <1>3

-----------------------------------------------------------------------------
\* The survivor of a completed case, one column or table at a time.
SurvivorFits(s, v, u) ==
    /\ u.mail = Values!SelectMergeValue("mail", s.mail, v.mail, r5.choice)
    /\ u.verified = Values!SelectedVerified(s, v, u.mail)
    /\ u.bio = Values!SelectMergeValue("bio", Values!Column(s, "bio"),
                                       Values!Column(v, "bio"), r5.choice)
    /\ u.motion = Values!SelectMergeValue("motion", Values!WithDefault(s, "motion"),
                                          Values!WithDefault(v, "motion"), r5.choice)
    /\ u.photo = Values!SelectedPhoto(s, v, r5.choice)
    /\ u.owner = Values!SelectedOwner(s, v, r5.choice)
    /\ u.consents = s.consents \cup v.consents
    /\ u.held = (s.held \/ v.held)
    /\ u.module = Values!MergeModule(s.module, v.module)
    /\ \A w \in {s, v} : w.badge # None => w.badge.evidence \subseteq u.badge.evidence
    /\ u.transcript = Values!MergeTranscript(s.transcript, v.transcript)
    /\ u.attempts = Values!MergeAttempts(s.attempts, v.attempts)

LEMMA SurvivorRows ==
    ASSUME NEW s, NEW v
    PROVE  SurvivorFits(s, v, Values!Survivor(s, v, r5.choice))
<1> DEFINE u == Values!Survivor(s, v, r5.choice)
<1>1. u.badge = Values!MergeBadge(s.badge, v.badge) BY DEF Values!Survivor
<1>2. \A w \in {s, v} : w.badge # None => w.badge.evidence \subseteq u.badge.evidence
    BY <1>1 DEF Values!MergeBadge
<1> QED BY <1>2 DEF SurvivorFits, Values!Survivor

LEMMA SurvivorIsSound ==
    ASSUME None \notin Nat, Values!Done, NEW s, NEW v, s = Values!Was("source"),
           v = Values!Was("survivor"), Values!AccountRows(s), Values!AccountRows(v), Accepted(s, v),
           r2 = Values!Survivor(s, v, r5.choice)
    PROVE  /\ Values!ValuesAreChosen /\ Values!VerifiedWasVerified
           /\ Values!RecordsAreKept /\ Values!PolicyHolds
<1>0. SurvivorFits(s, v, r2) BY SurvivorRows
<1>1. Values!ValuesAreChosen
    <2>1. SUFFICES
             ASSUME NEW k \in {"mail", "bio", "motion", "photo"}, ~Values!Undecided(k)
             PROVE  Selected(Values!Column(s, k), Values!Column(v, k), k, r2[k])
        <3>1. ASSUME NEW k \in {"mail", "bio", "motion", "photo"},
                     Selected(Values!Column(s, k), Values!Column(v, k), k, r2[k])
              PROVE  LET a == Values!Column(Values!Was("source"), k)
                         b == Values!Column(Values!Was("survivor"), k)
                     IN /\ Values!Present(a) /\ ~Values!Present(b) => r2[k] = a
                        /\ Values!Present(b) /\ ~Values!Present(a) => r2[k] = b
                        /\ Values!Present(a) /\ Values!Present(b) =>
                              r2[k] = IF a = b THEN b
                                      ELSE Values!Column(Values!Was(r5.choice[k]), k)
            <4> DEFINE a == Values!Column(s, k)
                       b == Values!Column(v, k)
            <4>1. a # None /\ b # None /\ a # b => r5.choice[k] \in {"source", "survivor"}
                BY ConflictsAreChosen, ConflictOfValues DEF Values!Sides
            <4>2. /\ Values!Column(Values!Was("source"), k) = a
                  /\ Values!Column(Values!Was("survivor"), k) = b
                OBVIOUS
            <4>3. a # None /\ b # None /\ a # b =>
                     Values!Column(Values!Was(r5.choice[k]), k)
                     = IF r5.choice[k] = "source" THEN a ELSE b
                BY <4>1, <4>2
            <4> QED BY <3>1, <4>2, <4>3 DEF Selected, Values!Present
        <3>2. \A k \in {"mail", "bio", "motion", "photo"} \ {x \in Values!Keys : Values!Undecided(x)} :
                 k \in {"mail", "bio", "motion", "photo"} /\ ~Values!Undecided(k)
            BY DEF Values!Keys
        <3> QED BY <2>1, <3>1, <3>2 DEF Values!ValuesAreChosen
    <2>2. CASE k = "mail"
        <3>1. Values!Column(s, k) = s.mail /\ Values!Column(v, k) = v.mail
            BY <2>2 DEF Values!Column
        <3> QED BY <1>0, <2>2, <3>1, ValueIsSelected DEF SurvivorFits
    <2>3. CASE k = "bio" BY <1>0, <2>3, ValueIsSelected DEF SurvivorFits
    <2>4. CASE k = "motion"
        <3>1. s.profile = v.profile BY <2>1, <2>4 DEF Values!Undecided
        <3> QED BY <1>0, <2>4, <3>1, MotionIsSelected DEF SurvivorFits
    <2>5. CASE k = "photo" BY <1>0, <2>5, PhotoIsSelected DEF SurvivorFits
    <2> QED BY <2>2, <2>3, <2>4, <2>5
<1>2. Values!VerifiedWasVerified
    <2>1. r2.mail \in {s.mail, v.mail} BY <1>0 DEF SurvivorFits, Values!SelectMergeValue
    <2>2. s.verified \in BOOLEAN /\ v.verified \in BOOLEAN BY DEF Values!AccountRows
    <2>3. r2.verified =>
             (s.verified /\ s.mail = r2.mail) \/ (v.verified /\ v.mail = r2.mail)
        <3>1. CASE r2.mail = s.mail /\ r2.mail = v.mail
            BY <1>0, <2>2, <3>1 DEF SurvivorFits, Values!SelectedVerified
        <3>2. CASE r2.mail = s.mail /\ r2.mail # v.mail
            BY <1>0, <2>2, <3>2 DEF SurvivorFits, Values!SelectedVerified
        <3>3. CASE r2.mail # s.mail /\ r2.mail = v.mail
            BY <1>0, <2>2, <3>3 DEF SurvivorFits, Values!SelectedVerified
        <3> QED BY <2>1, <3>1, <3>2, <3>3
    <2> QED BY <2>3 DEF Values!VerifiedWasVerified, Values!Sides
<1>3. Values!RecordsAreKept
    <2>1. /\ Values!ModuleFits(s.module) /\ Values!ModuleFits(v.module)
          /\ Values!TranscriptFits(s.transcript) /\ Values!TranscriptFits(v.transcript)
          /\ Values!AttemptsFit(s.attempts) /\ Values!AttemptsFit(v.attempts)
        BY DEF Values!AccountRows
    <2>2. \A side \in Values!Sides : Values!Was(side) \in {s, v}
        BY DEF Values!Sides
    <2>3. /\ \A w \in {s, v} : w.module # None =>
                /\ r2.module.first <= w.module.first
                /\ w.module.status = "completed" =>
                      r2.module.status = "completed" /\ r2.module.completed <= w.module.completed
          /\ r2.module # None => (r2.module.status = "completed" <=> r2.module.completed # None)
        <3>1. r2.module = Values!MergeModule(s.module, v.module) BY <1>0 DEF SurvivorFits
        <3> QED BY <2>1, <3>1, ModuleIsKept
    <2>4. \A w \in {s, v} : w.transcript # None =>
             r2.transcript.done >= w.transcript.done /\ r2.transcript.done <= r2.transcript.total
        <3>1. r2.transcript = Values!MergeTranscript(s.transcript,
            v.transcript) BY <1>0 DEF SurvivorFits
        <3> QED BY <2>1, <3>1, TranscriptIsKept
    <2>5. /\ Cardinality(r2.attempts) = Cardinality(s.attempts) + Cardinality(v.attempts)
          /\ \A t, u \in r2.attempts : t.id = u.id /\ t.prefixed = u.prefixed => t = u
        <3>1. r2.attempts = Values!MergeAttempts(s.attempts, v.attempts) BY <1>0 DEF SurvivorFits
        <3> QED BY <2>1, <3>1, AttemptsAreKept
    <2>6. \A w \in {s, v} : /\ w.badge # None => w.badge.evidence \subseteq r2.badge.evidence
                            /\ w.consents \subseteq r2.consents
        BY <1>0 DEF SurvivorFits
    <2>7. \A S : Values!Cardinality(S) = Cardinality(S)
        BY DEF Values!Cardinality, Cardinality
    <2>8. SUFFICES ASSUME NEW side \in Values!Sides, NEW w, w = Values!Was(side)
          PROVE  /\ w.module # None =>
                       /\ r2.module.first <= w.module.first
                       /\ w.module.status = "completed" =>
                             /\ r2.module.status = "completed"
                             /\ r2.module.completed <= w.module.completed
                 /\ w.badge # None => w.badge.evidence \subseteq r2.badge.evidence
                 /\ w.transcript # None => /\ r2.transcript.done >= w.transcript.done
                                           /\ r2.transcript.done <= r2.transcript.total
                 /\ w.consents \subseteq r2.consents
        BY <2>3, <2>5, <2>7, <2>8 DEF Values!RecordsAreKept, Values!Present
    <2> QED BY <2>2, <2>3, <2>4, <2>6, <2>8
<1>4. Values!PolicyHolds
    <2>1. s.held \in BOOLEAN /\ v.held \in BOOLEAN /\ \A c \in s.consents \cup v.consents : c.at \in Nat
        BY DEF Values!AccountRows
    <2>2. Consents(s) /\ Consents(v) /\ ~s.held /\ ~v.held
        BY <2>1, PolicyIsClear DEF Accepted
    <2>3. r2.consents = s.consents \cup v.consents /\ r2.held = FALSE
        BY <1>0, <2>1, <2>2 DEF SurvivorFits
    <2>4. Consents(r2) BY <2>1, <2>2, <2>3, ConsentsJoin
    <2>5. Values!PolicyBlocks(r2, r2) = {}
        <3>1. r2.held \in BOOLEAN BY <2>3
        <3> QED BY <2>3, <2>4, <3>1, PolicyIsClear
    <2> QED BY <2>5 DEF Values!PolicyHolds
<1> QED BY <1>1, <1>2, <1>3, <1>4

-----------------------------------------------------------------------------
\* A column that gets an admissible value.
LEMMA ColumnKeepsRows ==
    ASSUME NEW a, Values!AccountRows(a), NEW k \in Values!Columns, NEW x,
           k \in {"verified", "profile", "owner", "held"} => x \in BOOLEAN,
           k = "motion" => x \in {0, 1}, k = "consents" => \A c \in x : c.at \in Nat,
           k = "module" => Values!ModuleFits(x), k = "transcript" => Values!TranscriptFits(x),
           k = "attempts" => Values!AttemptsFit(x)
    PROVE  Values!AccountRows([a EXCEPT ![k] = x])
<1> DEFINE b == [a EXCEPT ![k] = x]
<1>1. b = [j \in Values!Columns |-> b[j]] BY DEF Values!AccountRows
<1>2. \A j \in Values!Columns : b[j] = IF j = k THEN x ELSE a[j] BY DEF Values!AccountRows
<1> HIDE DEF b
<1>3. Values!AccountRows(b) BY <1>1, <1>2 DEF Values!AccountRows, Values!Columns
<1> QED BY <1>3 DEF b

valueRegisters == <<r1, r2, r3, r4, r5, r6>>

LEMMA ValuesInitInv ==
    ASSUME Values!ValuesConstants, Values!ValuesInit
    PROVE  ValuesInv
<1>1. PICK p \in MergeStarts : r1 = p[1] /\ r2 = p[2]
    BY DEF Values!ValuesInit
<1>2. Values!AccountRows(r1) /\ Values!AccountRows(r2) BY <1>1 DEF Values!ValuesConstants
<1> QED BY <1>2 DEF ValuesInv, Values!ValuesInit, Values!NoCase, Values!NoCall,
        Values!OwnerRemains

LEMMA EditKeepsRows ==
    ASSUME NEW a, Values!AccountRows(a)
    PROVE  /\ \A v \in {0, 1} : LET b == [a EXCEPT !.profile = TRUE, !.motion = v]
                               IN Values!AccountRows(b) /\ b.owner = a.owner
           /\ \A c : c.at \in Nat => LET b == [a EXCEPT !.consents = a.consents \cup {c}]
                                    IN Values!AccountRows(b) /\ b.owner = a.owner
           /\ LET b == [a EXCEPT !.held = TRUE] IN Values!AccountRows(b) /\ b.owner = a.owner
<1>1. ASSUME NEW v \in {0, 1}, NEW b, b = [a EXCEPT !.profile = TRUE, !.motion = v]
      PROVE  Values!AccountRows(b) /\ b.owner = a.owner
    <2> DEFINE d == [a EXCEPT !["profile"] = TRUE]
    <2>1. Values!AccountRows(d) BY ColumnKeepsRows DEF Values!Columns
    <2>2. b = [d EXCEPT !["motion"] = v] BY <1>1
    <2>3. b.owner = a.owner BY <1>1 DEF Values!AccountRows, Values!Columns
    <2> HIDE DEF d
    <2>4. Values!AccountRows(b) BY <2>1, <2>2, ColumnKeepsRows DEF Values!Columns
    <2> QED BY <2>3, <2>4
<1>2. ASSUME NEW c, c.at \in Nat, NEW b, b = [a EXCEPT !.consents = a.consents \cup {c}]
      PROVE  Values!AccountRows(b) /\ b.owner = a.owner
    <2>1. \A e \in a.consents \cup {c} : e.at \in Nat BY <1>2 DEF Values!AccountRows
    <2>2. Values!AccountRows(b) BY <1>2, <2>1, ColumnKeepsRows DEF Values!Columns
    <2>3. b.owner = a.owner BY <1>2 DEF Values!AccountRows, Values!Columns
    <2> QED BY <2>2, <2>3
<1>3. ASSUME NEW b, b = [a EXCEPT !.held = TRUE]
      PROVE  Values!AccountRows(b) /\ b.owner = a.owner
    <2>1. Values!AccountRows(b) BY <1>3, ColumnKeepsRows DEF Values!Columns
    <2>2. b.owner = a.owner BY <1>3 DEF Values!AccountRows, Values!Columns
    <2> QED BY <2>1, <2>2
<1> QED BY <1>1, <1>2, <1>3

\* What a completion answers for depends on the accounts and the choices only.
LEMMA AcceptedStays ==
    ASSUME NEW s, NEW v, r5' = r5
    PROVE  Accepted(s, v)' <=> Accepted(s, v)
BY DEF Accepted

LEMMA ValuesStepInv ==
    ASSUME None \notin Nat, ValuesInv, Values!ValuesNext
    PROVE  ValuesInv'
<1>1. CASE Values!Preview
    <2>1. /\ r4' = [Values!NoCase EXCEPT !.status = "preview",
                      !.conflicts = Values!Conflicts(r1, r2),
                      !.blocks = Values!PolicyBlocks(r1, r2), !.digest = <<r1, r2>>]
          /\ r4.status = "none" /\ UNCHANGED <<r1, r2, r3, r5, r6>>
        BY <1>1 DEF Values!Preview
    <2>2. /\ r4'.status = "preview" /\ r4'.conflicts = Values!Conflicts(r1, r2)
          /\ r4'.digest[1] = r1 /\ r4'.digest[2] = r2
          /\ r4' = [status |-> r4'.status, conflicts |-> r4'.conflicts, blocks |-> r4'.blocks,
                    digest |-> r4'.digest, was |-> r4'.was]
        BY <2>1 DEF Values!NoCase
    <2> QED BY <2>1, <2>2 DEF ValuesInv, Values!OwnerRemains
<1>2. CASE Values!Edit
    <2>1. /\ r4.status = "preview" /\ r5.pc = "idle" /\ UNCHANGED <<r1, r3, r4, r5>>
        BY <1>2 DEF Values!Edit
    <2>2. Values!AccountRows(r1) /\ Values!AccountRows(r2) BY <2>1 DEF ValuesInv
    <2>3. Values!AccountRows(r2') /\ r2'.owner = r2.owner
        <3>1. CASE \E v \in {0, 1} : r2' = [r2 EXCEPT !.profile = TRUE, !.motion = v]
            <4>1. PICK v \in {0, 1} : r2' = [r2 EXCEPT !.profile = TRUE, !.motion = v]
                BY <3>1
            <4>2. LET b == [r2 EXCEPT !.profile = TRUE, !.motion = v]
                  IN Values!AccountRows(b) /\ b.owner = r2.owner
                BY <2>2, EditKeepsRows
            <4> QED BY <4>1, <4>2
        <3>2. CASE \E d \in {"granted", "withdrawn"} :
                     r2' = [r2 EXCEPT !.consents = r2.consents \cup
                              {[at |-> 3, version |-> Values!Required, decision |-> d]}]
            <4>1. PICK d \in {"granted", "withdrawn"} :
                     r2' = [r2 EXCEPT !.consents = r2.consents \cup
                              {[at |-> 3, version |-> Values!Required, decision |-> d]}]
                BY <3>2
            <4> DEFINE c == [at |-> 3, version |-> Values!Required, decision |-> d]
            <4>2. c.at \in Nat OBVIOUS
            <4>3. LET b == [r2 EXCEPT !.consents = r2.consents \cup {c}]
                  IN Values!AccountRows(b) /\ b.owner = r2.owner
                <5> HIDE DEF c
                <5> QED BY <2>2, <4>2, EditKeepsRows
            <4> QED BY <4>1, <4>3
        <3>3. CASE r2' = [r2 EXCEPT !.held = TRUE]
            BY <2>2, <3>3, EditKeepsRows
        <3> QED BY <1>2, <3>1, <3>2, <3>3 DEF Values!Edit
    <2>4. Values!AccountRows(r1)' /\ Values!AccountRows(r2)'
        BY <2>1, <2>2, <2>3 DEF Values!AccountRows, Values!ModuleFits, Values!TranscriptFits,
           Values!AttemptsFit
    <2> QED BY <2>1, <2>3, <2>4 DEF ValuesInv, Values!OwnerRemains
<1>3. CASE Values!OtherMerge
    <2>1. /\ r5.pc = "idle" /\ (r1.owner \/ r2.owner) /\ r3' = FALSE
          /\ UNCHANGED <<r1, r2, r4, r5, r6>>
        BY <1>3 DEF Values!OtherMerge
    <2> QED BY <2>1 DEF ValuesInv, Values!OwnerRemains, Accepted
<1>4. CASE Values!CompleteBatch
    <2>1. /\ r5.pc = "batch" /\ r4.status = "preview" /\ UNCHANGED <<r3, r5, r6>>
          /\ r2' = Values!Survivor(r1, r2, r5.choice)
          /\ r4' = [r4 EXCEPT !.status = "completed", !.was = <<r1, r2>>]
        BY <1>4 DEF Values!CompleteBatch
    <2>2. /\ r4'.status = "completed" /\ r4'.was[1] = r1 /\ r4'.was[2] = r2
        BY <2>1 DEF ValuesInv
    <2>3. /\ Values!AccountRows(r1) /\ Values!AccountRows(r2) /\ Accepted(r1, r2)
          /\ Values!SelectedOwner(r1, r2, r5.choice) \/ r3
        BY <2>1 DEF ValuesInv
    <2>4. Values!OwnerRemains'
        <3>1. r2'.owner = Values!SelectedOwner(r1, r2, r5.choice)
            BY <2>1, SurvivorRows DEF SurvivorFits
        <3> QED BY <2>1, <2>3, <3>1 DEF Values!OwnerRemains
    <2>5. /\ Values!AccountRows(r4.was[1])' /\ Values!AccountRows(r4.was[2])'
          /\ Accepted(r4.was[1], r4.was[2])'
          /\ r2' = Values!Survivor(r4'.was[1], r4'.was[2], r5'.choice)
        BY <2>1, <2>2, <2>3 DEF Values!AccountRows, Values!ModuleFits, Values!TranscriptFits,
           Values!AttemptsFit, Accepted
    <2> QED BY <2>1, <2>2, <2>4, <2>5 DEF ValuesInv
<1>5. CASE \E choice \in Values!Resolutions : Values!CompleteReads(choice)
    <2>1. PICK choice \in Values!Resolutions : Values!CompleteReads(choice)
        BY <1>5
    <2>2. /\ r4.status = "preview" /\ DOMAIN choice = r4.conflicts
          /\ Values!PolicyBlocks(r1, r2) = {} /\ r4.digest = <<r1, r2>>
          /\ Values!SelectedOwner(r1, r2, choice) \/ (~r1.owner /\ ~r2.owner) \/ r3
          /\ r5' = [pc |-> "batch", choice |-> choice]
          /\ UNCHANGED <<r1, r2, r3, r4, r6>>
        BY <2>1 DEF Values!CompleteReads, Values!ResolutionsFit
    <2>3. choice \in [Values!Conflicts(r1, r2) -> Values!Sides]
        <3>1. PICK S \in SUBSET Values!Keys : choice \in [S -> Values!Sides]
            BY DEF Values!Resolutions
        <3>2. r4.conflicts = Values!Conflicts(r1, r2) BY <2>2 DEF ValuesInv
        <3> QED BY <2>2, <3>1, <3>2
    <2>4. Accepted(r1, r2)' BY <2>2, <2>3 DEF Accepted
    <2>5. (Values!SelectedOwner(r1, r2, r5.choice) \/ r3)'
        <3>1. r1.owner \/ r2.owner \/ r3 BY DEF ValuesInv, Values!OwnerRemains
        <3> QED BY <2>2, <3>1
    <2> QED BY <2>2, <2>4, <2>5 DEF ValuesInv, Values!OwnerRemains, Values!AccountRows
<1> QED BY <1>1, <1>2, <1>3, <1>4, <1>5 DEF Values!ValuesNext

LEMMA ValuesStutter ==
    ASSUME ValuesInv, UNCHANGED valueRegisters
    PROVE  ValuesInv'
BY DEF ValuesInv, valueRegisters, Values!AccountRows, Values!ModuleFits, Values!TranscriptFits,
   Values!AttemptsFit,
   Accepted, Values!OwnerRemains

LEMMA ValuesInvImplies ==
    ASSUME None \notin Nat, ValuesInv
    PROVE  /\ Values!ValuesAreChosen /\ Values!VerifiedWasVerified
           /\ Values!RecordsAreKept /\ Values!OwnerRemains /\ Values!PolicyHolds
<1>1. CASE Values!Done
    <2>1. /\ Values!Was("source") = r4.was[1] /\ Values!Was("survivor") = r4.was[2]
        BY DEF Values!Was
    <2> QED BY <1>1, <2>1, SurvivorIsSound DEF ValuesInv, Values!Done
<1>2. CASE ~Values!Done
    BY <1>2 DEF ValuesInv, Values!ValuesAreChosen, Values!VerifiedWasVerified,
       Values!RecordsAreKept, Values!PolicyHolds
<1> QED BY <1>1, <1>2

\* What an owner decides about two accounts is what the survivor gets: a value that one has,
\* or the chosen one of two; no record is lost or weakened; an address is verified only if it
\* was; nobody without the required consent is merged; and an owner remains
\* (completeAccountMerge in worker.ts).
THEOREM MergesKeepValues == RecordsSpec => []MergeKeepsValues
<1> DEFINE I == machine = "values" => ValuesInv
<1>0. None \notin Nat BY RecordsConstants
<1>1. RecordsInit => I
    BY MergeStartsFit, ValuesInitInv DEF RecordsInit
<1>2. I /\ [RecordsNext]_<<machine, registers>> => I'
    <2> SUFFICES ASSUME I, [RecordsNext]_<<machine, registers>>, machine' = "values"
                 PROVE  ValuesInv'
        OBVIOUS
    <2>1. machine = "values" /\ ValuesInv BY DEF RecordsNext
    <2>2. Values!ValuesNext \/ UNCHANGED valueRegisters
        BY <2>1 DEF RecordsNext, registers, valueRegisters
    <2> QED BY <1>0, <2>1, <2>2, ValuesStepInv, ValuesStutter
<1>3. I => MergeKeepsValues
    BY <1>0, ValuesInvImplies DEF MergeKeepsValues
<1> QED BY <1>1, <1>2, <1>3, PTL DEF RecordsSpec
=============================================================================
