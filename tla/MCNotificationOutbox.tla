----------------------- MODULE MCNotificationOutbox -----------------------
(***************************************************************************)
(* Finite instances of NotificationOutbox.  Times are scaled: one unit of  *)
(* the clock stands for the shortest interval a run's outcome depends on.  *)
(* A behaviour is one of two: the delivery of one notification by several  *)
(* dispatches, or the replay of several dead letters of one account by two *)
(* operators at once, while one dispatch at a time works on them.          *)
(***************************************************************************)
EXTENDS NotificationOutbox, TLC

VARIABLE part

OneNotification ==
    \A m, n \in Ids : rows[m].state # "unused" /\ rows[n].state # "unused" => m = n

\* Time passes while the notification is to be settled.
TimeIsForIt == clock' = clock \/ \E n \in Ids : rows[n].state \in Stored \ Terminal

OneDispatch ==
    \A d, e \in Dispatchers : disp[d].pc # "idle" /\ disp[e].pc # "idle" => d = e

OneAccount == \E a \in Accounts : \A n \in Ids : rows[n].parties \subseteq {a}

DeliveryInit == Init /\ part \in {"delivery", "replay"}

DeliveryNext ==
    /\ UNCHANGED part
    /\ \/ /\ part = "delivery"
          /\ Environment \/ (\E d \in Dispatchers :
                \/ \E kinds \in {Kinds, OwnerKinds} : BeginDispatch(d, kinds)
                \/ DispatchStep(d) \/ RecordingFails(d) \/ Crash(d))
          /\ OneNotification' /\ TimeIsForIt
       \/ /\ part = "replay"
          /\ Next
          /\ OneDispatch' /\ OneAccount' /\ UNCHANGED <<clock, crashes>>

DeliverySpec == DeliveryInit /\ [][DeliveryNext]_<<part, vars>>

\* Notifications, dispatchers and accounts are interchangeable.
Symmetry == Permutations(Ids) \cup Permutations(Dispatchers) \cup Permutations(Accounts)
===========================================================================
