--------------------- MODULE NotificationOutboxLiveness ---------------------
(***************************************************************************)
(* That committed owner alerts settle (NotificationOutbox), under the      *)
(* scheduling of src/src/worker.ts: a cron trigger that keeps draining     *)
(* owner alerts, and dispatches that end before a lease they gave out.     *)
(***************************************************************************)
EXTENDS NotificationOutbox

CONSTANTS
    RunSeconds,  \* the longest a dispatch takes: ten adapter calls of at most
                 \* five seconds each and the database calls between them
    FreeTicks    \* the clock runs freely up to here, later only while some
                 \* stored time lies ahead, so that behaviours stay finite

ASSUME RunsEndBeforeTheirLeases == RunSeconds \in 0..(LeaseSeconds - 1)

\* Does some stored time still lie ahead?
TimeIsAwaited ==
    \E n \in Ids : \/ rows[n].state = "delivering" /\ rows[n].leaseExpires > clock
                   \/ rows[n].state \in InQueue /\ rows[n].available > clock

RunsAreYoung ==
    \A d \in Dispatchers : disp[d].pc # "idle" => clock < disp[d].now + RunSeconds

TimelyTick == Tick /\ RunsAreYoung /\ (TimeIsAwaited \/ clock < FreeTicks)

\* Time passes, the cron trigger keeps firing, and a run in progress goes on:
\* every await of a dispatch is a database call or an adapter call that the
\* deadline cuts off.  Owner-initiated runs and replays are not fair: nothing
\* makes an owner press the button.
FairSpec ==
    /\ Init
    /\ [][Next /\ (clock' # clock => TimelyTick)]_vars
    /\ WF_vars(TimelyTick)
    /\ \A d \in Dispatchers : /\ WF_vars(DispatchStep(d))
                             /\ WF_vars(BeginDispatch(d, OwnerKinds))

\* Every owner alert that was committed is delivered or ends as a dead letter
\* (or its account is deleted): no lease, retry or crash strands it.
OwnerAlertsSettle ==
    \A n \in Ids :
        rows[n].state \in Stored /\ rows[n].kind \in OwnerKinds
            ~> rows[n].state \in Terminal \cup {"deleted"}

=============================================================================
