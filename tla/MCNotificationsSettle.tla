------------------------ MODULE MCNotificationsSettle ------------------------
(***************************************************************************)
(* The two halves of a dispatch side by side, each with the scheduling it  *)
(* needs: the delivery of notifications (NotificationOutboxLiveness) and   *)
(* the fan-out of owner alerts that comes before it (OwnerFanout).  The    *)
(* halves share no state; a behaviour is one of the one or of the other.   *)
(***************************************************************************)
EXTENDS NotificationOutboxLiveness

CONSTANTS MaxOwner, PageSize, FanoutClock, MaxChurn

VARIABLES part, rollback, time, owners, fan, alerts, runs, churn, owed

Fanout == INSTANCE OwnerFanout WITH clock <- time, disp <- runs, MaxClock <- FanoutClock

ASSUME SettleConstants == Fanout!FanoutConstants

fanVars == <<rollback, time, owners, fan, alerts, runs, churn, owed>>

BothInit ==
    /\ Init
    /\ \/ part = "outbox" /\ Fanout!Init /\ rollback = FALSE
       \/ part = "fan-out" /\ Fanout!Init

OutboxStep == part = "outbox" /\ Next /\ (clock' # clock => TimelyTick)
              /\ UNCHANGED <<part, fanVars>>

FanoutStep == part = "fan-out" /\ Fanout!Next /\ UNCHANGED <<part, vars>>

allVars == <<part, vars, fanVars>>

\* The fairness of both modules, for the half that a behaviour is of.
FairHalves ==
    /\ BothInit
    /\ [][OutboxStep \/ FanoutStep]_allVars
    /\ WF_vars(part = "outbox" /\ TimelyTick)
    /\ \A d \in Dispatchers :
         /\ WF_vars(part = "outbox" /\ DispatchStep(d))
         /\ WF_vars(part = "outbox" /\ BeginDispatch(d, OwnerKinds))
         /\ WF_fanVars(part = "fan-out" /\ Fanout!BeginDispatch(d))
         /\ WF_fanVars(part = "fan-out" /\ Fanout!DispatchStep(d))

\* However dispatches overlap and owners come and go, the cursor passes nobody: a complete
\* fan-out has alerted every owner seen when its cutoff was fixed who stayed approved.  No
\* owner is alerted twice by repeated and concurrent expansions of a page and, where a lost
\* page is rolled back, none whose approval is later than the cutoff.
EveryOwnerOnce ==
    /\ Fanout!TypeOK /\ Fanout!NobodyIsSkipped
    /\ Fanout!NobodyIsAlertedTwice /\ Fanout!RecipientsAreFixed

\* No advance of a fan-out trips the cursor, cutoff, state or revision guards of its table.
AdvancesPassTheGuards == Fanout!AdvancesPassTheGuards

\* A recorded fan-out completes once there is an approved owner to stay.
FanoutCompletes == Fanout!FanoutCompletes
==============================================================================
