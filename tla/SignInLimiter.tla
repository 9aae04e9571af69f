---------------------------- MODULE SignInLimiter ----------------------------
(***************************************************************************)
(* The limit on sign-in attempts of a self-hosted installation             *)
(* (src/self-host/postgres-auth-abuse-limiter.ts), for one route.  Each    *)
(* attempt runs a READ COMMITTED transaction: it takes the advisory lock   *)
(* of its client and then that of the installation, counts the admitted    *)
(* attempts of each in the window that ends at the time it was stamped     *)
(* with, and records itself.  Rows are seen by others, and locks given     *)
(* back, when it commits.                                                  *)
(***************************************************************************)
EXTENDS Integers, FiniteSets

CONSTANTS
    Attempts,            \* the attempts of a behaviour
    Clients,             \* client addresses
    Installation,        \* the name of the installation's own lock
    Unlocked,            \* holds a lock nobody holds
    PerClient,           \* perClientLimit (10)
    PerInstallation,     \* perInstallationLimit (100)
    Span,                \* windowSeconds (60)
    MaxNow,              \* bound on the clock
    MaxLost              \* how many connections may be lost

VARIABLES
    now,
    lost,
    lock,                \* who holds each advisory lock
    attempt,             \* what each attempt is at, and what it has counted
    admitted,            \* committed audit rows of admitted attempts: [who, client, at]
    denials              \* committed denial rows, one per coalesced window: [who, at]

\* The limits are numbers, and whoever takes a lock is somebody.
LimiterConstants ==
    /\ PerClient \in Nat /\ PerInstallation \in Nat /\ Span \in Nat /\ MaxNow \in Nat
    /\ Unlocked \notin Attempts

limiterVars == <<now, lost, lock, attempt, admitted, denials>>

Locks == Clients \cup {Installation}

Fresh == [step |-> "new", client |-> Installation, at |-> 0, ofClient |-> 0, ofAll |-> 0]

LimiterInit ==
    /\ now = 0 /\ lost = 0
    /\ lock = [l \in Locks |-> Unlocked]
    /\ attempt = [a \in Attempts |-> Fresh]
    /\ admitted = {} /\ denials = {}

-----------------------------------------------------------------------------
Goes(a, step) == attempt' = [attempt EXCEPT ![a].step = step]

Begin(a) ==
    /\ attempt[a].step = "new"
    /\ \E c \in Clients :
         attempt' = [attempt EXCEPT ![a] =
                       [Fresh EXCEPT !.step = "client lock", !.client = c, !.at = now]]
    /\ UNCHANGED <<now, lost, lock, admitted, denials>>

\* The locks in the order of their sorted names: "client" before "installation".
lockSubjects(a) ==
    \/ /\ attempt[a].step = "client lock"
       /\ lock[attempt[a].client] = Unlocked
       /\ lock' = [lock EXCEPT ![attempt[a].client] = a]
       /\ Goes(a, "installation lock")
       /\ UNCHANGED <<now, lost, admitted, denials>>
    \/ /\ attempt[a].step = "installation lock"
       /\ lock[Installation] = Unlocked
       /\ lock' = [lock EXCEPT ![Installation] = a]
       /\ Goes(a, "count client")
       /\ UNCHANGED <<now, lost, admitted, denials>>

\* Mutant: the window of an attempt ends at its stamp instead of beginning before it.
InWindow_UpTo(row, at) == row.at >= at - Span /\ row.at <= at

\* occurred_at >= cutoff: rows stamped later than the counting attempt count too.
InWindow(row, at) == row.at >= at - Span

countAcceptedAttempts(a) ==
    \/ /\ attempt[a].step = "count client"
       /\ attempt' = [attempt EXCEPT ![a].step = "count installation",
            ![a].ofClient = Cardinality({r \in admitted :
                r.client = attempt[a].client /\ InWindow(r, attempt[a].at)})]
       /\ UNCHANGED <<now, lost, lock, admitted, denials>>
    \/ /\ attempt[a].step = "count installation"
       /\ attempt' = [attempt EXCEPT ![a].step = "record",
            ![a].ofAll = Cardinality({r \in admitted : InWindow(r, attempt[a].at)})]
       /\ UNCHANGED <<now, lost, lock, admitted, denials>>

Allowed(a) == attempt[a].ofClient < PerClient /\ attempt[a].ofAll < PerInstallation

Released(a) == [l \in Locks |-> IF lock[l] = a THEN Unlocked ELSE lock[l]]

\* The rows are inserted and the transaction commits: an admitted attempt counts for its
\* client and for the installation, a denial is recorded once in a window.
Commit(a) ==
    /\ attempt[a].step = "record"
    /\ LET me == attempt[a]
       IN \/ /\ Allowed(a)
             /\ admitted' = admitted \cup {[who |-> a, client |-> me.client, at |-> me.at]}
             /\ denials' = denials
          \/ /\ ~Allowed(a)
             /\ denials' = IF \E d \in denials : InWindow(d, me.at) THEN denials
                           ELSE denials \cup {[who |-> a, at |-> me.at]}
             /\ admitted' = admitted
    /\ attempt' = [attempt EXCEPT ![a] = [Fresh EXCEPT !.step = "over"]]
    /\ lock' = Released(a)
    /\ UNCHANGED <<now, lost>>

\* The connection is lost: everything is rolled back and the attempt is refused.
Lose(a) ==
    /\ lost < MaxLost
    /\ attempt[a].step \notin {"new", "over"}
    /\ attempt' = [attempt EXCEPT ![a] = [Fresh EXCEPT !.step = "over"]]
    /\ lock' = Released(a)
    /\ lost' = lost + 1
    /\ UNCHANGED <<now, admitted, denials>>

Pass ==
    /\ now < MaxNow
    /\ now' = now + 1
    /\ UNCHANGED <<lost, lock, attempt, admitted, denials>>

LimiterNext ==
    \/ \E a \in Attempts :
         \/ Begin(a) \/ lockSubjects(a) \/ countAcceptedAttempts(a) \/ Commit(a) \/ Lose(a)
    \/ Pass

LimiterSpec == LimiterInit /\ [][LimiterNext]_limiterVars

-----------------------------------------------------------------------------
\* In every interval of Span seconds no client is admitted more often than perClientLimit
\* and the installation not more often than perInstallationLimit, and denials are
\* recorded once, whatever attempts overlap and in whatever order stamps and commits
\* fall (check() and recordDeniedAttemptOnce()).
LimitHolds ==
    /\ \A t \in 0..MaxNow :
         LET within == {r \in admitted : r.at \in t..(t + Span)}
         IN /\ Cardinality(within) <= PerInstallation
            /\ \A c \in Clients : Cardinality({r \in within : r.client = c}) <= PerClient
    /\ \A d, e \in denials : d # e => d.at - e.at > Span \/ e.at - d.at > Span

LimiterTypeOK ==
    /\ lock \in [Locks -> Attempts \cup {Unlocked}]
    /\ \A a \in Attempts : attempt[a].step = "over" => \A l \in Locks : lock[l] # a
    /\ now \in 0..MaxNow
=============================================================================
