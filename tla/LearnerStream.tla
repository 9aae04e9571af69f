---------------------------- MODULE LearnerStream ----------------------------
(***************************************************************************)
(* What the learning event store promises to its callers, without its     *)
(* steps: one append-only log per learner on which every request takes     *)
(* effect at once, at most one time, and only when the log stays           *)
(* projectable; and an answer that says what really happened.              *)
(* docs/learning-event-contract.md states it as "a racing command either   *)
(* commits once or retries against the new authoritative revision".        *)
(***************************************************************************)
EXTENDS LearningProjection

CONSTANTS Requests, Commands, Silent

VARIABLES
  log,      \* the learner's events
  ever,     \* every entry that was ever committed, deleted ones included
  request,  \* the command a request is executing, Silent before it has one
  answer    \* what a request was told, "none" before

abstractVars == <<log, ever, request, answer>>

Answers == {"none", "stored", "replayed", "superseded", "conflict",
            "refused", "contention", "read", "failed"}

Init ==
  /\ log = <<>>
  /\ ever = {}
  /\ request = [r \in Requests |-> Silent]
  /\ answer = [r \in Requests |-> "none"]

\* A request is given its command, once.
Ask(r) ==
  /\ request[r] = Silent
  /\ \E c \in Commands : request' = [request EXCEPT ![r] = c]
  /\ UNCHANGED <<log, ever, answer>>

\* The one moment at which a request changes the log.
Commit(r) ==
  LET e == Entry(request[r], r) IN
  /\ request[r] # Silent
  /\ answer[r] = "none"
  /\ \A x \in ever : x.by # r
  /\ WithKey(log, request[r].key) = {}
  /\ Projectable(Append(log, e))
  /\ log' = Append(log, e)
  /\ ever' = ever \cup {e}
  /\ UNCHANGED <<request, answer>>

\* "stored" is said only of one's own commit; "replayed" of an entry made
\* from the same key and payload; a conflict needs an entry it conflicts with.
Truthful(c, r, a) ==
  /\ a = "stored" => Entry(c, r) \in ever
  /\ a = "replayed" =>
       \E x \in ever : /\ x.cmd.key = c.key
                       /\ x.cmd.type = c.type
                       /\ x.cmd.item = c.item
  /\ a = "superseded" =>
       \E x \in ever : x.cmd.type = "import" /\ x.cmd.at >= c.at
  /\ a = "conflict" =>
       \E x \in ever : x.cmd.key = c.key /\ x.cmd # c

Reply(r) ==
  /\ answer[r] = "none"
  /\ \E a \in Answers \ {"none"} :
       /\ answer' = [answer EXCEPT ![r] = a]
       /\ request[r] = Silent => a \in {"read", "failed"}
       /\ request[r] # Silent => Truthful(request[r], r, a)
  /\ UNCHANGED <<log, ever, request>>

\* The learner's record is erased as a whole.
Erase ==
  /\ log' = <<>>
  /\ UNCHANGED <<ever, request, answer>>

Next ==
  \/ \E r \in Requests : Ask(r) \/ Commit(r) \/ Reply(r)
  \/ Erase

Spec == Init /\ [][Next]_abstractVars
==============================================================================
