-------------------------- MODULE BadgeCredentials --------------------------
(***************************************************************************)
(* The badge projector (src/badge-credentials.ts): a pure function from a  *)
(* list of definitions and an append-only list of lifecycle events to the  *)
(* credentials, or an error for the whole list.  Events reach the list in  *)
(* any order and may reach it twice; each time the list is projected anew. *)
(*                                                                         *)
(* One definition and one version are enough, since an event that names    *)
(* another one only adds an error.  The shape checks of the validators     *)
(* (keys, patterns, lengths) are left out; what they say about the meaning *)
(* of a definition or of evidence is kept.                                 *)
(***************************************************************************)
EXTENDS Integers, FiniteSets, Sequences, SequencesExt

CONSTANTS
    Credentials,
    Classes,         \* the badge classes that occur, of BADGE_CLASSES
    MaxEvents,       \* events in the list
    MaxTime          \* days after the issuances

Null == -1
Never == 0

VARIABLES
    definition,      \* the badge definition of the event list
    log,             \* the events in the order they arrived
    view             \* the last projection that did not fail: credential -> what is shown

badgeVars == <<definition, log, view>>

\* evidenceResultByKind: the result follows from the kind.  A visit and a completion have no
\* score, an assessment may have one (1 stands for the pass mark).
Requirements == [kind : {"visited", "completed"}, minimum : {Null}]
                    \cup [kind : {"passed"}, minimum : {Null, 1}]
Items == [kind : {"visited", "completed"}, score : {Null}]
                    \cup [kind : {"passed"}, score : {Null, 1}]

Definitions == [class : Classes, requires : {{r} : r \in Requirements}, days : {Never, 1}]

\* What lists of evidence can be told apart by: the items, and whether one of them is dated
\* after the event that brings it.
Evidence == [items : {{i} : i \in Items}, late : BOOLEAN]

\* The events the identifier id can stand for.  Time is counted from the day of the issuances;
\* a correction or a revocation is compared with nothing but its evidence.
Events(id) ==
    LET E(type, times, events, evidence) ==
            [id : {id}, type : {type}, credential : Credentials, at : times,
             sequence : 1..MaxEvents, supersedes : events, evidence : evidence]
        none == {[items |-> {}, late |-> FALSE]}
    IN E("issued", {0}, {0}, Evidence) \cup E("corrected", {0}, 1..MaxEvents, Evidence)
       \cup E("revoked", {0}, 1..MaxEvents, none) \cup E("expired", 0..MaxTime, 1..MaxEvents, none)

-----------------------------------------------------------------------------
validateCriteria(d) ==
    /\ d.class = "completion" => \E r \in d.requires : r.kind # "visited"
    /\ d.class = "mastery" =>
         /\ \A r \in d.requires : r.kind # "visited"
         /\ \E r \in d.requires : r.kind = "passed"
         /\ \A r \in d.requires : r.kind = "passed" => r.minimum # Null

\* Every requirement has an item of its kind, with the score it asks for; a mastery badge
\* has a passed assessment.
validateBadgeIssuanceEvidence(d, items) ==
    /\ \A r \in d.requires :
         \E i \in items : i.kind = r.kind
                          /\ (r.minimum = Null \/ (i.score # Null /\ i.score >= r.minimum))
    /\ d.class = "mastery" => \E i \in items : i.kind = "passed"

\* assertEvidence: and none of it is dated after the event that brings it.
assertEvidence(d, e) == validateBadgeIssuanceEvidence(d, e.evidence.items) /\ ~e.evidence.late

assertExpirationEligible(d, p, e) == d.days # Never /\ e.at >= p.issuedAt + d.days

\* A credential changes only while it is active, by an event that names the last one.
Continues(p, e) == p.status = "active" /\ e.supersedes = p.last

\* The projector throws: nothing is projected, of no credential.
Failed == <<>>

\* One event, applied to the credentials so far.
projectEvent(d, shown, e) ==
    LET p == shown[e.credential]
        new == [p EXCEPT !.last = e.id]
    IN IF shown = Failed THEN Failed
       ELSE IF e.type = "issued"
       THEN IF p.status # "none" \/ ~assertEvidence(d, e) THEN Failed
            ELSE [shown EXCEPT ![e.credential] =
                    [new EXCEPT !.status = "active", !.issue = e.id, !.issuedAt = e.at,
                                !.evidence = e.evidence.items]]
       ELSE IF ~Continues(p, e) THEN Failed
       ELSE CASE e.type = "corrected" ->
                   IF assertEvidence(d, e)
                   THEN [shown EXCEPT ![e.credential] =
                           [new EXCEPT !.corrections = Append(@, e.id), !.evidence = e.evidence.items]]
                   ELSE Failed
              [] e.type = "revoked" -> [shown EXCEPT ![e.credential] = [new EXCEPT !.status = "revoked"]]
              [] e.type = "expired" ->
                   IF assertExpirationEligible(d, p, e)
                   THEN [shown EXCEPT ![e.credential] = [new EXCEPT !.status = "expired"]]
                   ELSE Failed

NoCredential == [status |-> "none", issue |-> 0, issuedAt |-> 0, evidence |-> {},
                 corrections |-> <<>>, last |-> 0]

Duplicates(events) ==
    \E i, j \in DOMAIN events :
       i < j /\ (events[i].id = events[j].id
                 \/ (events[i].credential = events[j].credential /\ events[i].sequence = events[j].sequence))

InSequence(events) ==
    SortSeq(events, LAMBDA e, f : e.sequence < f.sequence \/ (e.sequence = f.sequence /\ e.id < f.id))

projectBadgeLifecycle(d, events) ==
    IF ~validateCriteria(d) \/ Duplicates(events) THEN Failed
    ELSE FoldLeft(LAMBDA shown, e : projectEvent(d, shown, e),
                  [c \in Credentials |-> NoCredential], InSequence(events))

-----------------------------------------------------------------------------
BadgeInit ==
    /\ definition \in Definitions
    /\ log = <<>>
    /\ view = [c \in Credentials |-> NoCredential]

\* No event that arrives later can cure this list.  Such lists are not extended.
Spoilt(events) ==
    \/ ~validateCriteria(definition) \/ Duplicates(events)
    \/ \E i \in DOMAIN events : events[i].type \in {"issued", "corrected"} /\ ~assertEvidence(definition, events[i])
    \/ \E i, j \in DOMAIN events : i # j /\ events[i].type = "issued" /\ events[j].type = "issued"
                                   /\ events[i].credential = events[j].credential

Arrive(e) ==
    /\ log' = Append(log, e)
    /\ view' = LET shown == projectBadgeLifecycle(definition, log')
               IN IF shown = Failed THEN view ELSE shown
    /\ UNCHANGED definition

\* A new event, numbered as it arrives, or one that is delivered again.
BadgeNext ==
    /\ Len(log) < MaxEvents /\ ~Spoilt(log)
    /\ \E e \in Events(Len(log) + 1) \cup Range(log) : Arrive(e)

BadgeSpec == BadgeInit /\ [][BadgeNext]_badgeVars

-----------------------------------------------------------------------------
\* In every step a projection only continues the one shown before, whatever arrives late: an issued
\* credential keeps its issuance, its corrections are only added to, and one that is revoked
\* or expired stays exactly as it is (projectBadgeLifecycle).
HistoryOnlyGrows ==
    \A c \in Credentials :
       LET p == view[c] q == view'[c]
       IN /\ p.status # "none" => q.issue = p.issue /\ q.issuedAt = p.issuedAt
          /\ IsPrefix(p.corrections, q.corrections)
          /\ p.status \in {"revoked", "expired"} => q = p

\* A credential that is shown was earned: its evidence is more than visits where the badge
\* is for completion or mastery, includes a scored pass for mastery, was there when the
\* last event that brought evidence happened, and an expired one had its days.
CredentialIsEarned ==
    \A c \in Credentials :
       LET p == view[c] IN p.status # "none" =>
         /\ definition.class = "completion" => \E i \in p.evidence : i.kind # "visited"
         /\ definition.class = "mastery" => \E i \in p.evidence : i.kind = "passed" /\ i.score = 1
         /\ \E k \in DOMAIN log : /\ log[k].id = (IF p.corrections = <<>> THEN p.issue ELSE Last(p.corrections))
                                  /\ log[k].evidence.items = p.evidence /\ ~log[k].evidence.late
         /\ p.status = "expired" => \E k \in DOMAIN log : log[k].id = p.last
                                       /\ definition.days # Never /\ log[k].at >= p.issuedAt + definition.days
=============================================================================
