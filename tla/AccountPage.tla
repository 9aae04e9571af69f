----------------------------- MODULE AccountPage -----------------------------
(***************************************************************************)
(* The learner's own page and its panels: the profile form, the learning   *)
(* preferences, the linked identities, the privacy controls with their     *)
(* deletion receipt, and the lookup of a deletion by receipt               *)
(* (web/app/components/AccountDashboard.tsx), against the account API,     *)
(* whose answers may be lost, and other tabs of the same learner.          *)
(*                                                                         *)
(* A behaviour looks at one panel.  Its content is one value: the consent  *)
(* to one purpose, the profile, the preferences, or the number of linked   *)
(* identities; the privacy panel has the deletion requests as well.  While a   *)
(* call is under way the panels disable their controls (`busy'), so there  *)
(* is one call at a time.  The preferences have no such flag: a learner    *)
(* who does not wait is what Patient = FALSE allows.                       *)
(***************************************************************************)
EXTENDS Naturals, Sequences

CONSTANTS
  Panels,       \* which panels behaviours look at
  Values,       \* what a panel may hold: numbers
  None,         \* nothing
  MaxSends,     \* calls of the page
  MaxElsewhere, \* changes made by other tabs, by owners and by the retention job
  MaxLost,      \* calls or answers that are lost
  Patient       \* the learner waits for the preferences to be loaded

\* Nothing is no receipt and no answer to a lookup.
AccountConstants == None \notin [id : Nat, token : Nat] /\ None # "unknown"

VARIABLES
  panel,
  server,   \* the account API: the value and the deletion requests with their tokens
  page,     \* the state of the component
  call,     \* the call under way
  sends, elsewhere, lost,
  synced    \* history: nothing has happened that an answer has not told the page

pageVars == <<panel, server, page, call, sends, elsewhere, lost, synced>>

Idle == [op |-> "none", pc |-> "idle", arg |-> None, before |-> None,
         value |-> None, requests |-> <<>>, receipt |-> None, stale |-> FALSE]
Load == [Idle EXCEPT !.op = "load", !.pc = "sent"]

\* AccountDashboard: which panels an account is given, and whether its preferences are hosted.
Shows(state) ==
  {"data", "preferences", "identities"}
  \cup {p \in {"profile"} : state \notin {"suspended", "revoked"}}
Hosted(state) == state = "approved"

PageInit ==
  /\ panel \in Panels
  /\ server \in [value : Values, requests : {<<>>}, token : {0}]
  /\ page = [state |-> "approved", shown |-> None, list |-> <<>>, receipt |-> None,
             saved |-> None, mode |-> "loading", heard |-> TRUE, found |-> None,
             rotated |-> FALSE]
  /\ call = Load /\ sends = 0 /\ elsewhere = 0 /\ lost = 0 /\ synced = FALSE

-----------------------------------------------------------------------------
\* The deletion requests of the account, newest first.  Only the first can be active.
Active(requests) == requests # <<>> /\ Head(requests).state \in {"requested", "processing"}

\* requestDeletion: a new request, or a new token for the active one.
Requested(s) ==
  LET t == s.token + 1 IN
  [s EXCEPT !.token = t,
            !.requests = IF Active(@) THEN [@ EXCEPT ![1].token = t]
                         ELSE <<[id |-> Len(@) + 1, state |-> "requested", token |-> t]>> \o @]

Cancellable(s) == s.requests # <<>> /\ Head(s.requests).state = "requested"
Cancelled(s) == [s EXCEPT !.requests[1].state = "cancelled"]

\* The entries with the id and the token of a receipt.
Matching(s, receipt) ==
  {i \in DOMAIN s.requests : s.requests[i].id = receipt.id /\ s.requests[i].token = receipt.token}

\* getDeletionStatus: what a receipt is answered.
Status(s, receipt) ==
  IF Matching(s, receipt) = {} THEN "unknown"
  ELSE s.requests[CHOOSE i \in Matching(s, receipt) : TRUE].state

\* mapDeletionRequest: the token is only in the answer to the request itself.
Told(requests) == [i \in 1..Len(requests) |-> [id |-> requests[i].id, state |-> requests[i].state]]

-----------------------------------------------------------------------------
\* The controls each panel offers.  They are disabled while a call is under way.
OffersRefresh == panel = "data"
OffersSwitch == panel = "data"
OffersProfileForm == panel = "profile" /\ page.shown # None       \* else "Try loading profile again"
OffersRetry == panel = "profile" /\ page.shown = None
OffersPreferences == panel = "preferences"
OffersUnlink == panel = "identities" /\ page.shown # None
OffersRequest == panel = "data" /\ ~Active(page.list)
OffersCancel == panel = "data" /\ page.list # <<>> /\ Head(page.list).state = "requested"
OffersReceipt == page.receipt # None

Sends ==
  /\ call.pc = "idle" /\ sends < MaxSends
  /\ panel \in Shows(page.state)
  /\ sends' = sends + 1
  /\ UNCHANGED <<panel, server, elsewhere, lost, synced>>

\* The Refresh button, and "Try loading profile again".
Refresh ==
  /\ OffersRefresh \/ OffersRetry
  /\ Sends
  /\ call' = Load
  /\ UNCHANGED page

\* toggleConsent: the switch moves before the answer.
ToggleConsent ==
  /\ OffersSwitch /\ Sends
  /\ \E v \in Values \ {page.shown} :
       /\ call' = [Idle EXCEPT !.op = "write", !.pc = "sent", !.arg = v, !.before = page.shown]
       /\ page' = [page EXCEPT !.shown = v]

\* saveProfile, and persistPreferences once the hosted preferences are loaded.
Save ==
  /\ OffersProfileForm \/ (OffersPreferences /\ page.mode = "ready")
  /\ Sends
  /\ \E v \in Values : call' = [Idle EXCEPT !.op = "write", !.pc = "sent", !.arg = v]
  /\ UNCHANGED page

\* persistPreferences before that, or without an account: only the session's copy changes,
\* and with it the effect is torn down, so that a load under way is not heard any more.
SaveInSession ==
  /\ OffersPreferences /\ page.mode # "ready"
  /\ Patient => call.pc = "idle"
  /\ sends < MaxSends /\ sends' = sends + 1
  /\ \E v \in Values \ {page.shown} : page' = [page EXCEPT !.shown = v, !.heard = FALSE]
  /\ UNCHANGED <<panel, server, call, elsewhere, lost, synced>>

\* unlink, offered for an identity the list shows as linked.
Unlink ==
  /\ OffersUnlink /\ Sends
  /\ \E v \in {v \in Values : v < page.shown} :
       call' = [Idle EXCEPT !.op = "unlink", !.pc = "sent", !.arg = v]
  /\ UNCHANGED page

\* requestDeletion, offered while no active request is shown.
RequestDeletion ==
  /\ OffersRequest /\ Sends
  /\ call' = [Idle EXCEPT !.op = "request", !.pc = "sent"]
  /\ UNCHANGED page

CancelDeletion ==
  /\ OffersCancel /\ Sends
  /\ call' = [Idle EXCEPT !.op = "cancel", !.pc = "sent"]
  /\ UNCHANGED page

\* Copy or download, then "I saved this receipt".
SaveReceipt ==
  /\ OffersReceipt
  /\ page' = [page EXCEPT !.saved = page.receipt, !.receipt = None]
  /\ UNCHANGED <<panel, server, call, sends, elsewhere, lost, synced>>

\* exportData changes nothing but is refused without a recent sign-in, like the others.
ExportData ==
  /\ panel = "data" /\ Sends
  /\ call' = [Idle EXCEPT !.op = "export", !.pc = "sent"]
  /\ UNCHANGED page

\* DeletionStatusLookup, with the receipt the learner has saved.
Lookup ==
  /\ panel = "data" /\ page.saved # None
  /\ Sends
  /\ call' = [Idle EXCEPT !.op = "lookup", !.pc = "sent", !.arg = page.saved]
  /\ page' = [page EXCEPT !.found = None]

-----------------------------------------------------------------------------
Served(c, s) == [c EXCEPT !.pc = "answered", !.value = s.value, !.requests = s.requests]

\* The API handles the call; a load of the privacy panel is two calls.
Serve ==
  /\ \/ /\ call.op = "load" /\ call.pc = "sent"
        /\ call' = IF panel = "data" THEN [call EXCEPT !.pc = "half", !.value = server.value]
                   ELSE Served(call, server)
        /\ UNCHANGED server
     \/ /\ call.op = "load" /\ call.pc = "half"
        /\ call' = [call EXCEPT !.pc = "answered", !.requests = server.requests]
        /\ UNCHANGED server
     \/ /\ call.op \in {"write", "unlink"} /\ call.pc = "sent"
        /\ server' = [server EXCEPT !.value = call.arg]
        /\ call' = Served(call, server')
     \/ /\ call.op = "request" /\ call.pc = "sent"
        /\ server' = Requested(server)
        /\ call' = [Served(call, server') EXCEPT
                      !.receipt = [id |-> Head(server'.requests).id, token |-> server'.token]]
     \/ /\ call.op = "cancel" /\ call.pc = "sent" /\ Cancellable(server)
        /\ server' = Cancelled(server)
        /\ call' = Served(call, server')
     \/ /\ call.op = "export" /\ call.pc = "sent"
        /\ call' = Served(call, server)
        /\ UNCHANGED server
     \/ /\ call.op = "lookup" /\ call.pc = "sent"
        /\ call' = [call EXCEPT !.pc = "answered", !.value = Status(server, call.arg)]
        /\ UNCHANGED server
  /\ UNCHANGED <<panel, page, sends, elsewhere, lost, synced>>

\* The API refuses (no recent authentication, no right any more, nothing to cancel): nothing
\* has changed, and the page goes the same way as when the call is lost.
Refused ==
  /\ call.pc = "sent"
  /\ call' = [call EXCEPT !.pc = "failed"]
  /\ UNCHANGED <<panel, server, page, sends, elsewhere, lost, synced>>

\* The call or its answer is lost: the page cannot tell whether it was carried out.
Lose ==
  /\ call.pc \in {"sent", "half", "answered"} /\ lost < MaxLost
  /\ lost' = lost + 1
  /\ call' = [call EXCEPT !.pc = "failed"]
  /\ synced' = (synced /\ (call.pc # "answered" \/ call.op \in {"load", "lookup", "export"}))
  /\ page' = [page EXCEPT !.rotated = @ \/ (call.op = "request" /\ call.pc = "answered")]
  /\ UNCHANGED <<panel, server, sends, elsewhere>>

\* load: what the page makes of its answer.
Loaded(p, c) ==
  IF panel = "preferences" /\ ~p.heard THEN p
  ELSE [p EXCEPT !.shown = c.value, !.list = Told(c.requests), !.mode = "ready"]

\* setDeletions: the answer to a request is put in front of the list, the answer to a
\* cancellation replaces the entry with its id.
Prepended(list, r) == <<[id |-> r.id, state |-> r.state]>> \o list
Replaced(list, r) == [i \in 1..Len(list) |->
                        IF list[i].id = r.id THEN [id |-> r.id, state |-> r.state] ELSE list[i]]

\* The answer reaches the page.
Answer ==
  /\ call.pc = "answered"
  /\ page' = CASE call.op = "load" -> Loaded(page, call)
               [] call.op = "write" /\ panel # "data" -> [page EXCEPT !.shown = call.value]
               [] call.op = "request" ->
                    [page EXCEPT !.list = Prepended(@, Head(call.requests)),
                                 !.receipt = call.receipt,
                                 !.rotated = (call.receipt.token # server.token)]
               [] call.op = "cancel" ->
                    [page EXCEPT !.list = Replaced(@, Head(call.requests))]
               [] call.op = "lookup" -> [page EXCEPT !.found = call.value]
               [] OTHER -> page
  /\ call' = IF call.op = "unlink" THEN Load ELSE Idle     \* unlink awaits load()
  /\ synced' = IF call.op = "load" \/ (call.op = "write" /\ panel # "data")
               THEN ~call.stale /\ page'.mode = "ready"
               ELSE synced /\ call.op # "unlink"           \* its answer does not tell the list
  /\ UNCHANGED <<panel, server, sends, elsewhere, lost>>

\* Mutant: the switch stays where the learner put it.
Fail_KeepsSwitch ==
  /\ call.pc = "failed"
  /\ page' = CASE call.op = "load" /\ panel = "preferences" /\ page.heard ->
                    [page EXCEPT !.mode = "offline"]
               [] call.op = "lookup" -> [page EXCEPT !.found = "unverified"]
               [] OTHER -> page
  /\ call' = Idle
  /\ UNCHANGED <<panel, server, sends, elsewhere, lost, synced>>

\* The catch blocks: an optimistic switch goes back, and preferences that could not be loaded
\* stay in the session.
Fail ==
  /\ call.pc = "failed"
  /\ page' = CASE call.op = "write" /\ panel = "data" -> [page EXCEPT !.shown = call.before]
               [] call.op = "load" /\ panel = "preferences" /\ page.heard ->
                    [page EXCEPT !.mode = "offline"]
               [] call.op = "lookup" -> [page EXCEPT !.found = "unverified"]
               [] OTHER -> page
  /\ call' = Idle
  /\ UNCHANGED <<panel, server, sends, elsewhere, lost, synced>>

\* Another tab of the learner changes the value or the deletion request, or an owner begins
\* to process it.
Elsewhere ==
  /\ elsewhere < MaxElsewhere
  /\ elsewhere' = elsewhere + 1
  /\ \/ \E v \in Values \ {server.value} : server' = [server EXCEPT !.value = v]
     \/ panel = "data" /\ server' = Requested(server)
     \/ panel = "data" /\ Cancellable(server) /\ server' = Cancelled(server)
     \/ panel = "data" /\ Cancellable(server)
        /\ server' = [server EXCEPT !.requests[1].state = "processing"]
  /\ call' = [call EXCEPT !.stale = (@ \/ call.pc \in {"half", "answered"})]
  /\ page' = [page EXCEPT !.rotated = @ \/ server'.token # server.token]
  /\ synced' = FALSE
  /\ UNCHANGED <<panel, sends, lost>>

\* refreshAccount tells the page another state: the preferences are hosted or not any more,
\* and the effect starts a load when they are again.
AccountChanges ==
  /\ panel = "preferences" /\ call.pc = "idle" /\ elsewhere < MaxElsewhere
  /\ elsewhere' = elsewhere + 1
  /\ \E st \in {"approved", "suspended"} \ {page.state} :
       /\ page' = [page EXCEPT !.state = st, !.heard = TRUE,
                               !.mode = IF Hosted(st) THEN "loading" ELSE "browser"]
       /\ call' = IF Hosted(st) THEN Load ELSE Idle
  /\ synced' = FALSE
  /\ UNCHANGED <<panel, server, sends, lost>>

PageNext ==
  \/ Refresh \/ ToggleConsent \/ Save \/ SaveInSession \/ Unlink \/ RequestDeletion
  \/ CancelDeletion \/ SaveReceipt \/ ExportData \/ Lookup
  \/ Serve \/ Refused \/ Lose \/ Answer \/ Fail \/ Elsewhere \/ AccountChanges

PageSpec == PageInit /\ [][PageNext]_pageVars

-----------------------------------------------------------------------------
\* While nothing has happened that the page was not told of, an idle panel shows what the
\* account holds: optimistic switches, refusals and partial answers leave no trace.
PanelIsCurrent ==
  synced /\ call.pc = "idle" =>
    /\ page.shown = server.value
    /\ panel = "data" => page.list = Told(server.requests)

\* A receipt that no later request has replaced answers, before and after it is saved.
ReceiptIsLive ==
  LET newest == IF page.receipt # None THEN page.receipt ELSE page.saved
  IN newest # None /\ ~page.rotated => Status(server, newest) # "unknown"

\* A lookup disowns only a receipt that another tab, or a request whose answer was lost, has
\* replaced: one tab that hears all its answers never spoils a receipt it has shown.
LookupIsHonest == page.found = "unknown" => elsewhere > 0 \/ lost > 0

\* The preferences do not stay in "Loading": a load is under way, or the panel says so.
LoadingEnds == panel = "preferences" /\ page.mode = "loading" => call.op = "load"
==============================================================================
