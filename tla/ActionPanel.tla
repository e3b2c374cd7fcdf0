---------------------------- MODULE ActionPanel ----------------------------
(***************************************************************************)
(* One browser page (app/api/static/app.js) in front of the server: the    *)
(* action panel with its prepare, confirm and execute buttons over one     *)
(* shared lastAction, and the radar and copilot panels next to it.         *)
(*                                                                         *)
(* Every click starts an asynchronous request; the answers come in any     *)
(* order, or fail, while the user goes on clicking, changes the identity   *)
(* or reloads the page.  The server's handlers, whose statements Actions   *)
(* takes apart, are one step each here: what they keep to is the contract  *)
(* of ActionLedger.  Actions are only known to the page that prepared them.*)
(***************************************************************************)
EXTENDS FiniteSets, Naturals

CONSTANTS
    ActionCalls,    \* the requests the action panel may send
    Questions,      \* the requests of the radar and the copilot panel
    KindOf,         \* the route of each
    Scripts,        \* bound: sets of requests, one of which a user keeps to
    ActionIds,
    Users, Admins,
    FirstUser,      \* the identity a page starts with
    NoId, NoRow, NoCall, NoReply, NoUser,
    MaxSwitches,    \* bound: changes of identity
    MaxReloads,     \* bound: reloads of the page
    MaxFaults       \* bound: failed requests

Calls == ActionCalls \cup Questions
Panels == {"action", "radar", "chat"}
PanelOf(c) == IF c \in ActionCalls THEN "action" ELSE KindOf[c]

ASSUME PanelConstants ==
    /\ ActionCalls \cap Questions = {}
    /\ KindOf \in [Calls -> {"prepare", "confirm", "execute", "radar", "chat"}]
    /\ \A c \in Calls : KindOf[c] \in {"radar", "chat"} <=> c \in Questions
    /\ Calls \cap {"empty", "busy", "error", NoCall} = {}
    /\ Scripts \subseteq SUBSET Calls
    /\ Admins \subseteq Users /\ FirstUser \in Users /\ NoUser \notin Users
    /\ NoId \notin ActionIds
    /\ MaxSwitches \in Nat /\ MaxReloads \in Nat /\ MaxFaults \in Nat

VARIABLES
    rows,           \* server: the actions table
    server,         \* where each request is: "idle", "waiting", "served" or "lost"
    page,           \* what the page knows of it: "idle", "open", "delivered" or "failed"
    user,           \* the X-Demo-User it was sent with
    subject,        \* the action it names, or the one it prepared
    effect,         \* history: the status it moved an action to
    reply,          \* the record it is answered with, or Refused
    currentUserId,
    lastAction,     \* the request whose answer state.lastAction is, or NoCall
    out,            \* what each panel shows: "empty", "busy", "error" or a request's answer
    disabled,       \* the buttons of the radar and the copilot panel
    latest,         \* history: the last request of each panel
    script,         \* the requests this user may make
    switches, reloads, faults

serverVars == <<rows, server, subject, effect, reply>>
pageVars == <<page, currentUserId, lastAction, out, disabled>>
bounds == <<script, switches, reloads, faults>>
vars == <<serverVars, pageVars, user, latest, bounds>>

Statuses == {"PENDING_CONFIRMATION", "CONFIRMED", "EXECUTED", "EXPIRED"}
Row == [user_id : Users, status : Statuses]
Record == [action_id : ActionIds, status : Statuses]
Refused == [action_id |-> NoId, status |-> "refused"]

ASSUME NoRowIsNoRow == NoRow \notin Row

Init ==
    /\ rows = [a \in ActionIds |-> NoRow]
    /\ server = [c \in Calls |-> "idle"]
    /\ page = [c \in Calls |-> "idle"]
    /\ user = [c \in Calls |-> NoUser]
    /\ subject = [c \in Calls |-> NoId]
    /\ effect = [c \in Calls |-> "nothing"]
    /\ reply = [c \in Calls |-> NoReply]
    /\ currentUserId = FirstUser
    /\ lastAction = NoCall
    /\ out = [k \in Panels |-> "empty"]
    /\ disabled = [k \in {"radar", "chat"} |-> FALSE]
    /\ latest = [k \in Panels |-> NoCall]
    /\ script \in Scripts
    /\ switches = 0 /\ reloads = 0 /\ faults = 0

-----------------------------------------------------------------------------
(* The page *)

\* api(): the request leaves with the identity of the moment; the panel shows that it runs.
api(c, a, shows) ==
    /\ c \in script /\ server[c] = "idle"
    /\ server' = [server EXCEPT ![c] = "waiting"]
    /\ page' = [page EXCEPT ![c] = "open"]
    /\ user' = [user EXCEPT ![c] = currentUserId]
    /\ subject' = [subject EXCEPT ![c] = a]
    /\ out' = [out EXCEPT ![PanelOf(c)] = shows]
    /\ latest' = [latest EXCEPT ![PanelOf(c)] = c]
    /\ UNCHANGED <<rows, effect, reply, currentUserId, lastAction, bounds>>

prepareAction(c) ==
    /\ KindOf[c] = "prepare"
    /\ api(c, NoId, "busy")
    /\ UNCHANGED disabled

\* renderActionRecord: the button a record of this status gets, on the card that is shown.
Offers(status) ==
    /\ out["action"] \in ActionCalls
    /\ reply[out["action"]].status = status

\* Mutant: the card and its button stay while the request runs.
confirmAction_KeepsCard(c) ==
    /\ KindOf[c] = "confirm" /\ Offers("PENDING_CONFIRMATION") /\ lastAction # NoCall
    /\ api(c, reply[lastAction].action_id, out["action"])
    /\ UNCHANGED disabled

confirmAction(c) ==
    /\ KindOf[c] = "confirm" /\ Offers("PENDING_CONFIRMATION") /\ lastAction # NoCall
    /\ api(c, reply[lastAction].action_id, "busy")
    /\ UNCHANGED disabled

\* Mutant: the confirmed card and its button stay while the request runs.
executeAction_KeepsCard(c) ==
    /\ KindOf[c] = "execute" /\ Offers("CONFIRMED") /\ lastAction # NoCall
    /\ api(c, reply[lastAction].action_id, out["action"])
    /\ UNCHANGED disabled

executeAction(c) ==
    /\ KindOf[c] = "execute" /\ Offers("CONFIRMED") /\ lastAction # NoCall
    /\ api(c, reply[lastAction].action_id, "busy")
    /\ UNCHANGED disabled

\* Mutant: the radar button is not disabled while a run is under way.
runRadar_Enabled(c) == KindOf[c] = "radar" /\ api(c, NoId, "busy") /\ UNCHANGED disabled

runRadar(c) ==
    /\ KindOf[c] = "radar" /\ ~disabled["radar"]
    /\ api(c, NoId, "busy")
    /\ disabled' = [disabled EXCEPT !["radar"] = TRUE]

\* Ctrl-Enter in the question's field asks even when the button is disabled.
submitQuestion(c) ==
    /\ KindOf[c] = "chat"
    /\ api(c, NoId, "busy")
    /\ disabled' = [disabled EXCEPT !["chat"] = TRUE]

\* finally: the radar's or the copilot's button works again, whosever answer it was.
Enable(c) ==
    disabled' = IF c \in Questions THEN [disabled EXCEPT ![KindOf[c]] = FALSE] ELSE disabled

\* Mutant: only the first record is kept.
keep_First(c) == IF lastAction = NoCall THEN c ELSE lastAction

\* state.lastAction = data.outcome.record
keep(c) == c

Succeeded(c) == reply[c] # Refused

Kept(c) == c \in ActionCalls /\ Succeeded(c)

\* An answer arrives: success is rendered and, for an action, kept; anything else is an error.
Deliver(c) ==
    /\ page[c] = "open" /\ server[c] = "served"
    /\ page' = [page EXCEPT ![c] = "delivered"]
    /\ out' = [out EXCEPT ![PanelOf(c)] = IF Succeeded(c) THEN c ELSE "error"]
    /\ lastAction' = IF Kept(c) THEN keep(c) ELSE lastAction
    /\ Enable(c)
    /\ UNCHANGED <<serverVars, user, latest, currentUserId, bounds>>

\* Mutant: an exception leaves the panel as it is.
catch_Nothing(c) == UNCHANGED out

catch(c) == out' = [out EXCEPT ![PanelOf(c)] = "error"]

\* fetch rejects: the server died with the request, or the connection failed, which tells
\* nothing about what the server does with the request.
Reject(c) ==
    /\ page[c] = "open"
    /\ \/ server[c] = "lost" /\ UNCHANGED faults
       \/ server[c] # "lost" /\ faults < MaxFaults /\ faults' = faults + 1
    /\ page' = [page EXCEPT ![c] = "failed"]
    /\ catch(c)
    /\ Enable(c)
    /\ UNCHANGED <<serverVars, user, latest, currentUserId, lastAction, script, switches, reloads>>

\* The identity select: the panels, lastAction and what is under way stay.
SwitchUser ==
    /\ switches < MaxSwitches
    /\ \E u \in Users \ {currentUserId} : currentUserId' = u
    /\ switches' = switches + 1
    /\ UNCHANGED <<serverVars, page, lastAction, out, disabled, user, latest, script, reloads, faults>>

\* A reloaded page starts anew; the server does not hear of it.
Reload ==
    /\ reloads < MaxReloads
    /\ reloads' = reloads + 1
    /\ page' = [c \in Calls |-> IF page[c] = "open" THEN "failed" ELSE page[c]]
    /\ currentUserId' = FirstUser
    /\ lastAction' = NoCall
    /\ out' = [k \in Panels |-> "empty"]
    /\ disabled' = [k \in {"radar", "chat"} |-> FALSE]
    /\ latest' = [k \in Panels |-> NoCall]
    /\ UNCHANGED <<serverVars, user, script, switches, faults>>

-----------------------------------------------------------------------------
(* The server *)

Answers(c, r) ==
    /\ server' = [server EXCEPT ![c] = "served"]
    /\ reply' = [reply EXCEPT ![c] = r]
    /\ UNCHANGED <<pageVars, user, latest, bounds>>

Refuses(c) == Answers(c, Refused) /\ UNCHANGED <<rows, subject, effect>>

\* Call c moves action a to status s, and is answered with the record unless it is too late.
Moves(c, a, s, r) ==
    /\ rows' = [rows EXCEPT ![a] = [user_id |-> IF @ = NoRow THEN user[c] ELSE @.user_id,
                                    status |-> s]]
    /\ effect' = [effect EXCEPT ![c] = s]
    /\ subject' = [subject EXCEPT ![c] = a]
    /\ Answers(c, r)

\* Mutant: an action is named after its target, of which the model has one.
fresh_ByTarget == {CHOOSE a \in ActionIds : TRUE}

\* uuid4
fresh == {a \in ActionIds : rows[a] = NoRow}

\* The ticket or its severity may refuse the proposal.
prepare(c) ==
    /\ KindOf[c] = "prepare" /\ server[c] = "waiting"
    /\ \/ Refuses(c)
       \/ \E a \in fresh : LET s == "PENDING_CONFIRMATION" IN
              Moves(c, a, s, [action_id |-> a, status |-> s])

\* Mutant: the record is answered as it was read.
confirmed_AsRead(a) == [action_id |-> a, status |-> rows[a].status]

confirmed(a) == [action_id |-> a, status |-> "CONFIRMED"]

\* The window may be over, and the ticket or the caller's scope may have changed.
confirm(c) ==
    LET a == subject[c] IN
    /\ KindOf[c] = "confirm" /\ server[c] = "waiting"
    /\ \/ Refuses(c)
       \/ rows[a].status = "PENDING_CONFIRMATION" /\ Moves(c, a, "EXPIRED", Refused)
       \/ /\ rows[a].status = "PENDING_CONFIRMATION" /\ rows[a].user_id = user[c]
          /\ Moves(c, a, "CONFIRMED", confirmed(a))

execute(c) ==
    LET a == subject[c]
        executed == [action_id |-> a, status |-> "EXECUTED"]
        allowed == user[c] \in Admins \cup {rows[a].user_id}
    IN  /\ KindOf[c] = "execute" /\ server[c] = "waiting"
        /\ \/ ~allowed /\ Refuses(c)
           \/ allowed /\ rows[a].status \notin {"CONFIRMED", "EXECUTED"} /\ Refuses(c)
           \/ allowed /\ rows[a].status = "CONFIRMED" /\ Moves(c, a, "EXECUTED", executed)
           \/ /\ allowed /\ rows[a].status = "EXECUTED"
              /\ Answers(c, executed) /\ UNCHANGED <<rows, subject, effect>>

\* The radar and the copilot answer or refuse; what they answer is modelled elsewhere.
run_or_ask(c) ==
    /\ c \in Questions /\ server[c] = "waiting"
    /\ \E r \in {NoReply, Refused} : Answers(c, r)
    /\ UNCHANGED <<rows, subject, effect>>

\* The server dies, and whatever it has not begun with it.
Crash ==
    /\ faults < MaxFaults /\ faults' = faults + 1
    /\ server' = [c \in Calls |-> IF server[c] = "waiting" THEN "lost" ELSE server[c]]
    /\ UNCHANGED <<rows, subject, effect, reply, pageVars, user, latest, script, switches, reloads>>

-----------------------------------------------------------------------------
Click(c) ==
    prepareAction(c) \/ confirmAction(c) \/ executeAction(c) \/ runRadar(c) \/ submitQuestion(c)

Serve(c) == prepare(c) \/ confirm(c) \/ execute(c) \/ run_or_ask(c)

Next ==
    \/ \E c \in Calls : Click(c) \/ Serve(c) \/ Deliver(c) \/ Reject(c)
    \/ SwitchUser \/ Reload \/ Crash

\* As long as requests are waiting the server answers one, and as long as fetches end the
\* browser runs the continuation of one; nobody has to click.
Fairness ==
    /\ WF_vars(\E c \in Calls : Serve(c))
    /\ WF_vars(\E c \in Calls : Deliver(c) \/ Reject(c))

Spec == Init /\ [][Next]_vars /\ Fairness

-----------------------------------------------------------------------------
(* Properties *)

\* Every variable has the type its comment gives it.
TypeOK ==
    /\ rows \in [ActionIds -> Row \cup {NoRow}]
    /\ server \in [Calls -> {"idle", "waiting", "served", "lost"}]
    /\ page \in [Calls -> {"idle", "open", "delivered", "failed"}]
    /\ user \in [Calls -> Users \cup {NoUser}]
    /\ subject \in [Calls -> ActionIds \cup {NoId}]
    /\ effect \in [Calls -> Statuses \cup {"nothing"}]
    /\ reply \in [Calls -> Record \cup {NoReply, Refused}]
    /\ currentUserId \in Users
    /\ lastAction \in ActionCalls \cup {NoCall}
    /\ out \in [Panels -> {"empty", "busy", "error"} \cup Calls]
    /\ disabled \in [{"radar", "chat"} -> BOOLEAN]
    /\ latest \in [Panels -> Calls \cup {NoCall}]
    /\ script \in Scripts
    /\ switches \in 0..MaxSwitches /\ reloads \in 0..MaxReloads /\ faults \in 0..MaxFaults

\* A button on the action panel acts on the very record its card shows, whatever answers
\* to earlier clicks came in between: a card is always of state.lastAction.
ClickActsOnWhatIsShown == out["action"] \in ActionCalls => lastAction = out["action"]

\* An action is named by at most one confirm and one execute of the page, however impatient
\* the user, so the page never leans on the server's idempotence.  Prepare has no such guard:
\* a second click on it sends a second request, and the property says of the two only that
\* each makes an action of its own.
OneRequestPerStep ==
    \A c, d \in ActionCalls :
        subject[c] # NoId /\ subject[c] = subject[d] /\ KindOf[c] = KindOf[d] => c = d

\* The card shows the status the audit row has, not one it had: no answer that was
\* overtaken brings an outdated card, with a button for a step already made, back.
CardIsCurrent ==
    out["action"] \in ActionCalls =>
        LET record == reply[out["action"]]
        IN  record # Refused /\ rows[record.action_id].status = record.status

\* The radar panel shows the outcome of the run that was started last.
RadarShowsLastRun ==
    out["radar"] \in Questions => out["radar"] = latest["radar"]

\* No panel says "Preparing..." or "Running..." for ever, with several requests of
\* it under way or a server that died.
PanelsSettle == \A k \in Panels : out[k] = "busy" ~> out[k] # "busy"

\* How a request of the action panel stands, in the ledger's terms: it stays open until
\* the page has its answer, and for ever when the page never gets it.
Standing(c) ==
    IF server[c] \in {"idle", "lost"} THEN server[c]
    ELSE IF server[c] = "waiting" \/ page[c] # "delivered" THEN "open"
    ELSE IF Succeeded(c) THEN "success" ELSE "refused"

\* The page and these handlers keep to the contract that the handlers of Actions implement.
Contract == INSTANCE ActionLedger WITH
    Calls <- ActionCalls,
    KindOf <- [c \in ActionCalls |-> KindOf[c]],
    ledger <- [a \in ActionIds |-> IF rows[a] = NoRow THEN "absent" ELSE rows[a].status],
    subject <- [c \in ActionCalls |-> IF KindOf[c] = "prepare" THEN NoId ELSE subject[c]],
    effect <- [c \in ActionCalls |-> effect[c]],
    answer <- [c \in ActionCalls |-> Standing(c)]
KeepsToLedger == Contract!Safe

=============================================================================
