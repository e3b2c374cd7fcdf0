------------------------------ MODULE Actions ------------------------------
(***************************************************************************)
(* The two-phase escalation workflow: POST /api/actions/prepare, confirm   *)
(* and execute and GET /api/actions/{id} (app/api/routes/actions.py), the  *)
(* workflow they call (app/actions/workflow.py) and the SQLite store under *)
(* it (app/actions/store.py).                                              *)
(*                                                                         *)
(* Every HTTP call runs in a worker thread with a connection of its own    *)
(* and no transaction around the whole handler, so each SQL statement is   *)
(* one atomic step here and the statements of different calls interleave.  *)
(* What a handler reads it keeps in the local snapshot seen[c] and uses in *)
(* later steps, however stale it has become.                               *)
(***************************************************************************)
EXTENDS Naturals, FiniteSets

CONSTANTS
    Calls,          \* the HTTP calls of a behaviour; a client's retry is another call
    KindOf,         \* call -> the route it posts to
    ActionIds,      \* action ids a uuid4 can yield
    Users, Admins,  \* DemoUser ids, and those whose role is operations_admin
    Tickets,        \* ticket ids a caller may name
    Accounts,
    AccountOf,      \* ticket -> the account it belongs to
    InitScope,      \* user -> the accounts the deployed registry lets it see
    SlaSeverity,    \* ticket -> severity calculate_sla finds, or Unclassified
    SlaDeadline,    \* ticket -> first-response deadline, or NoTime if not computable
    Unclassified,   \* severity could not be determined
    NoTime,         \* SQL NULL in a timestamp column
    NoRow,          \* no row with this action_id
    NoHash, NoId,   \* an argument a route does not take; NoId also stands for
                    \* an action id that no prepare ever generates
    ACTION_EXPIRY_MINUTES,
    MaxNow,         \* bound: the largest snapshot time
    MaxExternal     \* bound: how many external events happen

Kinds == {"prepare", "confirm", "execute", "get"}

ASSUME ConstantsOK ==
    /\ KindOf \in [Calls -> Kinds]
    /\ Users # {}
    /\ Admins \subseteq Users
    /\ InitScope \in [Users -> SUBSET Accounts]
    /\ AccountOf \in [Tickets -> Accounts]
    /\ SlaSeverity \in [Tickets -> {"P1", "P2", "P3", Unclassified}]
    /\ Unclassified \notin {"P1", "P2", "P3"}
    /\ SlaDeadline \in [Tickets -> Nat \cup {NoTime}]
    /\ NoTime \notin Nat
    /\ NoId \notin ActionIds \cup Tickets
    /\ ACTION_EXPIRY_MINUTES \in Nat
    /\ MaxNow \in Nat
    /\ MaxExternal \in Nat

-----------------------------------------------------------------------------
(* Data *)

ActionStatus == {"PENDING_CONFIRMATION", "CONFIRMED", "EXECUTED", "EXPIRED"}
TicketStatus == {"open", "closed"}
Time == Nat \cup {NoTime}

\* sha256 of action_type, target and proposed_change: equal hashes mean equal
\* payloads. The type is constant and the severity is a function of the target.
PayloadHash(target, breached) == <<target, breached>>
Hashes == Tickets \X BOOLEAN

ActionRecord ==
    [user_id: Users, target: Tickets, previous_status: TicketStatus,
     payload_hash: Hashes, status: ActionStatus, prepared_at: Nat, expires_at: Nat,
     confirmed_at: Time, executed_at: Time]

Request ==
    [user: Users, scope: SUBSET Accounts, now: Nat,
     target: Tickets \cup {NoId}, action: ActionIds \cup {NoId},
     hash: Hashes \cup {NoHash}]

Statements ==
    {"p_ticket", "p_sla", "p_insert", "c_get", "c_ticket", "c_save", "c_expire",
     "c_reread", "x_gate", "x_get", "x_save", "x_reread", "g_get"}
Finished == {"done", "lost"}
ControlPoints == {"idle", "replying"} \cup Statements \cup Finished

FirstStatement ==
    [prepare |-> "p_ticket", confirm |-> "c_get", execute |-> "x_gate", get |-> "g_get"]

Refusals ==
    {"not_authorized", "not_found", "invalid_target_state", "cannot_determine_eligibility",
     "not_escalation_eligible", "wrong_state", "expired", "wrong_user", "payload_mismatch",
     "target_invalid", "target_state_changed", "http_403", "http_404", "http_500"}

\* ActionOutcome: "ok" is success=True; status is that of the record it carries.
Reply == [code: {"none", "ok"} \cup Refusals, status: ActionStatus \cup {"none"}]
NoReply == [code |-> "none", status |-> "none"]

NoRequest ==
    [user |-> CHOOSE u \in Users : TRUE, scope |-> {}, now |-> 0,
     target |-> NoId, action |-> NoId, hash |-> NoHash]

ASSUME NoRowIsNoRecord == NoRow \notin ActionRecord

VARIABLES
    rows,      \* the actions table: action id -> row, or NoRow
    tickets,   \* the tickets table: ticket id -> status, or "absent"
    scope,     \* user -> the accounts it may see (all of them: unrestricted)
    now,       \* meta.snapshot_time, what get_clock reads for a request
    external,  \* how many external events have happened
    pc,        \* call -> the statement its handler executes next
    req,       \* call -> the request and the context its dependencies built
    seen,      \* call -> the row its last get_action returned
    landed,    \* call -> history: the write of this call that was committed
    reply      \* call -> the response its handler computed

dbVars == <<rows, tickets>>
envVars == <<scope, now, external>>
callVars == <<pc, req, seen, landed, reply>>
vars == <<rows, tickets, scope, now, external, pc, req, seen, landed, reply>>

\* Every variable has the type its comment gives it.
TypeOK ==
    /\ rows \in [ActionIds -> ActionRecord \cup {NoRow}]
    /\ tickets \in [Tickets -> TicketStatus \cup {"absent"}]
    /\ scope \in [Users -> SUBSET Accounts]
    /\ now \in Nat
    /\ external \in Nat
    /\ pc \in [Calls -> ControlPoints]
    /\ req \in [Calls -> Request]
    /\ seen \in [Calls -> ActionRecord \cup {NoRow}]
    /\ landed \in [Calls -> {"nothing"} \cup ActionStatus]
    /\ reply \in [Calls -> Reply]

Init ==
    /\ rows = [a \in ActionIds |-> NoRow]
    /\ tickets \in [Tickets -> TicketStatus \cup {"absent"}]
    /\ scope = InitScope
    /\ now = 0
    /\ external = 0
    /\ pc = [c \in Calls |-> "idle"]
    /\ req = [c \in Calls |-> NoRequest]
    /\ seen = [c \in Calls |-> NoRow]
    /\ landed = [c \in Calls |-> "nothing"]
    /\ reply = [c \in Calls |-> NoReply]

-----------------------------------------------------------------------------
(* The routes: FastAPI resolves the dependencies (the caller's registry    *)
(* entry and the snapshot time) before the handler's first statement.      *)

Receive(c, u, t, a, h) ==
    /\ pc[c] = "idle"
    /\ req' = [req EXCEPT ![c] = [user |-> u, scope |-> scope[u], now |-> now,
                                  target |-> t, action |-> a, hash |-> h]]
    /\ pc' = [pc EXCEPT ![c] = FirstStatement[KindOf[c]]]
    /\ UNCHANGED <<dbVars, envVars, seen, landed, reply>>

\* A caller learns an id from a response or makes one up; a made-up id is
\* never one that a later uuid4 yields.
KnownIds == {a \in ActionIds : rows[a] # NoRow} \cup {NoId}

prepare(c) ==
    /\ KindOf[c] = "prepare"
    /\ \E u \in Users, t \in Tickets : Receive(c, u, t, NoId, NoHash)

confirm(c) ==
    /\ KindOf[c] = "confirm"
    /\ \E u \in Users, a \in KnownIds, h \in Hashes : Receive(c, u, NoId, a, h)

execute(c) ==
    /\ KindOf[c] = "execute"
    /\ \E u \in Users, a \in KnownIds : Receive(c, u, NoId, a, NoHash)

get_action_route(c) ==
    /\ KindOf[c] = "get"
    /\ \E u \in Users, a \in KnownIds : Receive(c, u, NoId, a, NoHash)

\* Call c executes statement s.
At(c, s) == pc[c] = s

\* The handler goes on to statement s.
Goto(c, s) ==
    /\ pc' = [pc EXCEPT ![c] = s]
    /\ UNCHANGED reply

\* The handler returns (or raises, for the http codes).
Answer(c, code, status) ==
    /\ pc' = [pc EXCEPT ![c] = "replying"]
    /\ reply' = [reply EXCEPT ![c] = [code |-> code, status |-> status]]

-----------------------------------------------------------------------------
(* Lookups *)

get_action(a) == IF a \in ActionIds THEN rows[a] ELSE NoRow

\* The ticket's status, or the exception get_ticket raises.
get_ticket(t, accounts) ==
    CASE tickets[t] = "absent" -> "not_found"
      [] tickets[t] # "absent" /\ AccountOf[t] \notin accounts -> "not_authorized"
      [] OTHER -> tickets[t]

StatusOf(r) == IF r = NoRow THEN "none" ELSE r.status

owner_or_admin(u, r) == u \in Admins \/ r.user_id = u

-----------------------------------------------------------------------------
(* prepare_escalation *)

PrepareTicketCheck(s) ==
    CASE s \in {"not_found", "not_authorized"} -> s
      [] s = "open" -> "proceed"
      [] OTHER -> "invalid_target_state"

PrepareTicket(c) ==
    LET check == PrepareTicketCheck(get_ticket(req[c].target, req[c].scope)) IN
    /\ At(c, "p_ticket")
    /\ \/ check = "proceed" /\ Goto(c, "p_sla")
       \/ check # "proceed" /\ Answer(c, check, "none")
    /\ UNCHANGED <<dbVars, envVars, req, seen, landed>>

\* calculate_sla: elapsed > 0 past the deadline, and None without one.
Breached(t, time) == SlaDeadline[t] # NoTime /\ time > SlaDeadline[t]

EligibilityCheck(t, time) ==
    CASE SlaSeverity[t] = Unclassified -> "cannot_determine_eligibility"
      [] SlaSeverity[t] = "P1" \/ (SlaSeverity[t] # Unclassified /\ Breached(t, time))
            -> "proceed"
      [] OTHER -> "not_escalation_eligible"

\* calculate_sla reads the ticket a second time. Its status is not looked at
\* again; a row that is gone raises out of the handler as a 404.
PrepareSla(c) ==
    LET check == IF get_ticket(req[c].target, req[c].scope) = "not_found" THEN "http_404"
                 ELSE EligibilityCheck(req[c].target, req[c].now) IN
    /\ At(c, "p_sla")
    /\ \/ check = "proceed" /\ Goto(c, "p_insert")
       \/ check # "proceed" /\ Answer(c, check, "none")
    /\ UNCHANGED <<dbVars, envVars, req, seen, landed>>

NewRecord(q) ==
    [user_id |-> q.user, target |-> q.target, previous_status |-> "open",
     payload_hash |-> PayloadHash(q.target, Breached(q.target, q.now)),
     status |-> "PENDING_CONFIRMATION",
     prepared_at |-> q.now, expires_at |-> q.now + ACTION_EXPIRY_MINUTES,
     confirmed_at |-> NoTime, executed_at |-> NoTime]

insert_action(c) ==
    /\ At(c, "p_insert")
    /\ \E a \in ActionIds :
          /\ rows[a] = NoRow
          /\ rows' = [rows EXCEPT ![a] = NewRecord(req[c])]
    /\ landed' = [landed EXCEPT ![c] = "PENDING_CONFIRMATION"]
    /\ Answer(c, "ok", "PENDING_CONFIRMATION")
    /\ UNCHANGED <<tickets, envVars, req, seen>>

-----------------------------------------------------------------------------
(* save_action_if_status: one conditional UPDATE, committed at once. The   *)
(* columns it writes come from the caller's copy, not from the row.        *)

\* Mutants: an UPDATE without the status in its WHERE clause, and one that only
\* protects executed rows.
Matches_Unconditional(a, expected) == rows[a] # NoRow
Matches_NotExecuted(a, expected) == rows[a] # NoRow /\ rows[a].status # "EXECUTED"

Matches(a, expected) == rows[a] # NoRow /\ rows[a].status = expected

Overwrite(row, record) ==
    [row EXCEPT !.status = record.status, !.confirmed_at = record.confirmed_at,
                !.executed_at = record.executed_at]

save_action_if_status(c, record, expected) ==
    /\ Matches(req[c].action, expected)
    /\ rows' = [rows EXCEPT ![req[c].action] = Overwrite(@, record)]
    /\ landed' = [landed EXCEPT ![c] = record.status]

\* rowcount = 0: another call moved the row first.
save_missed(c, expected) ==
    /\ ~Matches(req[c].action, expected)
    /\ UNCHANGED <<rows, landed>>

-----------------------------------------------------------------------------
(* confirm_action *)

\* Mutant: no expiry check.
ConfirmCheck_NoExpiry(q, r) ==
    IF r = NoRow THEN "not_found"
    ELSE CASE r.status # "PENDING_CONFIRMATION" -> "wrong_state"
           [] r.user_id # q.user \/ r.payload_hash # q.hash -> "wrong_user"
           [] OTHER -> "proceed"

\* The checks on the record, in the order of the code.
ConfirmCheck(q, r) ==
    CASE r = NoRow -> "not_found"
      [] r # NoRow /\ r.status # "PENDING_CONFIRMATION" -> "wrong_state"
      [] r # NoRow /\ r.status = "PENDING_CONFIRMATION" /\ q.now > r.expires_at -> "expire"
      [] OTHER -> CASE r.user_id # q.user -> "wrong_user"
                    [] r.user_id = q.user /\ r.payload_hash # q.hash -> "payload_mismatch"
                    [] OTHER -> "proceed"

ConfirmGet(c) ==
    LET r == get_action(req[c].action)
        check == ConfirmCheck(req[c], r) IN
    /\ At(c, "c_get")
    /\ seen' = [seen EXCEPT ![c] = r]
    /\ \/ check = "proceed" /\ Goto(c, "c_ticket")
       \/ check = "expire" /\ Goto(c, "c_expire")
       \/ check \notin {"proceed", "expire"} /\ Answer(c, check, StatusOf(r))
    /\ UNCHANGED <<dbVars, envVars, req, landed>>

\* Mutant: the caller's current scope is not looked at.
ConfirmTicketCheck_Unscoped(s, previous_status) ==
    IF s \in {"not_authorized", previous_status} THEN "proceed" ELSE "target_state_changed"

ConfirmTicketCheck(s, previous_status) ==
    CASE s = "not_authorized" -> "not_authorized"
      [] s = "not_found" -> "target_invalid"
      [] s = previous_status -> "proceed"
      [] OTHER -> "target_state_changed"

ConfirmTicket(c) ==
    LET check == ConfirmTicketCheck(get_ticket(seen[c].target, req[c].scope),
                                    seen[c].previous_status) IN
    /\ At(c, "c_ticket")
    /\ \/ check = "proceed" /\ Goto(c, "c_save")
       \/ check # "proceed" /\ Answer(c, check, seen[c].status)
    /\ UNCHANGED <<dbVars, envVars, req, seen, landed>>

ConfirmedCopy(q, r) == [r EXCEPT !.status = "CONFIRMED", !.confirmed_at = q.now]

ConfirmSave(c) ==
    /\ At(c, "c_save")
    /\ \/ /\ save_action_if_status(c, ConfirmedCopy(req[c], seen[c]), "PENDING_CONFIRMATION")
          /\ Answer(c, "ok", "CONFIRMED")
       \/ save_missed(c, "PENDING_CONFIRMATION") /\ Goto(c, "c_reread")
    /\ UNCHANGED <<tickets, envVars, req, seen>>

ConfirmExpire(c) ==
    /\ At(c, "c_expire")
    /\ \/ /\ save_action_if_status(c, [seen[c] EXCEPT !.status = "EXPIRED"],
                                   "PENDING_CONFIRMATION")
          /\ Answer(c, "expired", "EXPIRED")
       \/ save_missed(c, "PENDING_CONFIRMATION") /\ Goto(c, "c_reread")
    /\ UNCHANGED <<tickets, envVars, req, seen>>

\* Mutants: the loser reports the record it read before the race, or saves again.
wrong_state_outcome_Stale(c) ==
    /\ At(c, "c_reread")
    /\ Answer(c, "wrong_state", seen[c].status)
    /\ UNCHANGED <<dbVars, envVars, req, seen, landed>>
wrong_state_outcome_Retry(c) ==
    /\ At(c, "c_reread")
    /\ Goto(c, "c_save")
    /\ UNCHANGED <<dbVars, envVars, req, seen, landed>>

wrong_state_outcome(c) ==
    /\ At(c, "c_reread")
    /\ Answer(c, "wrong_state", StatusOf(get_action(req[c].action)))
    /\ seen' = [seen EXCEPT ![c] = get_action(req[c].action)]
    /\ UNCHANGED <<dbVars, envVars, req, landed>>

-----------------------------------------------------------------------------
(* execute_action, behind the route's ownership gate *)

\* Mutant: the gate only asks whether the action exists.
require_owner_or_admin_Exists(c) ==
    /\ At(c, "x_gate")
    /\ IF get_action(req[c].action) = NoRow THEN Answer(c, "http_404", "none")
       ELSE Goto(c, "x_get")
    /\ UNCHANGED <<dbVars, envVars, req, seen, landed>>

require_owner_or_admin(c) ==
    LET r == get_action(req[c].action) IN
    /\ At(c, "x_gate")
    /\ \/ r = NoRow /\ Answer(c, "http_404", "none")
       \/ r # NoRow /\ ~owner_or_admin(req[c].user, r) /\ Answer(c, "http_403", "none")
       \/ r # NoRow /\ owner_or_admin(req[c].user, r) /\ Goto(c, "x_get")
    /\ UNCHANGED <<dbVars, envVars, req, seen, landed>>

\* Mutant: a confirmed action is reported as done.
ExecuteCheck_Eager(r) ==
    IF r # NoRow /\ r.status \in {"CONFIRMED", "EXECUTED"} THEN "ok" ELSE "wrong_state"

ExecuteCheck(r) ==
    CASE r = NoRow -> "not_found"
      [] r # NoRow /\ r.status = "EXECUTED" -> "ok"
      [] r # NoRow /\ r.status = "CONFIRMED" -> "proceed"
      [] OTHER -> "wrong_state"

ExecuteGet(c) ==
    LET r == get_action(req[c].action)
        check == ExecuteCheck(r) IN
    /\ At(c, "x_get")
    /\ seen' = [seen EXCEPT ![c] = r]
    /\ \/ check = "proceed" /\ Goto(c, "x_save")
       \/ check # "proceed" /\ Answer(c, check, StatusOf(r))
    /\ UNCHANGED <<dbVars, envVars, req, landed>>

\* Mutant: the record is rebuilt without its confirmed_at.
ExecutedCopy_Rebuilt(q, r) ==
    [r EXCEPT !.status = "EXECUTED", !.executed_at = q.now, !.confirmed_at = NoTime]

ExecutedCopy(q, r) == [r EXCEPT !.status = "EXECUTED", !.executed_at = q.now]

ExecuteSave(c) ==
    /\ At(c, "x_save")
    /\ \/ /\ save_action_if_status(c, ExecutedCopy(req[c], seen[c]), "CONFIRMED")
          /\ Answer(c, "ok", "EXECUTED")
       \/ save_missed(c, "CONFIRMED") /\ Goto(c, "x_reread")
    /\ UNCHANGED <<tickets, envVars, req, seen>>

\* success=True with whatever the row says now: the code argues that it can
\* only be EXECUTED.
ExecuteReread(c) ==
    /\ At(c, "x_reread")
    /\ Answer(c, "ok", StatusOf(get_action(req[c].action)))
    /\ seen' = [seen EXCEPT ![c] = get_action(req[c].action)]
    /\ UNCHANGED <<dbVars, envVars, req, landed>>

get_owned_action_or_404(c) ==
    LET r == get_action(req[c].action)
        owned == r # NoRow /\ owner_or_admin(req[c].user, r) IN
    /\ At(c, "g_get")
    /\ \/ ~owned /\ Answer(c, "http_404", "none")
       \/ owned /\ Answer(c, "ok", r.status)
    /\ UNCHANGED <<dbVars, envVars, req, seen, landed>>

\* The response leaves the server.
Respond(c) ==
    /\ At(c, "replying")
    /\ pc' = [pc EXCEPT ![c] = "done"]
    /\ UNCHANGED <<dbVars, envVars, req, seen, landed, reply>>

-----------------------------------------------------------------------------
(* The environment *)

External == external < MaxExternal /\ external' = external + 1

\* A statement fails (SQLITE_BUSY past the busy timeout, I/O): the
\* transaction is rolled back and the catch-all handler answers 500.
DbError(c) ==
    /\ pc[c] \in Statements
    /\ External
    /\ Answer(c, "http_500", "none")
    /\ UNCHANGED <<dbVars, scope, now, req, seen, landed>>

\* The helpdesk's own write to the tickets table.
TicketChange(t) ==
    /\ External
    /\ \E s \in (TicketStatus \cup {"absent"}) \ {tickets[t]} :
          tickets' = [tickets EXCEPT ![t] = s]
    /\ UNCHANGED <<rows, scope, now, callVars>>

\* The snapshot time moves on; a request keeps the one it read.
Tick ==
    /\ now < MaxNow
    /\ External
    /\ now' = now + 1
    /\ UNCHANGED <<dbVars, scope, callVars>>

\* The server dies: committed rows stay, calls under way get no response.
LoseCalls ==
    pc' = [c \in Calls |-> IF pc[c] \in Statements \cup {"replying"} THEN "lost" ELSE pc[c]]

Crash ==
    /\ External
    /\ LoseCalls
    /\ UNCHANGED <<dbVars, scope, now, req, seen, landed, reply>>

\* A redeployment with another demo-user registry.
Redeploy(u) ==
    /\ External
    /\ LoseCalls
    /\ \E accounts \in SUBSET Accounts \ {scope[u]} :
          scope' = [scope EXCEPT ![u] = accounts]
    /\ UNCHANGED <<dbVars, now, req, seen, landed, reply>>

-----------------------------------------------------------------------------

Route(c) == prepare(c) \/ confirm(c) \/ execute(c) \/ get_action_route(c)

PrepareStep(c) == PrepareTicket(c) \/ PrepareSla(c) \/ insert_action(c)

ConfirmStep(c) ==
    ConfirmGet(c) \/ ConfirmTicket(c) \/ ConfirmSave(c) \/ ConfirmExpire(c)
      \/ wrong_state_outcome(c)

ExecuteStep(c) ==
    require_owner_or_admin(c) \/ ExecuteGet(c) \/ ExecuteSave(c) \/ ExecuteReread(c)

\* A worker thread's next step in the handler of call c.
Handle(c) ==
    PrepareStep(c) \/ ConfirmStep(c) \/ ExecuteStep(c)
      \/ get_owned_action_or_404(c) \/ Respond(c)

Environment ==
    \/ \E c \in Calls : DbError(c)
    \/ \E t \in Tickets : TicketChange(t)
    \/ Tick
    \/ Crash
    \/ \E u \in Users : Redeploy(u)

\* Every call has been answered or lost; the model has no more of them.
Quiescent == (\A c \in Calls : pc[c] \in Finished) /\ UNCHANGED vars

Next == (\E c \in Calls : Route(c) \/ Handle(c)) \/ Environment \/ Quiescent

\* A handler that has started keeps running: the thread pool is fair.
Fairness == \A c \in Calls : WF_vars(Handle(c))

Spec == Init /\ [][Next]_vars /\ Fairness

=============================================================================
