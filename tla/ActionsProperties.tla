-------------------------- MODULE ActionsProperties --------------------------
(***************************************************************************)
(* What makes the escalation workflow of Actions correct: its safety and   *)
(* liveness properties, the ledger it implements, and the inductive        *)
(* invariant from which the safety properties are proved.                  *)
(***************************************************************************)
EXTENDS Actions

\* The calls whose conditional UPDATE moved action a to status s.
Landed(a, s) == {c \in Calls : landed[c] = s /\ req[c].action = a}

\* However many confirm_action and execute_action calls race on an action, each
\* transition is made by one call, and an action is never both confirmed and
\* expired (save_action_if_status is meant to let one concurrent caller win).
OneWinner ==
    \A a \in ActionIds :
        /\ \A s \in {"CONFIRMED", "EXECUTED", "EXPIRED"} : \A c, d \in Landed(a, s) : c = d
        /\ Landed(a, "CONFIRMED") = {} \/ Landed(a, "EXPIRED") = {}

\* The actions row is the audit log: its status is the one that the committed
\* transitions of all calls add up to, crashes and lost responses included, so
\* in particular nothing is EXECUTED that no call confirmed.
AuditRowMatchesHistory ==
    \A a \in ActionIds :
        /\ StatusOf(rows[a]) \in {"CONFIRMED", "EXECUTED"} <=> Landed(a, "CONFIRMED") # {}
        /\ StatusOf(rows[a]) = "EXECUTED" <=> Landed(a, "EXECUTED") # {}
        /\ StatusOf(rows[a]) = "EXPIRED" <=> Landed(a, "EXPIRED") # {}

\* A confirmed action was confirmed by the user who prepared it, with the hash
\* of exactly what was prepared, by a request that could see the target's
\* account then, however its scope was at prepare time (confirm_action).
ConfirmedByOwner ==
    \A c \in Calls :
        landed[c] = "CONFIRMED" =>
            LET r == rows[req[c].action] IN
            /\ req[c].user = r.user_id
            /\ req[c].hash = r.payload_hash
            /\ AccountOf[r.target] \in req[c].scope
            /\ req[c].now = r.confirmed_at

\* The call that executed an action came from its owner or an admin
\* (the route's gate, read in an earlier statement than the UPDATE).
ExecutedByOwnerOrAdmin ==
    \A c \in Calls :
        landed[c] = "EXECUTED" => owner_or_admin(req[c].user, rows[req[c].action])

\* The audit timestamps are present exactly when their transition happened,
\* and a confirmation falls between prepare and the end of the window, its last
\* minute included; the stale copy that execute writes back loses none of them.
\* An action is only marked EXPIRED once its window is over, whoever's late
\* confirm marks it.
AuditTimes ==
    \A a \in ActionIds :
        rows[a] # NoRow =>
            LET r == rows[a] IN
            /\ r.confirmed_at # NoTime <=> r.status \in {"CONFIRMED", "EXECUTED"}
            /\ r.executed_at # NoTime <=> r.status = "EXECUTED"
            /\ r.confirmed_at # NoTime =>
                  r.prepared_at <= r.confirmed_at /\ r.confirmed_at <= r.expires_at
            /\ r.executed_at # NoTime => r.prepared_at <= r.executed_at
            /\ r.status = "EXPIRED" => now > r.expires_at

\* The response of a confirm reports success, or expiry, exactly when its own
\* write was committed, and a refusal for the wrong state never shows the stale
\* PENDING_CONFIRMATION record; an execute reports success only for an action
\* that is EXECUTED, and shows it so (the lost-race branches of both).
HonestReplies ==
    \A c \in Calls :
        /\ KindOf[c] = "confirm" =>
              /\ reply[c].code = "ok" <=> landed[c] = "CONFIRMED"
              /\ reply[c].code = "expired" <=> landed[c] = "EXPIRED"
              /\ reply[c].code = "wrong_state" => reply[c].status # "PENDING_CONFIRMATION"
        /\ KindOf[c] = "execute" =>
              /\ reply[c].code = "ok" =>
                    /\ reply[c].status = "EXECUTED"
                    /\ get_action(req[c].action) # NoRow
                    /\ get_action(req[c].action).status = "EXECUTED"
              /\ landed[c] = "EXECUTED" => reply[c].code = "ok"

Proposal(r) ==
    <<r.user_id, r.target, r.previous_status, r.payload_hash, r.prepared_at, r.expires_at>>

\* No step of any call, crash or redeployment deletes an audit row, alters what
\* was proposed, rewrites a timestamp once set, or takes a status backwards.
AuditTrailOnlyGrows ==
    [][\A a \in ActionIds :
          rows[a] # NoRow =>
              /\ rows'[a] # NoRow
              /\ Proposal(rows'[a]) = Proposal(rows[a])
              /\ rows[a].confirmed_at # NoTime => rows'[a].confirmed_at = rows[a].confirmed_at
              /\ rows[a].executed_at # NoTime => rows'[a] = rows[a]
              /\ rows'[a].status # rows[a].status =>
                    <<rows[a].status, rows'[a].status>> \in
                        {<<"PENDING_CONFIRMATION", "CONFIRMED">>,
                         <<"PENDING_CONFIRMATION", "EXPIRED">>,
                         <<"CONFIRMED", "EXECUTED">>}]_vars

\* Every call that the server accepted is answered or dies with the server:
\* losing a race ends a call, it never makes it try again.
EveryCallEnds == \A c \in Calls : pc[c] # "idle" ~> pc[c] \in Finished

\* What the docs say of confirm: an action is only confirmed while its target
\* is in the state it was prepared in.
ConfirmedTargetUnchanged ==
    [][\A c \in Calls :
          landed[c] = "nothing" /\ landed'[c] = "CONFIRMED" =>
              tickets[seen[c].target] = seen[c].previous_status]_vars

-----------------------------------------------------------------------------
(* Refinement: the statements of a handler implement the ledger's steps.   *)

ledger == [a \in ActionIds |-> IF rows[a] = NoRow THEN "absent" ELSE rows[a].status]
subject == [c \in Calls |-> req[c].action]
answer ==
    [c \in Calls |->
        CASE pc[c] = "idle" -> "idle"
          [] pc[c] = "lost" -> "lost"
          [] pc[c] = "done" -> IF reply[c].code = "ok" THEN "success" ELSE "refused"
          [] OTHER -> "open"]

Ledger == INSTANCE ActionLedger WITH effect <- landed

\* The workflow implements the ledger, its liveness included.
ImplementsLedger == Ledger!Spec

-----------------------------------------------------------------------------
(* The inductive invariant: what the local snapshot of a call still says   *)
(* of the row it was read from, however stale it is.                       *)

\* What a row may become: nothing of the proposal changes, the status only
\* moves forward, and a timestamp that is set stays.
Evolves(old, new) ==
    \/ new = old
    \/ old = NoRow
    \/ /\ old # NoRow
       /\ new # NoRow
       /\ Proposal(new) = Proposal(old)
       /\ \/ /\ old.status = "PENDING_CONFIRMATION"
             /\ new.status \in {"CONFIRMED", "EXPIRED"}
          \/ /\ old.status = "CONFIRMED"
             /\ new.status = "EXECUTED"
             /\ new.confirmed_at = old.confirmed_at

RowOK(r) ==
    /\ r.prepared_at <= now
    /\ r.confirmed_at # NoTime <=> r.status \in {"CONFIRMED", "EXECUTED"}
    /\ r.executed_at # NoTime <=> r.status = "EXECUTED"
    /\ r.confirmed_at # NoTime =>
          r.prepared_at <= r.confirmed_at /\ r.confirmed_at <= r.expires_at
    /\ r.executed_at # NoTime => r.prepared_at <= r.executed_at
    /\ r.status = "EXPIRED" => now > r.expires_at

\* A call belongs to its route and has changed nothing while under way.
RequestOK(c) ==
    /\ req[c].now <= now
    /\ req[c].action \in ActionIds =>
          rows[req[c].action] # NoRow /\ rows[req[c].action].prepared_at <= req[c].now
    /\ pc[c] = "idle" => req[c].action = NoId
    /\ pc[c] \in {"idle"} \cup Statements => landed[c] = "nothing" /\ reply[c] = NoReply
    /\ pc[c] \in {"p_ticket", "p_sla", "p_insert"} =>
          KindOf[c] = "prepare" /\ req[c].target \in Tickets
    /\ pc[c] \in {"c_get", "c_ticket", "c_save", "c_expire", "c_reread"} =>
          KindOf[c] = "confirm"
    /\ pc[c] \in {"x_gate", "x_get", "x_save", "x_reread"} => KindOf[c] = "execute"
    /\ pc[c] = "g_get" => KindOf[c] = "get"

\* What the snapshot of a confirm still says of the row, however old it is.
ConfirmOK(c) ==
    /\ pc[c] \in {"c_ticket", "c_save", "c_expire", "c_reread"} => req[c].action \in ActionIds
    /\ pc[c] \in {"c_ticket", "c_save", "c_expire"} =>
          /\ seen[c] # NoRow
          /\ Proposal(seen[c]) = Proposal(rows[req[c].action])
          /\ seen[c].status = "PENDING_CONFIRMATION"
          /\ seen[c].confirmed_at = NoTime
          /\ seen[c].executed_at = NoTime
    /\ pc[c] \in {"c_ticket", "c_save"} =>
          /\ req[c].now <= seen[c].expires_at
          /\ req[c].user = seen[c].user_id
          /\ req[c].hash = seen[c].payload_hash
    /\ pc[c] = "c_save" => AccountOf[seen[c].target] \in req[c].scope
    /\ pc[c] = "c_expire" => req[c].now > seen[c].expires_at
    /\ pc[c] = "c_reread" => rows[req[c].action].status # "PENDING_CONFIRMATION"

\* Once an execute has seen CONFIRMED, the row is CONFIRMED or EXECUTED for
\* good: an execute that loses the race lost it to another execute.
ExecuteOK(c) ==
    /\ pc[c] \in {"x_get", "x_save", "x_reread"} =>
          req[c].action \in ActionIds /\ owner_or_admin(req[c].user, rows[req[c].action])
    /\ pc[c] = "x_save" =>
          /\ seen[c] # NoRow
          /\ seen[c].status = "CONFIRMED"
          /\ seen[c].confirmed_at = rows[req[c].action].confirmed_at
          /\ seen[c].executed_at = NoTime
          /\ rows[req[c].action].status \in {"CONFIRMED", "EXECUTED"}
    /\ pc[c] = "x_reread" => rows[req[c].action].status = "EXECUTED"

\* What a committed write left behind, and what the caller is told of it.
OutcomeOK(c) ==
    /\ landed[c] = "PENDING_CONFIRMATION" => KindOf[c] = "prepare" /\ reply[c].code = "ok"
    /\ landed[c] = "CONFIRMED" =>
          /\ KindOf[c] = "confirm"
          /\ reply[c].code = "ok"
          /\ req[c].action \in ActionIds
          /\ rows[req[c].action].status \in {"CONFIRMED", "EXECUTED"}
          /\ req[c].user = rows[req[c].action].user_id
          /\ req[c].hash = rows[req[c].action].payload_hash
          /\ AccountOf[rows[req[c].action].target] \in req[c].scope
          /\ req[c].now = rows[req[c].action].confirmed_at
    /\ landed[c] = "EXPIRED" =>
          /\ KindOf[c] = "confirm"
          /\ reply[c].code = "expired"
          /\ req[c].action \in ActionIds
          /\ rows[req[c].action].status = "EXPIRED"
    /\ landed[c] = "EXECUTED" =>
          /\ KindOf[c] = "execute"
          /\ reply[c].code = "ok"
          /\ req[c].action \in ActionIds
          /\ rows[req[c].action].status = "EXECUTED"
          /\ owner_or_admin(req[c].user, rows[req[c].action])
    /\ reply[c].code = "ok" =>
          /\ KindOf[c] = "prepare" => landed[c] = "PENDING_CONFIRMATION"
          /\ KindOf[c] = "confirm" => landed[c] = "CONFIRMED"
          /\ KindOf[c] \in {"execute", "get"} => req[c].action \in ActionIds
          /\ KindOf[c] = "execute" =>
                reply[c].status = "EXECUTED" /\ rows[req[c].action].status = "EXECUTED"
    /\ reply[c].code = "expired" => landed[c] = "EXPIRED"
    /\ reply[c].code = "wrong_state" /\ KindOf[c] = "confirm" =>
          reply[c].status # "PENDING_CONFIRMATION"

\* Every status above PENDING_CONFIRMATION was reached by some call's write.
HistoryOK ==
    \A a \in ActionIds :
        /\ StatusOf(rows[a]) \in {"CONFIRMED", "EXECUTED"} => Landed(a, "CONFIRMED") # {}
        /\ StatusOf(rows[a]) = "EXECUTED" => Landed(a, "EXECUTED") # {}
        /\ StatusOf(rows[a]) = "EXPIRED" => Landed(a, "EXPIRED") # {}

\* The type, the rows, every call, and the history: preserved by every step.
IndInv ==
    /\ TypeOK
    /\ \A a \in ActionIds : rows[a] # NoRow => RowOK(rows[a])
    /\ \A c \in Calls : RequestOK(c) /\ ConfirmOK(c) /\ ExecuteOK(c) /\ OutcomeOK(c)
    /\ HistoryOK
    /\ OneWinner

=============================================================================
