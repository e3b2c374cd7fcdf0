--------------------------- MODULE ActionsProofs ---------------------------
(***************************************************************************)
(* Proofs about the escalation workflow, for any number of calls, users,   *)
(* actions, tickets and accounts, any deadlines and any expiry window.     *)
(***************************************************************************)
EXTENDS ActionsProperties, TLAPS

-----------------------------------------------------------------------------
(* Type correctness *)

\* Goto and Answer leave pc and reply well-typed.
LEMMA GotoType ==
    ASSUME TypeOK, NEW c \in Calls, NEW s \in ControlPoints, Goto(c, s)
    PROVE  pc' \in [Calls -> ControlPoints] /\ reply' \in [Calls -> Reply]
BY DEF TypeOK, Goto

\* An outcome is a well-typed reply.
LEMMA AnswerType ==
    ASSUME TypeOK, NEW c \in Calls, NEW code \in {"ok"} \cup Refusals,
           NEW status \in ActionStatus \cup {"none"}, Answer(c, code, status)
    PROVE  pc' \in [Calls -> ControlPoints] /\ reply' \in [Calls -> Reply]
BY DEF TypeOK, Answer, Reply, ControlPoints

\* get_action returns a row or None.
LEMMA GetActionType ==
    ASSUME TypeOK, NEW a
    PROVE  /\ get_action(a) \in ActionRecord \cup {NoRow}
           /\ StatusOf(get_action(a)) \in ActionStatus \cup {"none"}
BY DEF TypeOK, get_action, StatusOf, ActionRecord

\* The checks of the handlers yield an outcome code or let the handler go on.
LEMMA CheckTypes ==
    ASSUME TypeOK
    PROVE  /\ \A t \in Tickets : \A accounts :
                 get_ticket(t, accounts) \in TicketStatus \cup {"not_found", "not_authorized"}
           /\ \A s : PrepareTicketCheck(s) \in {"proceed"} \cup Refusals
           /\ \A t, time : EligibilityCheck(t, time) \in {"proceed"} \cup Refusals
           /\ \A q, r : ConfirmCheck(q, r) \in {"proceed", "expire"} \cup Refusals
           /\ \A s, p : ConfirmTicketCheck(s, p) \in {"proceed"} \cup Refusals
           /\ \A r : ExecuteCheck(r) \in {"proceed", "ok"} \cup Refusals
<1>1. \A t \in Tickets : \A accounts :
          get_ticket(t, accounts) \in TicketStatus \cup {"not_found", "not_authorized"}
  BY DEF TypeOK, get_ticket
<1>2. \A s : PrepareTicketCheck(s) \in {"proceed"} \cup Refusals
  BY DEF PrepareTicketCheck, Refusals
<1>3. \A t, time : EligibilityCheck(t, time) \in {"proceed"} \cup Refusals
  BY DEF EligibilityCheck, Refusals
<1>4. \A q, r : ConfirmCheck(q, r) \in {"proceed", "expire"} \cup Refusals
  BY DEF ConfirmCheck, Refusals
<1>5. \A s, p : ConfirmTicketCheck(s, p) \in {"proceed"} \cup Refusals
  BY DEF ConfirmTicketCheck, Refusals
<1>6. \A r : ExecuteCheck(r) \in {"proceed", "ok"} \cup Refusals
  BY DEF ExecuteCheck, Refusals
<1>7. QED
  BY <1>1, <1>2, <1>3, <1>4, <1>5, <1>6

\* save_action_if_status writes a well-formed row.
LEMMA SaveType ==
    ASSUME TypeOK, NEW c \in Calls, NEW record \in ActionRecord, NEW expected,
           req[c].action \in ActionIds, save_action_if_status(c, record, expected)
    PROVE  /\ rows' \in [ActionIds -> ActionRecord \cup {NoRow}]
           /\ landed' \in [Calls -> {"nothing"} \cup ActionStatus]
<1>1. rows[req[c].action] \in ActionRecord
  BY DEF TypeOK, save_action_if_status, Matches
<1>2. Overwrite(rows[req[c].action], record) \in ActionRecord
  BY <1>1 DEF Overwrite, ActionRecord
<1>3. record.status \in ActionStatus
  BY DEF ActionRecord
<1>4. QED
  BY <1>2, <1>3 DEF TypeOK, save_action_if_status

\* The row of a new proposal is well-formed.
LEMMA NewRecordType ==
    ASSUME NEW q \in Request, q.target \in Tickets
    PROVE  NewRecord(q) \in ActionRecord
<1>1. Breached(q.target, q.now) \in BOOLEAN
  BY DEF Breached
<1>2. PayloadHash(q.target, Breached(q.target, q.now)) \in Hashes
  BY <1>1 DEF PayloadHash, Hashes
<1>3. QED
  BY <1>2, ConstantsOK DEF NewRecord, ActionRecord, Request, Time, TicketStatus, ActionStatus

\* The four writes to the actions table, and what they leave well-typed.
LEMMA WriteTypes ==
    ASSUME IndInv, NEW c \in Calls
    PROVE  /\ insert_action(c) => TypeOK'
           /\ ConfirmSave(c) => TypeOK'
           /\ ConfirmExpire(c) => TypeOK'
           /\ ExecuteSave(c) => TypeOK'
<1>0. TypeOK /\ RequestOK(c) /\ ConfirmOK(c) /\ ExecuteOK(c)
  BY DEF IndInv
<1>1. ASSUME insert_action(c) PROVE TypeOK'
  <2>1. req[c].target \in Tickets /\ req[c] \in Request
    BY <1>0, <1>1 DEF insert_action, At, RequestOK, TypeOK
  <2>2. NewRecord(req[c]) \in ActionRecord
    BY <2>1, NewRecordType
  <2>3. /\ rows' \in [ActionIds -> ActionRecord \cup {NoRow}]
        /\ landed' \in [Calls -> {"nothing"} \cup ActionStatus]
    BY <1>0, <1>1, <2>2 DEF insert_action, TypeOK, ActionStatus
  <2>4. pc' \in [Calls -> ControlPoints] /\ reply' \in [Calls -> Reply]
    BY <1>0, <1>1, AnswerType DEF insert_action, ActionStatus
  <2>5. QED
    BY <1>0, <1>1, <2>3, <2>4 DEF insert_action, TypeOK, envVars
<1>2. ASSUME ConfirmSave(c) PROVE TypeOK'
  <2>1. /\ req[c].action \in ActionIds
        /\ seen[c] \in ActionRecord
        /\ req[c].now \in Nat
    BY <1>0, <1>2 DEF ConfirmSave, At, ConfirmOK, TypeOK, Request
  <2>2. ConfirmedCopy(req[c], seen[c]) \in ActionRecord
    BY <2>1 DEF ConfirmedCopy, ActionRecord, ActionStatus, Time
  <2>3. /\ rows' \in [ActionIds -> ActionRecord \cup {NoRow}]
        /\ landed' \in [Calls -> {"nothing"} \cup ActionStatus]
    BY <1>0, <1>2, <2>1, <2>2, SaveType DEF ConfirmSave, save_missed, TypeOK
  <2>4. pc' \in [Calls -> ControlPoints] /\ reply' \in [Calls -> Reply]
    BY <1>0, <1>2, AnswerType, GotoType
    DEF ConfirmSave, ActionStatus, ControlPoints, Statements
  <2>5. QED
    BY <1>0, <1>2, <2>3, <2>4 DEF ConfirmSave, TypeOK, envVars
<1>3. ASSUME ConfirmExpire(c) PROVE TypeOK'
  <2>1. req[c].action \in ActionIds /\ seen[c] \in ActionRecord
    BY <1>0, <1>3 DEF ConfirmExpire, At, ConfirmOK, TypeOK
  <2>2. [seen[c] EXCEPT !.status = "EXPIRED"] \in ActionRecord
    BY <2>1 DEF ActionRecord, ActionStatus
  <2>3. /\ rows' \in [ActionIds -> ActionRecord \cup {NoRow}]
        /\ landed' \in [Calls -> {"nothing"} \cup ActionStatus]
    BY <1>0, <1>3, <2>1, <2>2, SaveType DEF ConfirmExpire, save_missed, TypeOK
  <2>4. pc' \in [Calls -> ControlPoints] /\ reply' \in [Calls -> Reply]
    BY <1>0, <1>3, AnswerType, GotoType
    DEF ConfirmExpire, ActionStatus, ControlPoints, Statements, Refusals
  <2>5. QED
    BY <1>0, <1>3, <2>3, <2>4 DEF ConfirmExpire, TypeOK, envVars
<1>4. ASSUME ExecuteSave(c) PROVE TypeOK'
  <2>1. /\ req[c].action \in ActionIds
        /\ seen[c] \in ActionRecord
        /\ req[c].now \in Nat
    BY <1>0, <1>4 DEF ExecuteSave, At, ExecuteOK, TypeOK, Request
  <2>2. ExecutedCopy(req[c], seen[c]) \in ActionRecord
    BY <2>1 DEF ExecutedCopy, ActionRecord, ActionStatus, Time
  <2>3. /\ rows' \in [ActionIds -> ActionRecord \cup {NoRow}]
        /\ landed' \in [Calls -> {"nothing"} \cup ActionStatus]
    BY <1>0, <1>4, <2>1, <2>2, SaveType DEF ExecuteSave, save_missed, TypeOK
  <2>4. pc' \in [Calls -> ControlPoints] /\ reply' \in [Calls -> Reply]
    BY <1>0, <1>4, AnswerType, GotoType
    DEF ExecuteSave, ActionStatus, ControlPoints, Statements
  <2>5. QED
    BY <1>0, <1>4, <2>3, <2>4 DEF ExecuteSave, TypeOK, envVars
<1>5. QED
  BY <1>1, <1>2, <1>3, <1>4

\* Receiving a request builds a well-typed one.
LEMMA RouteType ==
    ASSUME TypeOK, NEW c \in Calls, Route(c)
    PROVE  TypeOK'
<1>1. PICK u \in Users, t \in Tickets \cup {NoId}, a \in ActionIds \cup {NoId},
           h \in Hashes \cup {NoHash} : Receive(c, u, t, a, h)
  BY DEF Route, prepare, confirm, execute, get_action_route, KnownIds
<1>2. [user |-> u, scope |-> scope[u], now |-> now, target |-> t, action |-> a, hash |-> h]
        \in Request
  BY DEF TypeOK, Request
<1>3. FirstStatement[KindOf[c]] \in ControlPoints
  BY ConstantsOK DEF FirstStatement, Kinds, ControlPoints, Statements
<1>4. QED
  BY <1>1, <1>2, <1>3 DEF Receive, TypeOK, dbVars, envVars

\* The statements that only read.
Reads(c) ==
    \/ PrepareTicket(c) \/ PrepareSla(c) \/ ConfirmGet(c) \/ ConfirmTicket(c)
    \/ wrong_state_outcome(c) \/ require_owner_or_admin(c) \/ ExecuteGet(c)
    \/ ExecuteReread(c) \/ get_owned_action_or_404(c) \/ Respond(c)

\* The statements that only read keep the types.
LEMMA ReadTypes ==
    ASSUME IndInv, NEW c \in Calls, Reads(c)
    PROVE  TypeOK'
<1>0. TypeOK /\ RequestOK(c) /\ ConfirmOK(c) /\ ExecuteOK(c)
  BY DEF IndInv
<1>1. /\ {"p_sla", "p_insert", "c_ticket", "c_expire", "c_save", "x_get", "x_save"}
            \subseteq ControlPoints
      /\ "none" \in ActionStatus \cup {"none"}
      /\ {"http_404", "http_403", "wrong_state"} \subseteq Refusals
  BY DEF ControlPoints, Statements, Refusals
<1>2. CASE PrepareTicket(c)
  <2>1. pc' \in [Calls -> ControlPoints] /\ reply' \in [Calls -> Reply]
    BY <1>0, <1>1, <1>2, CheckTypes, GotoType, AnswerType DEF PrepareTicket
  <2>2. QED
    BY <1>0, <1>2, <2>1 DEF PrepareTicket, TypeOK, dbVars, envVars
<1>3. CASE PrepareSla(c)
  <2>1. pc' \in [Calls -> ControlPoints] /\ reply' \in [Calls -> Reply]
    BY <1>0, <1>1, <1>3, CheckTypes, GotoType, AnswerType DEF PrepareSla
  <2>2. QED
    BY <1>0, <1>3, <2>1 DEF PrepareSla, TypeOK, dbVars, envVars
<1>4. CASE ConfirmGet(c)
  <2>1. pc' \in [Calls -> ControlPoints] /\ reply' \in [Calls -> Reply]
    BY <1>0, <1>1, <1>4, CheckTypes, GetActionType, GotoType, AnswerType DEF ConfirmGet
  <2>2. seen' \in [Calls -> ActionRecord \cup {NoRow}]
    BY <1>0, <1>4, GetActionType DEF ConfirmGet, TypeOK
  <2>3. QED
    BY <1>0, <1>4, <2>1, <2>2 DEF ConfirmGet, TypeOK, dbVars, envVars
<1>5. CASE ConfirmTicket(c)
  <2>1. seen[c] \in ActionRecord
    BY <1>0, <1>5 DEF ConfirmTicket, At, ConfirmOK, TypeOK
  <2>2. seen[c].status \in ActionStatus
    BY <2>1 DEF ActionRecord
  <2>3. pc' \in [Calls -> ControlPoints] /\ reply' \in [Calls -> Reply]
    BY <1>0, <1>1, <1>5, <2>2, CheckTypes, GotoType, AnswerType DEF ConfirmTicket
  <2>4. QED
    BY <1>0, <1>5, <2>3 DEF ConfirmTicket, TypeOK, dbVars, envVars
<1>6. CASE wrong_state_outcome(c)
  <2>1. pc' \in [Calls -> ControlPoints] /\ reply' \in [Calls -> Reply]
    BY <1>0, <1>1, <1>6, GetActionType, AnswerType DEF wrong_state_outcome
  <2>2. seen' \in [Calls -> ActionRecord \cup {NoRow}]
    BY <1>0, <1>6, GetActionType DEF wrong_state_outcome, TypeOK
  <2>3. QED
    BY <1>0, <1>6, <2>1, <2>2 DEF wrong_state_outcome, TypeOK, dbVars, envVars
<1>7. CASE require_owner_or_admin(c)
  <2>1. pc' \in [Calls -> ControlPoints] /\ reply' \in [Calls -> Reply]
    BY <1>0, <1>1, <1>7, GotoType, AnswerType DEF require_owner_or_admin
  <2>2. QED
    BY <1>0, <1>7, <2>1 DEF require_owner_or_admin, TypeOK, dbVars, envVars
<1>8. CASE ExecuteGet(c)
  <2>1. pc' \in [Calls -> ControlPoints] /\ reply' \in [Calls -> Reply]
    BY <1>0, <1>1, <1>8, CheckTypes, GetActionType, GotoType, AnswerType DEF ExecuteGet
  <2>2. seen' \in [Calls -> ActionRecord \cup {NoRow}]
    BY <1>0, <1>8, GetActionType DEF ExecuteGet, TypeOK
  <2>3. QED
    BY <1>0, <1>8, <2>1, <2>2 DEF ExecuteGet, TypeOK, dbVars, envVars
<1>9. CASE ExecuteReread(c)
  <2>1. pc' \in [Calls -> ControlPoints] /\ reply' \in [Calls -> Reply]
    BY <1>0, <1>1, <1>9, GetActionType, AnswerType DEF ExecuteReread
  <2>2. seen' \in [Calls -> ActionRecord \cup {NoRow}]
    BY <1>0, <1>9, GetActionType DEF ExecuteReread, TypeOK
  <2>3. QED
    BY <1>0, <1>9, <2>1, <2>2 DEF ExecuteReread, TypeOK, dbVars, envVars
<1>10. CASE get_owned_action_or_404(c)
  <2>1. get_action(req[c].action) # NoRow => get_action(req[c].action).status \in ActionStatus
    BY <1>0, GetActionType DEF ActionRecord
  <2>2. pc' \in [Calls -> ControlPoints] /\ reply' \in [Calls -> Reply]
    BY <1>0, <1>1, <1>10, <2>1, AnswerType DEF get_owned_action_or_404
  <2>3. QED
    BY <1>0, <1>10, <2>2 DEF get_owned_action_or_404, TypeOK, dbVars, envVars
<1>11. CASE Respond(c)
  BY <1>0, <1>11 DEF Respond, TypeOK, ControlPoints, Finished, dbVars, envVars
<1>12. QED
  BY <1>2, <1>3, <1>4, <1>5, <1>6, <1>7, <1>8, <1>9, <1>10, <1>11 DEF Reads

\* Failures, crashes, time and the helpdesk keep the types.
LEMMA EnvironmentTypes ==
    ASSUME TypeOK, Environment
    PROVE  TypeOK'
<1>1. External => external' \in Nat
  BY DEF External, TypeOK
<1>2. ASSUME NEW c \in Calls, DbError(c) PROVE TypeOK'
  <2>1. pc' \in [Calls -> ControlPoints] /\ reply' \in [Calls -> Reply]
    BY <1>2, AnswerType DEF DbError, Refusals
  <2>2. QED
    BY <1>1, <1>2, <2>1 DEF DbError, TypeOK, dbVars
<1>3. ASSUME NEW t \in Tickets, TicketChange(t) PROVE TypeOK'
  BY <1>1, <1>3 DEF TicketChange, TypeOK, callVars
<1>4. CASE Tick
  BY <1>1, <1>4 DEF Tick, TypeOK, dbVars, callVars
<1>5. LoseCalls => pc' \in [Calls -> ControlPoints]
  BY DEF LoseCalls, TypeOK, ControlPoints, Finished
<1>6. CASE Crash
  BY <1>1, <1>5, <1>6 DEF Crash, TypeOK, dbVars
<1>7. ASSUME NEW u \in Users, Redeploy(u) PROVE TypeOK'
  BY <1>1, <1>5, <1>7 DEF Redeploy, TypeOK, dbVars
<1>8. QED
  BY <1>2, <1>3, <1>4, <1>6, <1>7 DEF Environment

\* A handler either reads or makes one of the four writes.
LEMMA HandleCases ==
    ASSUME NEW c \in Calls, Handle(c)
    PROVE  Reads(c) \/ insert_action(c) \/ ConfirmSave(c) \/ ConfirmExpire(c) \/ ExecuteSave(c)
BY DEF Handle, PrepareStep, ConfirmStep, ExecuteStep, Reads

\* Every step keeps the types, given what the invariant says of the snapshots.
LEMMA TypeStep ==
    ASSUME IndInv, [Next]_vars
    PROVE  TypeOK'
<1>0. TypeOK
  BY DEF IndInv
<1>1. ASSUME NEW c \in Calls, Route(c) PROVE TypeOK'
  BY <1>0, <1>1, RouteType
<1>2. ASSUME NEW c \in Calls, Handle(c) PROVE TypeOK'
  BY <1>2, HandleCases, ReadTypes, WriteTypes
<1>3. CASE Environment
  BY <1>0, <1>3, EnvironmentTypes
<1>4. CASE UNCHANGED vars
  BY <1>0, <1>4 DEF TypeOK, vars
<1>5. QED
  BY <1>1, <1>2, <1>3, <1>4 DEF Next, Quiescent

-----------------------------------------------------------------------------
(* Rows only move forward *)

\* What a committed conditional UPDATE does to the table.
LEMMA SaveEffect ==
    ASSUME TypeOK, NEW c \in Calls, NEW record \in ActionRecord, NEW expected,
           req[c].action \in ActionIds, save_action_if_status(c, record, expected)
    PROVE  LET a == req[c].action IN
           /\ rows[a] \in ActionRecord
           /\ rows[a].status = expected
           /\ \A b \in ActionIds : b # a => rows'[b] = rows[b]
           /\ rows'[a] \in ActionRecord
           /\ Proposal(rows'[a]) = Proposal(rows[a])
           /\ rows'[a].status = record.status
           /\ rows'[a].confirmed_at = record.confirmed_at
           /\ rows'[a].executed_at = record.executed_at
           /\ rows'[a].prepared_at = rows[a].prepared_at
           /\ rows'[a].expires_at = rows[a].expires_at
           /\ landed'[c] = record.status
           /\ \A d \in Calls : d # c => landed'[d] = landed[d]
<1>1. rows[req[c].action] \in ActionRecord
  BY DEF TypeOK, save_action_if_status, Matches
<1>2. rows'[req[c].action] = Overwrite(rows[req[c].action], record)
  BY DEF TypeOK, save_action_if_status
<1>3. QED
  BY <1>1, <1>2 DEF TypeOK, save_action_if_status, Matches, Overwrite, ActionRecord, Proposal

\* What each of the three conditional UPDATEs does to its row: the copy that is
\* written back agrees with the row in everything the row already had.
LEMMA ConfirmSaved ==
    ASSUME IndInv, NEW c \in Calls, ConfirmSave(c), landed' # landed
    PROVE  LET a == req[c].action IN
           /\ a \in ActionIds
           /\ save_action_if_status(c, ConfirmedCopy(req[c], seen[c]), "PENDING_CONFIRMATION")
           /\ ConfirmedCopy(req[c], seen[c]) \in ActionRecord
           /\ ConfirmedCopy(req[c], seen[c]).status = "CONFIRMED"
           /\ ConfirmedCopy(req[c], seen[c]).confirmed_at = req[c].now
           /\ ConfirmedCopy(req[c], seen[c]).executed_at = NoTime
           /\ Answer(c, "ok", "CONFIRMED")
<1>0. TypeOK /\ ConfirmOK(c)
  BY DEF IndInv
<1>1. /\ req[c].action \in ActionIds
      /\ seen[c] \in ActionRecord
      /\ req[c].now \in Nat
      /\ seen[c].executed_at = NoTime
  BY <1>0 DEF ConfirmSave, At, ConfirmOK, TypeOK, Request
<1>2. QED
  BY <1>1 DEF ConfirmSave, save_missed, ConfirmedCopy, ActionRecord, ActionStatus, Time

\* The expiring UPDATE of a late confirm.
LEMMA ConfirmExpired ==
    ASSUME IndInv, NEW c \in Calls, ConfirmExpire(c), landed' # landed
    PROVE  LET a == req[c].action
               copy == [seen[c] EXCEPT !.status = "EXPIRED"] IN
           /\ a \in ActionIds
           /\ save_action_if_status(c, copy, "PENDING_CONFIRMATION")
           /\ copy \in ActionRecord
           /\ copy.status = "EXPIRED"
           /\ copy.confirmed_at = NoTime
           /\ copy.executed_at = NoTime
           /\ Answer(c, "expired", "EXPIRED")
<1>0. TypeOK /\ ConfirmOK(c)
  BY DEF IndInv
<1>1. /\ req[c].action \in ActionIds
      /\ seen[c] \in ActionRecord
      /\ seen[c].confirmed_at = NoTime
      /\ seen[c].executed_at = NoTime
  BY <1>0 DEF ConfirmExpire, At, ConfirmOK, TypeOK
<1>2. QED
  BY <1>1 DEF ConfirmExpire, save_missed, ActionRecord, ActionStatus

\* The UPDATE of an execute writes back the confirmed_at that the row has.
LEMMA ExecuteSaved ==
    ASSUME IndInv, NEW c \in Calls, ExecuteSave(c), landed' # landed
    PROVE  LET a == req[c].action IN
           /\ a \in ActionIds
           /\ save_action_if_status(c, ExecutedCopy(req[c], seen[c]), "CONFIRMED")
           /\ ExecutedCopy(req[c], seen[c]) \in ActionRecord
           /\ ExecutedCopy(req[c], seen[c]).status = "EXECUTED"
           /\ ExecutedCopy(req[c], seen[c]).confirmed_at = rows[a].confirmed_at
           /\ ExecutedCopy(req[c], seen[c]).executed_at = req[c].now
           /\ Answer(c, "ok", "EXECUTED")
<1>0. TypeOK /\ ExecuteOK(c)
  BY DEF IndInv
<1>1. /\ req[c].action \in ActionIds
      /\ seen[c] \in ActionRecord
      /\ req[c].now \in Nat
      /\ seen[c].confirmed_at = rows[req[c].action].confirmed_at
  BY <1>0 DEF ExecuteSave, At, ExecuteOK, TypeOK, Request
<1>2. QED
  BY <1>1 DEF ExecuteSave, save_missed, ExecutedCopy, ActionRecord, ActionStatus, Time

\* A save that changes no history changes no row.
LEMMA SaveOrMiss ==
    ASSUME IndInv, NEW c \in Calls, ConfirmSave(c) \/ ConfirmExpire(c) \/ ExecuteSave(c),
           landed' = landed
    PROVE  rows' = rows
<1>0. TypeOK /\ RequestOK(c) /\ ConfirmOK(c) /\ ExecuteOK(c)
  BY DEF IndInv
<1>1. landed[c] = "nothing"
  BY <1>0 DEF ConfirmSave, ConfirmExpire, ExecuteSave, At, RequestOK, Statements
<1>2. ASSUME NEW record \in ActionRecord, NEW expected,
             save_action_if_status(c, record, expected)
      PROVE  FALSE
  <2>1. landed'[c] = record.status
    BY <1>0, <1>2 DEF TypeOK, save_action_if_status
  <2>2. record.status # "nothing"
    BY DEF ActionRecord, ActionStatus
  <2>3. QED
    BY <1>1, <2>1, <2>2
<1>3. CASE ConfirmSave(c)
  <2>1. seen[c] \in ActionRecord /\ req[c].now \in Nat
    BY <1>0, <1>3 DEF ConfirmSave, At, ConfirmOK, TypeOK, Request
  <2>2. ConfirmedCopy(req[c], seen[c]) \in ActionRecord
    BY <2>1 DEF ConfirmedCopy, ActionRecord, ActionStatus, Time
  <2>3. QED
    BY <1>2, <1>3, <2>2 DEF ConfirmSave, save_missed
<1>4. CASE ConfirmExpire(c)
  <2>1. seen[c] \in ActionRecord
    BY <1>0, <1>4 DEF ConfirmExpire, At, ConfirmOK, TypeOK
  <2>2. [seen[c] EXCEPT !.status = "EXPIRED"] \in ActionRecord
    BY <2>1 DEF ActionRecord, ActionStatus
  <2>3. QED
    BY <1>2, <1>4, <2>2 DEF ConfirmExpire, save_missed
<1>5. CASE ExecuteSave(c)
  <2>1. seen[c] \in ActionRecord /\ req[c].now \in Nat
    BY <1>0, <1>5 DEF ExecuteSave, At, ExecuteOK, TypeOK, Request
  <2>2. ExecutedCopy(req[c], seen[c]) \in ActionRecord
    BY <2>1 DEF ExecutedCopy, ActionRecord, ActionStatus, Time
  <2>3. QED
    BY <1>2, <1>5, <2>2 DEF ExecuteSave, save_missed
<1>6. QED
  BY <1>3, <1>4, <1>5

\* Every step takes every row only to what it may become.
LEMMA Evolution ==
    ASSUME IndInv, [Next]_vars
    PROVE  \A a \in ActionIds : Evolves(rows[a], rows'[a])
<1>0. TypeOK
  BY DEF IndInv
<1>1. CASE rows' = rows
  BY <1>1 DEF Evolves
<1>2. ASSUME NEW c \in Calls, insert_action(c)
      PROVE  \A a \in ActionIds : Evolves(rows[a], rows'[a])
  BY <1>0, <1>2 DEF insert_action, Evolves, TypeOK
<1>3. ASSUME NEW c \in Calls, ConfirmSave(c), landed' # landed
      PROVE  \A a \in ActionIds : Evolves(rows[a], rows'[a])
  BY <1>0, <1>3, ConfirmSaved, SaveEffect, NoRowIsNoRecord DEF Evolves
<1>4. ASSUME NEW c \in Calls, ConfirmExpire(c), landed' # landed
      PROVE  \A a \in ActionIds : Evolves(rows[a], rows'[a])
  <2> DEFINE copy == [seen[c] EXCEPT !.status = "EXPIRED"]
  <2>1. /\ req[c].action \in ActionIds
        /\ copy \in ActionRecord /\ copy.status = "EXPIRED"
        /\ save_action_if_status(c, copy, "PENDING_CONFIRMATION")
    BY <1>4, ConfirmExpired
  <2> HIDE DEF copy
  <2>2. QED
    BY <1>0, <2>1, SaveEffect, NoRowIsNoRecord DEF Evolves
<1>5. ASSUME NEW c \in Calls, ExecuteSave(c), landed' # landed
      PROVE  \A a \in ActionIds : Evolves(rows[a], rows'[a])
  BY <1>0, <1>5, ExecuteSaved, SaveEffect, NoRowIsNoRecord DEF Evolves
<1>6. ASSUME NEW c \in Calls, Route(c) \/ Reads(c) PROVE rows' = rows
  BY <1>6 DEF Route, prepare, confirm, execute, get_action_route, Receive, Reads,
     PrepareTicket, PrepareSla, ConfirmGet, ConfirmTicket, wrong_state_outcome,
     require_owner_or_admin, ExecuteGet, ExecuteReread, get_owned_action_or_404,
     Respond, dbVars
<1>7. ASSUME Environment \/ UNCHANGED vars PROVE rows' = rows
  BY <1>7 DEF Environment, DbError, TicketChange, Tick, Crash, Redeploy, dbVars, vars
<1>8. QED
  BY <1>1, <1>2, <1>3, <1>4, <1>5, <1>6, <1>7, HandleCases, SaveOrMiss DEF Next, Quiescent

-----------------------------------------------------------------------------
(* What the invariant says of a call survives the steps of other actors *)

CallOK(c) == RequestOK(c) /\ ConfirmOK(c) /\ ExecuteOK(c) /\ OutcomeOK(c)

\* What a row that exists keeps when it evolves.
LEMMA EvolvedRow ==
    ASSUME NEW old \in ActionRecord, NEW new, Evolves(old, new)
    PROVE  /\ new # NoRow
           /\ new.user_id = old.user_id
           /\ new.target = old.target
           /\ new.payload_hash = old.payload_hash
           /\ new.prepared_at = old.prepared_at
           /\ new.expires_at = old.expires_at
           /\ Proposal(new) = Proposal(old)
           /\ old.status # "PENDING_CONFIRMATION" => new.status # "PENDING_CONFIRMATION"
           /\ old.status \in {"CONFIRMED", "EXECUTED"} =>
                 new.status \in {"CONFIRMED", "EXECUTED"} /\ new.confirmed_at = old.confirmed_at
           /\ old.status \in {"EXECUTED", "EXPIRED"} => new.status = old.status
BY NoRowIsNoRecord DEF Evolves, Proposal

\* Call d stands still, or is lost with the server, while time and the rows
\* move on.
LEMMA OthersKept ==
    ASSUME TypeOK, TypeOK', NEW d \in Calls, CallOK(d),
           \A a \in ActionIds : Evolves(rows[a], rows'[a]),
           now <= now',
           pc'[d] \in {pc[d], "lost"},
           req'[d] = req[d], seen'[d] = seen[d], landed'[d] = landed[d], reply'[d] = reply[d]
    PROVE  CallOK(d)'
<1> DEFINE a == req[d].action
<1>0. /\ req'[d].action = a
      /\ req[d].now \in Nat /\ now \in Nat /\ now' \in Nat
      /\ pc'[d] # pc[d] => pc'[d] = "lost"
  BY DEF TypeOK, Request
<1>1. ASSUME a \in ActionIds
      PROVE  /\ rows[a] \in ActionRecord
             /\ rows[a] # NoRow
             /\ Evolves(rows[a], rows'[a])
  BY <1>1, NoRowIsNoRecord DEF TypeOK, CallOK, RequestOK
<1>2. a \in ActionIds =>
        /\ rows'[a] # NoRow
        /\ rows'[a].user_id = rows[a].user_id
        /\ rows'[a].target = rows[a].target
        /\ rows'[a].payload_hash = rows[a].payload_hash
        /\ rows'[a].prepared_at = rows[a].prepared_at
        /\ Proposal(rows'[a]) = Proposal(rows[a])
        /\ rows[a].status # "PENDING_CONFIRMATION" => rows'[a].status # "PENDING_CONFIRMATION"
        /\ rows[a].status \in {"CONFIRMED", "EXECUTED"} =>
              /\ rows'[a].status \in {"CONFIRMED", "EXECUTED"}
              /\ rows'[a].confirmed_at = rows[a].confirmed_at
        /\ rows[a].status \in {"EXECUTED", "EXPIRED"} => rows'[a].status = rows[a].status
  BY <1>1, EvolvedRow
<1>3. RequestOK(d)'
  BY <1>0, <1>2 DEF CallOK, RequestOK, Statements
<1>4. ConfirmOK(d)'
  BY <1>0, <1>2 DEF CallOK, ConfirmOK
<1>5. ExecuteOK(d)'
  BY <1>0, <1>2 DEF CallOK, ExecuteOK, owner_or_admin
<1>6. OutcomeOK(d)'
  BY <1>0, <1>2 DEF CallOK, OutcomeOK, owner_or_admin
<1>7. QED
  BY <1>3, <1>4, <1>5, <1>6 DEF CallOK

\* A step of call c leaves the local state of every other call alone.
LEMMA Frame ==
    ASSUME TypeOK, NEW c \in Calls, Route(c) \/ Handle(c) \/ DbError(c)
    PROVE  /\ now' = now
           /\ \A d \in Calls : d # c =>
                 /\ pc'[d] = pc[d]
                 /\ req'[d] = req[d]
                 /\ seen'[d] = seen[d]
                 /\ landed'[d] = landed[d]
                 /\ reply'[d] = reply[d]
<1>1. CASE Route(c)
  BY <1>1 DEF TypeOK, Route, prepare, confirm, execute, get_action_route, Receive, envVars
<1>2. CASE Reads(c)
  BY <1>2 DEF TypeOK, Reads, PrepareTicket, PrepareSla, ConfirmGet, ConfirmTicket,
     wrong_state_outcome, require_owner_or_admin, ExecuteGet, ExecuteReread,
     get_owned_action_or_404, Respond, Goto, Answer, envVars
<1>3. CASE insert_action(c)
  BY <1>3 DEF TypeOK, insert_action, Answer, envVars
<1>4. CASE ConfirmSave(c) \/ ConfirmExpire(c) \/ ExecuteSave(c)
  BY <1>4 DEF TypeOK, ConfirmSave, ConfirmExpire, ExecuteSave, save_action_if_status,
     save_missed, Goto, Answer, envVars
<1>5. CASE DbError(c)
  BY <1>5 DEF TypeOK, DbError, Answer
<1>6. QED
  BY <1>1, <1>2, <1>3, <1>4, <1>5, HandleCases

-----------------------------------------------------------------------------
(* The step of a call keeps what the invariant says of that call *)

\* A handler that refuses, or fails, before it has written anything.
LEMMA Refused ==
    ASSUME TypeOK, NEW c \in Calls, CallOK(c), pc[c] \in Statements,
           NEW code \in Refusals, code # "expired", NEW status,
           code = "wrong_state" /\ KindOf[c] = "confirm" => status # "PENDING_CONFIRMATION",
           Answer(c, code, status),
           rows' = rows, now' = now, req' = req, landed' = landed
    PROVE  CallOK(c)'
<1>1. /\ pc'[c] = "replying"
      /\ reply'[c] = [code |-> code, status |-> status]
      /\ code # "ok"
  BY DEF Answer, TypeOK, Refusals
<1>2. landed[c] = "nothing"
  BY DEF CallOK, RequestOK
<1>3. QED
  BY <1>1, <1>2 DEF CallOK, RequestOK, ConfirmOK, ExecuteOK, OutcomeOK, Statements

\* A request names an action that exists, and was prepared before it came in.
LEMMA RouteKept ==
    ASSUME TypeOK, TypeOK', NEW c \in Calls, CallOK(c), Route(c), now \in Nat,
           \A a \in ActionIds : rows[a] # NoRow => RowOK(rows[a])
    PROVE  CallOK(c)'
<1>1. PICK u \in Users, t \in Tickets \cup {NoId}, a \in KnownIds, h \in Hashes \cup {NoHash} :
          Receive(c, u, t, a, h) /\ (KindOf[c] = "prepare" => t \in Tickets)
  BY DEF Route, prepare, confirm, execute, get_action_route, KnownIds
<1>2. /\ req'[c].now = now /\ req'[c].action = a /\ req'[c].target = t
      /\ pc'[c] = FirstStatement[KindOf[c]]
      /\ rows' = rows /\ now' = now
      /\ landed'[c] = landed[c] /\ reply'[c] = reply[c]
      /\ pc[c] = "idle"
  BY <1>1 DEF Receive, TypeOK, dbVars, envVars
<1>3. a \in ActionIds => rows[a] # NoRow /\ rows[a].prepared_at <= now
  BY <1>1, ConstantsOK DEF KnownIds, RowOK
<1>4. landed[c] = "nothing" /\ reply[c] = NoReply
  BY <1>2 DEF CallOK, RequestOK
<1>5. /\ pc'[c] \in {"p_ticket", "c_get", "x_gate", "g_get"}
      /\ pc'[c] = "p_ticket" => KindOf[c] = "prepare"
      /\ pc'[c] = "c_get" => KindOf[c] = "confirm"
      /\ pc'[c] = "x_gate" => KindOf[c] = "execute"
      /\ pc'[c] = "g_get" => KindOf[c] = "get"
  BY <1>2, ConstantsOK DEF FirstStatement, Kinds
<1>6. RequestOK(c)'
  BY <1>1, <1>2, <1>3, <1>4, <1>5 DEF RequestOK
<1>7. ConfirmOK(c)' /\ ExecuteOK(c)'
  BY <1>5 DEF ConfirmOK, ExecuteOK
<1>8. OutcomeOK(c)'
  BY <1>2, <1>4 DEF OutcomeOK, NoReply
<1>9. QED
  BY <1>6, <1>7, <1>8 DEF CallOK

\* The reads of a prepare.
LEMMA PrepareKept ==
    ASSUME TypeOK, TypeOK', NEW c \in Calls, CallOK(c), PrepareTicket(c) \/ PrepareSla(c)
    PROVE  CallOK(c)'
<1>1. /\ rows' = rows /\ now' = now /\ req' = req /\ seen' = seen /\ landed' = landed
      /\ pc[c] \in {"p_ticket", "p_sla"}
  BY DEF PrepareTicket, PrepareSla, At, dbVars, envVars
<1>2. ASSUME NEW s \in {"p_sla", "p_insert"}, Goto(c, s) PROVE CallOK(c)'
  <2>1. pc'[c] = s /\ reply' = reply
    BY <1>2 DEF Goto, TypeOK
  <2>2. QED
    BY <1>1, <2>1 DEF CallOK, RequestOK, ConfirmOK, ExecuteOK, OutcomeOK, Statements
<1>3. ASSUME NEW code \in Refusals, code \notin {"expired", "wrong_state"}, Answer(c, code, "none")
      PROVE  CallOK(c)'
  BY <1>1, <1>3, Refused DEF Statements
<1>4. /\ \A s : PrepareTicketCheck(s) # "proceed" =>
            PrepareTicketCheck(s) \in Refusals \ {"expired", "wrong_state"}
      /\ \A t, time : EligibilityCheck(t, time) # "proceed" =>
            EligibilityCheck(t, time) \in Refusals \ {"expired", "wrong_state"}
  BY DEF PrepareTicketCheck, EligibilityCheck, Refusals
<1>5. "http_404" \in Refusals \ {"expired", "wrong_state"}
  BY DEF Refusals
<1>6. QED
  BY <1>2, <1>3, <1>4, <1>5 DEF PrepareTicket, PrepareSla

\* The first read of a confirm: what it checks of the row, it checked of the
\* proposal, which no other call changes.
LEMMA ConfirmGetKept ==
    ASSUME TypeOK, TypeOK', NEW c \in Calls, CallOK(c), ConfirmGet(c),
           \A a \in ActionIds : rows[a] # NoRow => RowOK(rows[a])
    PROVE  CallOK(c)'
<1> DEFINE q == req[c]
           r == get_action(q.action)
<1>1. /\ rows' = rows /\ now' = now /\ req' = req /\ landed' = landed /\ seen'[c] = r
      /\ pc[c] = "c_get"
  BY DEF ConfirmGet, At, dbVars, envVars, TypeOK
<1>2. q.now \in Nat /\ (r # NoRow => q.action \in ActionIds /\ r = rows[q.action] /\ r \in ActionRecord)
  BY DEF TypeOK, get_action, Request
<1>3. r # NoRow => r.expires_at \in Nat
  BY <1>2 DEF ActionRecord
<1>4. CASE ConfirmCheck(q, r) \in {"proceed", "expire"}
  <2>1. /\ r # NoRow
        /\ r.status = "PENDING_CONFIRMATION"
        /\ ConfirmCheck(q, r) = "expire" => q.now > r.expires_at
        /\ ConfirmCheck(q, r) = "proceed" =>
              ~(q.now > r.expires_at) /\ q.user = r.user_id /\ q.hash = r.payload_hash
    BY <1>4 DEF ConfirmCheck
  <2>2. r.confirmed_at = NoTime /\ r.executed_at = NoTime
    BY <1>2, <2>1 DEF RowOK
  <2>3. /\ reply' = reply
        /\ ConfirmCheck(q, r) = "expire" => pc'[c] = "c_expire"
        /\ ConfirmCheck(q, r) = "proceed" => pc'[c] = "c_ticket"
    BY <1>4 DEF ConfirmGet, Goto, TypeOK
  <2>4. RequestOK(c)'
    BY <1>1, <1>4, <2>3 DEF CallOK, RequestOK, Statements
  <2>5. ConfirmOK(c)'
    BY <1>1, <1>2, <1>3, <1>4, <2>1, <2>2, <2>3 DEF ConfirmOK
  <2>6. ExecuteOK(c)' /\ OutcomeOK(c)'
    BY <1>1, <1>4, <2>3 DEF CallOK, ExecuteOK, OutcomeOK
  <2>7. QED
    BY <2>4, <2>5, <2>6 DEF CallOK
<1>5. CASE ConfirmCheck(q, r) \notin {"proceed", "expire"}
  <2>1. /\ ConfirmCheck(q, r) \in Refusals
        /\ ConfirmCheck(q, r) # "expired"
        /\ ConfirmCheck(q, r) = "wrong_state" => StatusOf(r) # "PENDING_CONFIRMATION"
    BY <1>5 DEF ConfirmCheck, Refusals, StatusOf
  <2>2. Answer(c, ConfirmCheck(q, r), StatusOf(r))
    BY <1>5 DEF ConfirmGet
  <2>3. QED
    BY <1>1, <2>1, <2>2, Refused DEF Statements
<1>6. QED
  BY <1>4, <1>5

\* A confirm that sees the ticket under its own scope.
LEMMA ConfirmTicketKept ==
    ASSUME TypeOK, TypeOK', NEW c \in Calls, CallOK(c), ConfirmTicket(c)
    PROVE  CallOK(c)'
<1> DEFINE s == get_ticket(seen[c].target, req[c].scope)
           check == ConfirmTicketCheck(s, seen[c].previous_status)
<1>1. /\ rows' = rows /\ now' = now /\ req' = req /\ seen' = seen /\ landed' = landed
      /\ pc[c] = "c_ticket"
  BY DEF ConfirmTicket, At, dbVars, envVars
<1>2. seen[c] \in ActionRecord
  BY <1>1 DEF CallOK, ConfirmOK, TypeOK
<1>3. seen[c].target \in Tickets /\ seen[c].previous_status \in TicketStatus
  BY <1>2 DEF ActionRecord
<1>4. CASE check = "proceed"
  <2>1. s \notin {"not_found", "not_authorized"}
    BY <1>3, <1>4 DEF ConfirmTicketCheck, TicketStatus
  <2>2. AccountOf[seen[c].target] \in req[c].scope
    BY <2>1 DEF get_ticket
  <2>3. pc'[c] = "c_save" /\ reply' = reply
    BY <1>4 DEF ConfirmTicket, Goto, TypeOK
  <2>4. QED
    BY <1>1, <2>2, <2>3 DEF CallOK, RequestOK, ConfirmOK, ExecuteOK, OutcomeOK, Statements
<1>5. CASE check # "proceed"
  <2>1. check \in Refusals \ {"expired", "wrong_state"}
    BY <1>5 DEF ConfirmTicketCheck, Refusals
  <2>2. Answer(c, check, seen[c].status)
    BY <1>5 DEF ConfirmTicket
  <2>3. QED
    BY <1>1, <2>1, <2>2, Refused DEF Statements
<1>6. QED
  BY <1>4, <1>5

\* The re-read after a lost race finds a row that has left PENDING_CONFIRMATION.
LEMMA WrongStateKept ==
    ASSUME TypeOK, TypeOK', NEW c \in Calls, CallOK(c), wrong_state_outcome(c)
    PROVE  CallOK(c)'
<1> DEFINE r == get_action(req[c].action)
<1>1. /\ rows' = rows /\ now' = now /\ req' = req /\ landed' = landed
      /\ pc[c] = "c_reread"
      /\ Answer(c, "wrong_state", StatusOf(r))
  BY DEF wrong_state_outcome, At, dbVars, envVars
<1>2. StatusOf(r) # "PENDING_CONFIRMATION"
  BY <1>1 DEF CallOK, ConfirmOK, get_action, StatusOf
<1>3. QED
  BY <1>1, <1>2, Refused DEF Statements, Refusals

\* The owner-or-admin gate looks at the row's user, which never changes.
LEMMA GateKept ==
    ASSUME TypeOK, TypeOK', NEW c \in Calls, CallOK(c), require_owner_or_admin(c)
    PROVE  CallOK(c)'
<1> DEFINE r == get_action(req[c].action)
<1>1. /\ rows' = rows /\ now' = now /\ req' = req /\ seen' = seen /\ landed' = landed
      /\ pc[c] = "x_gate"
  BY DEF require_owner_or_admin, At, dbVars, envVars
<1>2. ASSUME NEW code \in {"http_404", "http_403"}, Answer(c, code, "none") PROVE CallOK(c)'
  BY <1>1, <1>2, Refused DEF Statements, Refusals
<1>3. ASSUME r # NoRow, owner_or_admin(req[c].user, r), Goto(c, "x_get") PROVE CallOK(c)'
  <2>1. req[c].action \in ActionIds /\ r = rows[req[c].action]
    BY <1>3 DEF get_action
  <2>2. pc'[c] = "x_get" /\ reply' = reply
    BY <1>3 DEF Goto, TypeOK
  <2>3. QED
    BY <1>1, <1>3, <2>1, <2>2
    DEF CallOK, RequestOK, ConfirmOK, ExecuteOK, OutcomeOK, Statements
<1>4. QED
  BY <1>2, <1>3 DEF require_owner_or_admin

\* An execute or a get that answers success after only reading.
LEMMA ReadSucceeds ==
    ASSUME TypeOK, NEW c \in Calls, CallOK(c), pc[c] \in Statements,
           KindOf[c] \in {"execute", "get"}, req[c].action \in ActionIds, NEW status,
           KindOf[c] = "execute" =>
               status = "EXECUTED" /\ rows[req[c].action].status = "EXECUTED",
           Answer(c, "ok", status),
           rows' = rows, now' = now, req' = req, landed' = landed
    PROVE  CallOK(c)'
<1>1. pc'[c] = "replying" /\ reply'[c] = [code |-> "ok", status |-> status]
  BY DEF Answer, TypeOK
<1>2. landed[c] = "nothing"
  BY DEF CallOK, RequestOK
<1>3. QED
  BY <1>1, <1>2 DEF CallOK, RequestOK, ConfirmOK, ExecuteOK, OutcomeOK, Statements

\* An execute that reads CONFIRMED keeps a snapshot that stays right until the
\* row is executed.
LEMMA ExecuteGetKept ==
    ASSUME TypeOK, TypeOK', NEW c \in Calls, CallOK(c), ExecuteGet(c),
           \A a \in ActionIds : rows[a] # NoRow => RowOK(rows[a])
    PROVE  CallOK(c)'
<1> DEFINE r == get_action(req[c].action)
<1>1. /\ rows' = rows /\ now' = now /\ req' = req /\ landed' = landed /\ seen'[c] = r
      /\ pc[c] = "x_get" /\ KindOf[c] = "execute"
  BY DEF ExecuteGet, At, dbVars, envVars, TypeOK, CallOK, RequestOK
<1>2. req[c].action \in ActionIds /\ r = rows[req[c].action] /\ r # NoRow
  BY <1>1 DEF CallOK, ExecuteOK, RequestOK, get_action
<1>3. CASE ExecuteCheck(r) = "proceed"
  <2>1. r.status = "CONFIRMED"
    BY <1>3 DEF ExecuteCheck
  <2>2. r.executed_at = NoTime
    BY <1>2, <2>1 DEF RowOK
  <2>3. pc'[c] = "x_save" /\ reply' = reply
    BY <1>3 DEF ExecuteGet, Goto, TypeOK
  <2>4. QED
    BY <1>1, <1>2, <2>1, <2>2, <2>3
    DEF CallOK, RequestOK, ConfirmOK, ExecuteOK, OutcomeOK, Statements
<1>4. CASE ExecuteCheck(r) = "ok"
  <2>1. r.status = "EXECUTED" /\ StatusOf(r) = "EXECUTED"
    BY <1>2, <1>4 DEF ExecuteCheck, StatusOf
  <2>2. Answer(c, "ok", StatusOf(r))
    BY <1>4 DEF ExecuteGet
  <2>3. QED
    BY <1>1, <1>2, <2>1, <2>2, ReadSucceeds DEF Statements
<1>5. CASE ExecuteCheck(r) \notin {"proceed", "ok"}
  <2>1. ExecuteCheck(r) \in Refusals /\ ExecuteCheck(r) # "expired"
    BY <1>5 DEF ExecuteCheck, Refusals
  <2>2. Answer(c, ExecuteCheck(r), StatusOf(r))
    BY <1>5 DEF ExecuteGet
  <2>3. QED
    BY <1>1, <2>1, <2>2, Refused DEF Statements
<1>6. QED
  BY <1>3, <1>4, <1>5

\* An execute that lost the race finds the row EXECUTED.
LEMMA ExecuteRereadKept ==
    ASSUME TypeOK, TypeOK', NEW c \in Calls, CallOK(c), ExecuteReread(c)
    PROVE  CallOK(c)'
<1> DEFINE r == get_action(req[c].action)
<1>1. /\ rows' = rows /\ now' = now /\ req' = req /\ landed' = landed
      /\ pc[c] = "x_reread" /\ KindOf[c] = "execute"
      /\ Answer(c, "ok", StatusOf(r))
  BY DEF ExecuteReread, At, dbVars, envVars, CallOK, RequestOK
<1>2. /\ req[c].action \in ActionIds
      /\ rows[req[c].action].status = "EXECUTED"
      /\ StatusOf(r) = "EXECUTED"
  BY <1>1 DEF CallOK, RequestOK, ExecuteOK, get_action, StatusOf
<1>3. QED
  BY <1>1, <1>2, ReadSucceeds DEF Statements

\* A get changes nothing and shows what it read.
LEMMA GetKept ==
    ASSUME TypeOK, TypeOK', NEW c \in Calls, CallOK(c), get_owned_action_or_404(c)
    PROVE  CallOK(c)'
<1> DEFINE r == get_action(req[c].action)
<1>1. /\ rows' = rows /\ now' = now /\ req' = req /\ landed' = landed
      /\ pc[c] = "g_get" /\ KindOf[c] = "get"
  BY DEF get_owned_action_or_404, At, dbVars, envVars, CallOK, RequestOK
<1>2. CASE Answer(c, "http_404", "none")
  BY <1>1, <1>2, Refused DEF Statements, Refusals
<1>3. CASE r # NoRow /\ Answer(c, "ok", r.status)
  <2>1. req[c].action \in ActionIds
    BY <1>3 DEF get_action
  <2>2. QED
    BY <1>1, <1>3, <2>1, ReadSucceeds DEF Statements
<1>4. QED
  BY <1>2, <1>3 DEF get_owned_action_or_404

\* Sending the response changes nothing that was promised.
LEMMA RespondKept ==
    ASSUME TypeOK, TypeOK', NEW c \in Calls, CallOK(c), Respond(c)
    PROVE  CallOK(c)'
<1>1. /\ rows' = rows /\ now' = now /\ req' = req /\ seen' = seen /\ landed' = landed
      /\ reply' = reply /\ pc'[c] = "done"
  BY DEF Respond, TypeOK, dbVars, envVars
<1>2. QED
  BY <1>1 DEF CallOK, RequestOK, ConfirmOK, ExecuteOK, OutcomeOK, Statements

\* A failed statement is rolled back: the 500 claims nothing.
LEMMA DbErrorKept ==
    ASSUME TypeOK, TypeOK', NEW c \in Calls, CallOK(c), DbError(c)
    PROVE  CallOK(c)'
<1>1. /\ rows' = rows /\ now' = now /\ req' = req /\ landed' = landed
      /\ pc[c] \in Statements
      /\ Answer(c, "http_500", "none")
  BY DEF DbError, dbVars
<1>2. QED
  BY <1>1, Refused DEF Refusals

\* The prepare that inserts its row.
LEMMA InsertKept ==
    ASSUME TypeOK, TypeOK', NEW c \in Calls, CallOK(c), insert_action(c),
           \A a \in ActionIds : Evolves(rows[a], rows'[a])
    PROVE  CallOK(c)'
<1>1. /\ pc[c] = "p_insert" /\ KindOf[c] = "prepare"
      /\ now' = now /\ req' = req
      /\ landed'[c] = "PENDING_CONFIRMATION"
      /\ pc'[c] = "replying"
      /\ reply'[c] = [code |-> "ok", status |-> "PENDING_CONFIRMATION"]
  BY DEF insert_action, At, Answer, TypeOK, envVars, CallOK, RequestOK
<1>2. ASSUME req[c].action \in ActionIds
      PROVE  /\ rows'[req[c].action] # NoRow
             /\ rows'[req[c].action].prepared_at = rows[req[c].action].prepared_at
  <2>1. rows[req[c].action] \in ActionRecord
    BY <1>2 DEF CallOK, RequestOK, TypeOK
  <2>2. QED
    BY <1>2, <2>1, EvolvedRow
<1>3. RequestOK(c)'
  BY <1>1, <1>2 DEF CallOK, RequestOK, Statements
<1>4. ConfirmOK(c)' /\ ExecuteOK(c)' /\ OutcomeOK(c)'
  BY <1>1 DEF ConfirmOK, ExecuteOK, OutcomeOK
<1>5. QED
  BY <1>3, <1>4 DEF CallOK

\* The confirm that wins: the row now carries its outcome.
LEMMA ConfirmSavedKept ==
    ASSUME IndInv, TypeOK', NEW c \in Calls, CallOK(c), ConfirmSave(c), landed' # landed
    PROVE  CallOK(c)'
<1> DEFINE a == req[c].action
<1>0. TypeOK
  BY DEF IndInv
<1>1. /\ pc[c] = "c_save" /\ KindOf[c] = "confirm"
      /\ now' = now /\ req' = req
  BY DEF ConfirmSave, At, envVars, CallOK, RequestOK
<1>2. /\ a \in ActionIds
      /\ rows[a] \in ActionRecord
      /\ rows'[a] \in ActionRecord
      /\ Proposal(rows'[a]) = Proposal(rows[a])
      /\ rows'[a].status = "CONFIRMED"
      /\ rows'[a].confirmed_at = req[c].now
      /\ rows'[a].prepared_at = rows[a].prepared_at
      /\ landed'[c] = "CONFIRMED"
  BY <1>0, ConfirmSaved, SaveEffect
<1>3. pc'[c] = "replying" /\ reply'[c] = [code |-> "ok", status |-> "CONFIRMED"]
  BY <1>0, ConfirmSaved DEF Answer, TypeOK
<1>4. /\ req[c].user = rows'[a].user_id
      /\ req[c].hash = rows'[a].payload_hash
      /\ AccountOf[rows'[a].target] \in req[c].scope
  BY <1>1, <1>2 DEF CallOK, ConfirmOK, Proposal
<1>5. RequestOK(c)'
  BY <1>1, <1>2, <1>3, NoRowIsNoRecord DEF CallOK, RequestOK, Statements
<1>6. ConfirmOK(c)' /\ ExecuteOK(c)'
  BY <1>3 DEF ConfirmOK, ExecuteOK
<1>7. OutcomeOK(c)'
  BY <1>1, <1>2, <1>3, <1>4 DEF OutcomeOK
<1>8. QED
  BY <1>5, <1>6, <1>7 DEF CallOK

\* The confirm that comes late and marks the row EXPIRED.
LEMMA ConfirmExpiredKept ==
    ASSUME IndInv, TypeOK', NEW c \in Calls, CallOK(c), ConfirmExpire(c), landed' # landed
    PROVE  CallOK(c)'
<1> DEFINE a == req[c].action
           copy == [seen[c] EXCEPT !.status = "EXPIRED"]
<1>0. TypeOK
  BY DEF IndInv
<1>1. /\ pc[c] = "c_expire" /\ KindOf[c] = "confirm"
      /\ now' = now /\ req' = req
  BY DEF ConfirmExpire, At, envVars, CallOK, RequestOK
<1>2. /\ a \in ActionIds
      /\ copy \in ActionRecord /\ copy.status = "EXPIRED"
      /\ save_action_if_status(c, copy, "PENDING_CONFIRMATION")
      /\ Answer(c, "expired", "EXPIRED")
  BY ConfirmExpired
<1> HIDE DEF copy
<1>3. /\ rows'[a] \in ActionRecord
      /\ rows'[a].status = "EXPIRED"
      /\ rows'[a].prepared_at = rows[a].prepared_at
      /\ landed'[c] = "EXPIRED"
  BY <1>0, <1>2, SaveEffect
<1>4. pc'[c] = "replying" /\ reply'[c] = [code |-> "expired", status |-> "EXPIRED"]
  BY <1>0, <1>2 DEF Answer, TypeOK
<1>5. RequestOK(c)'
  BY <1>1, <1>2, <1>3, <1>4, NoRowIsNoRecord DEF CallOK, RequestOK, Statements
<1>6. ConfirmOK(c)' /\ ExecuteOK(c)'
  BY <1>4 DEF ConfirmOK, ExecuteOK
<1>7. OutcomeOK(c)'
  BY <1>1, <1>2, <1>3, <1>4 DEF OutcomeOK
<1>8. QED
  BY <1>5, <1>6, <1>7 DEF CallOK

\* The execute that wins.
LEMMA ExecuteSavedKept ==
    ASSUME IndInv, TypeOK', NEW c \in Calls, CallOK(c), ExecuteSave(c), landed' # landed
    PROVE  CallOK(c)'
<1> DEFINE a == req[c].action
<1>0. TypeOK
  BY DEF IndInv
<1>1. /\ pc[c] = "x_save" /\ KindOf[c] = "execute"
      /\ now' = now /\ req' = req
  BY DEF ExecuteSave, At, envVars, CallOK, RequestOK
<1>2. /\ a \in ActionIds
      /\ rows'[a] \in ActionRecord
      /\ Proposal(rows'[a]) = Proposal(rows[a])
      /\ rows'[a].status = "EXECUTED"
      /\ rows'[a].prepared_at = rows[a].prepared_at
      /\ landed'[c] = "EXECUTED"
  BY <1>0, ExecuteSaved, SaveEffect
<1>3. pc'[c] = "replying" /\ reply'[c] = [code |-> "ok", status |-> "EXECUTED"]
  BY <1>0, ExecuteSaved DEF Answer, TypeOK
<1>4. owner_or_admin(req[c].user, rows'[a])
  BY <1>1, <1>2 DEF CallOK, ExecuteOK, Proposal, owner_or_admin
<1>5. RequestOK(c)'
  BY <1>1, <1>2, <1>3, NoRowIsNoRecord DEF CallOK, RequestOK, Statements
<1>6. ConfirmOK(c)' /\ ExecuteOK(c)'
  BY <1>3 DEF ConfirmOK, ExecuteOK
<1>7. OutcomeOK(c)'
  BY <1>1, <1>2, <1>3, <1>4 DEF OutcomeOK, owner_or_admin
<1>8. QED
  BY <1>5, <1>6, <1>7 DEF CallOK

\* The lost races: an execute's UPDATE can only miss an EXECUTED row.
LEMMA MissedKept ==
    ASSUME IndInv, TypeOK', NEW c \in Calls, CallOK(c),
           ConfirmSave(c) \/ ConfirmExpire(c) \/ ExecuteSave(c), landed' = landed
    PROVE  CallOK(c)'
<1> DEFINE a == req[c].action
<1>0. TypeOK
  BY DEF IndInv
<1>1. /\ rows' = rows /\ now' = now /\ req' = req /\ seen' = seen
      /\ pc[c] \in {"c_save", "c_expire", "x_save"}
  BY SaveOrMiss DEF ConfirmSave, ConfirmExpire, ExecuteSave, At, envVars
<1>2. a \in ActionIds /\ rows[a] # NoRow
  BY <1>1 DEF CallOK, ConfirmOK, ExecuteOK, RequestOK
<1>3. landed[c] = "nothing"
  BY <1>1 DEF CallOK, RequestOK, Statements
<1>4. ASSUME NEW record, NEW expected, save_action_if_status(c, record, expected),
             record.status # "nothing"
      PROVE  FALSE
  <2>1. landed'[c] = record.status
    BY <1>0, <1>4 DEF save_action_if_status, TypeOK
  <2>2. QED
    BY <1>3, <1>4, <2>1
<1>5. CASE ConfirmSave(c)
  <2>1. seen[c] \in ActionRecord
    BY <1>0, <1>5 DEF ConfirmSave, At, CallOK, ConfirmOK, TypeOK
  <2>2. ConfirmedCopy(req[c], seen[c]).status = "CONFIRMED"
    BY <2>1 DEF ConfirmedCopy, ActionRecord
  <2>3. ~Matches(a, "PENDING_CONFIRMATION") /\ Goto(c, "c_reread")
    BY <1>4, <1>5, <2>2 DEF ConfirmSave, save_missed
  <2>4. pc'[c] = "c_reread" /\ reply' = reply /\ rows[a].status # "PENDING_CONFIRMATION"
    BY <1>0, <1>2, <2>3 DEF Goto, Matches, TypeOK
  <2>5. KindOf[c] = "confirm"
    BY <1>5 DEF ConfirmSave, At, CallOK, RequestOK
  <2>6. QED
    BY <1>1, <1>2, <2>4, <2>5 DEF CallOK, RequestOK, ConfirmOK, ExecuteOK, OutcomeOK, Statements
<1>6. CASE ConfirmExpire(c)
  <2>1. seen[c] \in ActionRecord
    BY <1>0, <1>6 DEF ConfirmExpire, At, CallOK, ConfirmOK, TypeOK
  <2>2. [seen[c] EXCEPT !.status = "EXPIRED"].status = "EXPIRED"
    BY <2>1 DEF ActionRecord
  <2>3. ~Matches(a, "PENDING_CONFIRMATION") /\ Goto(c, "c_reread")
    BY <1>4, <1>6, <2>2 DEF ConfirmExpire, save_missed
  <2>4. pc'[c] = "c_reread" /\ reply' = reply /\ rows[a].status # "PENDING_CONFIRMATION"
    BY <1>0, <1>2, <2>3 DEF Goto, Matches, TypeOK
  <2>5. KindOf[c] = "confirm"
    BY <1>6 DEF ConfirmExpire, At, CallOK, RequestOK
  <2>6. QED
    BY <1>1, <1>2, <2>4, <2>5 DEF CallOK, RequestOK, ConfirmOK, ExecuteOK, OutcomeOK, Statements
<1>7. CASE ExecuteSave(c)
  <2>1. seen[c] \in ActionRecord
    BY <1>0, <1>7 DEF ExecuteSave, At, CallOK, ExecuteOK, TypeOK
  <2>2. ExecutedCopy(req[c], seen[c]).status = "EXECUTED"
    BY <2>1 DEF ExecutedCopy, ActionRecord
  <2>3. ~Matches(a, "CONFIRMED") /\ Goto(c, "x_reread")
    BY <1>4, <1>7, <2>2 DEF ExecuteSave, save_missed
  <2>4. pc'[c] = "x_reread" /\ reply' = reply /\ rows[a].status # "CONFIRMED"
    BY <1>0, <1>2, <2>3 DEF Goto, Matches, TypeOK
  <2>5. KindOf[c] = "execute" /\ rows[a].status \in {"CONFIRMED", "EXECUTED"}
    BY <1>7 DEF ExecuteSave, At, CallOK, RequestOK, ExecuteOK
  <2>6. QED
    BY <1>1, <1>2, <2>4, <2>5 DEF CallOK, RequestOK, ConfirmOK, ExecuteOK, OutcomeOK, Statements
<1>8. QED
  BY <1>5, <1>6, <1>7

-----------------------------------------------------------------------------
(* The invariant is inductive *)

\* Every step keeps what the invariant says of every call.
LEMMA CallsStep ==
    ASSUME IndInv, [Next]_vars
    PROVE  \A d \in Calls : CallOK(d)'
<1>0. /\ TypeOK /\ TypeOK'
      /\ \A d \in Calls : CallOK(d)
      /\ \A a \in ActionIds : rows[a] # NoRow => RowOK(rows[a])
      /\ \A a \in ActionIds : Evolves(rows[a], rows'[a])
  BY TypeStep, Evolution DEF IndInv, CallOK
<1>1. now \in Nat
  BY <1>0 DEF TypeOK
<1>2. ASSUME NEW c \in Calls, Route(c) \/ Handle(c) \/ DbError(c)
      PROVE  CallOK(c)'
  <2>1. CASE Route(c)
    BY <1>0, <1>1, <2>1, RouteKept
  <2>2. CASE Reads(c)
    BY <1>0, <2>2, PrepareKept, ConfirmGetKept, ConfirmTicketKept, WrongStateKept, GateKept,
       ExecuteGetKept, ExecuteRereadKept, GetKept, RespondKept DEF Reads
  <2>3. CASE insert_action(c)
    BY <1>0, <2>3, InsertKept
  <2>4. CASE ConfirmSave(c) \/ ConfirmExpire(c) \/ ExecuteSave(c)
    BY <1>0, <2>4, ConfirmSavedKept, ConfirmExpiredKept, ExecuteSavedKept, MissedKept
  <2>5. CASE DbError(c)
    BY <1>0, <2>5, DbErrorKept
  <2>6. QED
    BY <1>2, <2>1, <2>2, <2>3, <2>4, <2>5, HandleCases
<1>3. ASSUME NEW c \in Calls, Route(c) \/ Handle(c) \/ DbError(c)
      PROVE  \A d \in Calls : CallOK(d)'
  <2>1. ASSUME NEW d \in Calls, d # c PROVE CallOK(d)'
    <3>1. /\ now <= now' /\ pc'[d] = pc[d] /\ req'[d] = req[d] /\ seen'[d] = seen[d]
          /\ landed'[d] = landed[d] /\ reply'[d] = reply[d]
      BY <1>0, <1>1, <1>3, <2>1, Frame
    <3>2. QED
      BY <1>0, <3>1, OthersKept
  <2>2. QED
    BY <1>2, <1>3, <2>1
<1>4. ASSUME \/ \E t \in Tickets : TicketChange(t)
             \/ Tick
             \/ Crash
             \/ \E u \in Users : Redeploy(u)
             \/ UNCHANGED vars
      PROVE  \A d \in Calls : CallOK(d)'
  <2>1. ASSUME NEW d \in Calls PROVE CallOK(d)'
    <3>1. /\ req'[d] = req[d] /\ seen'[d] = seen[d]
          /\ landed'[d] = landed[d] /\ reply'[d] = reply[d]
      BY <1>4 DEF TicketChange, Tick, Crash, Redeploy, callVars, vars
    <3>2. pc'[d] \in {pc[d], "lost"}
      BY <1>4 DEF TicketChange, Tick, Crash, Redeploy, LoseCalls, callVars, vars
    <3>3. now <= now'
      BY <1>1, <1>4 DEF TicketChange, Tick, Crash, Redeploy, vars
    <3>4. QED
      BY <1>0, <3>1, <3>2, <3>3, OthersKept
  <2>2. QED
    BY <2>1
<1>5. QED
  BY <1>3, <1>4 DEF Next, Environment, Quiescent

\* The only changes of the actions table and of the history.
LEMMA WriteCases ==
    ASSUME IndInv, [Next]_vars
    PROVE  \/ rows' = rows /\ landed' = landed
           \/ \E c \in Calls :
                 \/ insert_action(c)
                 \/ (ConfirmSave(c) \/ ConfirmExpire(c) \/ ExecuteSave(c)) /\ landed' # landed
<1>1. ASSUME NEW c \in Calls, Route(c) \/ Reads(c) PROVE rows' = rows /\ landed' = landed
  BY <1>1 DEF Route, prepare, confirm, execute, get_action_route, Receive, Reads,
     PrepareTicket, PrepareSla, ConfirmGet, ConfirmTicket, wrong_state_outcome,
     require_owner_or_admin, ExecuteGet, ExecuteReread, get_owned_action_or_404,
     Respond, dbVars
<1>2. ASSUME Environment \/ UNCHANGED vars PROVE rows' = rows /\ landed' = landed
  BY <1>2 DEF Environment, DbError, TicketChange, Tick, Crash, Redeploy, dbVars, callVars, vars
<1>3. QED
  BY <1>1, <1>2, HandleCases, SaveOrMiss DEF Next, Quiescent

\* Time never runs back.
LEMMA TimePasses ==
    ASSUME TypeOK, [Next]_vars
    PROVE  now \in Nat /\ now' \in Nat /\ now <= now'
<1>1. now \in Nat
  BY DEF TypeOK
<1>2. ASSUME NEW c \in Calls, Route(c) \/ Handle(c) \/ DbError(c) PROVE now' = now
  BY <1>2, Frame
<1>3. ASSUME Environment, ~\E c \in Calls : DbError(c) PROVE now' = now \/ now' = now + 1
  BY <1>3 DEF Environment, TicketChange, Tick, Crash, Redeploy
<1>4. now' = now \/ now' = now + 1
  BY <1>2, <1>3 DEF Next, Environment, Quiescent, vars
<1>5. QED
  BY <1>1, <1>4

\* Every step keeps what the invariant says of every row.
LEMMA RowsStep ==
    ASSUME IndInv, [Next]_vars
    PROVE  \A a \in ActionIds : rows'[a] # NoRow => RowOK(rows[a])'
<1>0. /\ TypeOK /\ TypeOK'
      /\ \A d \in Calls : CallOK(d)
      /\ \A a \in ActionIds : rows[a] # NoRow => RowOK(rows[a])
      /\ now \in Nat /\ now' \in Nat /\ now <= now'
  BY TypeStep, TimePasses DEF IndInv, CallOK
<1>1. ASSUME NEW a \in ActionIds, rows'[a] = rows[a], rows[a] # NoRow PROVE RowOK(rows[a])'
  <2>1. rows[a] \in ActionRecord /\ RowOK(rows[a])
    BY <1>0, <1>1 DEF TypeOK
  <2>2. rows[a].prepared_at \in Nat /\ rows[a].expires_at \in Nat
    BY <2>1 DEF ActionRecord
  <2>3. QED
    BY <1>0, <1>1, <2>1, <2>2 DEF RowOK
<1>2. ASSUME NEW c \in Calls, insert_action(c), NEW a \in ActionIds, rows'[a] # rows[a]
      PROVE  RowOK(rows[a])'
  <2>1. rows'[a] = NewRecord(req[c]) /\ now' = now
    BY <1>0, <1>2 DEF insert_action, TypeOK, envVars
  <2>2. req[c].now <= now
    BY <1>0 DEF CallOK, RequestOK
  <2>3. QED
    BY <2>1, <2>2 DEF RowOK, NewRecord
<1>3. ASSUME NEW c \in Calls, ConfirmSave(c), landed' # landed,
             NEW a \in ActionIds, rows'[a] # rows[a]
      PROVE  RowOK(rows[a])'
  <2>1. /\ a = req[c].action
        /\ rows[a] \in ActionRecord
        /\ rows'[a].status = "CONFIRMED"
        /\ rows'[a].confirmed_at = req[c].now
        /\ rows'[a].executed_at = NoTime
        /\ rows'[a].prepared_at = rows[a].prepared_at
        /\ rows'[a].expires_at = rows[a].expires_at
    BY <1>0, <1>3, ConfirmSaved, SaveEffect
  <2>2. /\ rows[a] # NoRow
        /\ rows[a].prepared_at <= req[c].now
        /\ req[c].now <= rows[a].expires_at
    BY <1>0, <1>3, <2>1 DEF ConfirmSave, At, CallOK, RequestOK, ConfirmOK, Proposal
  <2>3. req[c].now # NoTime /\ rows[a].prepared_at \in Nat /\ rows[a].prepared_at <= now
    BY <1>0, <2>1, <2>2, ConstantsOK DEF TypeOK, Request, RowOK, ActionRecord
  <2>4. QED
    BY <1>0, <2>1, <2>2, <2>3 DEF RowOK
<1>4. ASSUME NEW c \in Calls, ConfirmExpire(c), landed' # landed,
             NEW a \in ActionIds, rows'[a] # rows[a]
      PROVE  RowOK(rows[a])'
  <2> DEFINE copy == [seen[c] EXCEPT !.status = "EXPIRED"]
  <2>1. /\ req[c].action \in ActionIds
        /\ copy \in ActionRecord /\ copy.status = "EXPIRED"
        /\ copy.confirmed_at = NoTime /\ copy.executed_at = NoTime
        /\ save_action_if_status(c, copy, "PENDING_CONFIRMATION")
    BY <1>4, ConfirmExpired
  <2> HIDE DEF copy
  <2>2. /\ a = req[c].action
        /\ rows[a] \in ActionRecord
        /\ rows'[a].status = "EXPIRED"
        /\ rows'[a].confirmed_at = NoTime
        /\ rows'[a].executed_at = NoTime
        /\ rows'[a].prepared_at = rows[a].prepared_at
        /\ rows'[a].expires_at = rows[a].expires_at
    BY <1>0, <1>4, <2>1, SaveEffect
  <2>3. /\ rows[a] # NoRow
        /\ req[c].now > rows[a].expires_at
        /\ req[c].now <= now
    BY <1>0, <1>4, <2>2 DEF ConfirmExpire, At, CallOK, RequestOK, ConfirmOK, Proposal
  <2>4. /\ rows[a].prepared_at \in Nat /\ rows[a].expires_at \in Nat /\ req[c].now \in Nat
        /\ rows[a].prepared_at <= now
    BY <1>0, <2>2, <2>3 DEF TypeOK, Request, RowOK, ActionRecord
  <2>5. QED
    BY <1>0, <2>2, <2>3, <2>4 DEF RowOK
<1>5. ASSUME NEW c \in Calls, ExecuteSave(c), landed' # landed,
             NEW a \in ActionIds, rows'[a] # rows[a]
      PROVE  RowOK(rows[a])'
  <2>1. /\ a = req[c].action
        /\ rows[a] \in ActionRecord
        /\ rows[a].status = "CONFIRMED"
        /\ rows'[a].status = "EXECUTED"
        /\ rows'[a].confirmed_at = rows[a].confirmed_at
        /\ rows'[a].executed_at = req[c].now
        /\ rows'[a].prepared_at = rows[a].prepared_at
        /\ rows'[a].expires_at = rows[a].expires_at
    BY <1>0, <1>5, ExecuteSaved, SaveEffect
  <2>2. rows[a] # NoRow /\ rows[a].prepared_at <= req[c].now
    BY <1>0, <2>1 DEF CallOK, RequestOK
  <2>3. req[c].now # NoTime /\ rows[a].prepared_at \in Nat /\ RowOK(rows[a])
    BY <1>0, <2>1, <2>2, ConstantsOK DEF TypeOK, Request, ActionRecord
  <2>4. QED
    BY <1>0, <2>1, <2>2, <2>3 DEF RowOK
<1>6. QED
  BY <1>1, <1>2, <1>3, <1>4, <1>5, WriteCases

\* A transition lands at most once, and only on a row that has not made it yet.
LEMMA HistoryStep ==
    ASSUME IndInv, [Next]_vars
    PROVE  HistoryOK' /\ OneWinner'
<1>0. /\ TypeOK /\ TypeOK' /\ HistoryOK /\ OneWinner
      /\ \A d \in Calls : CallOK(d)
  BY TypeStep DEF IndInv, CallOK
<1>1. ASSUME NEW d \in Calls, landed[d] # "nothing"
      PROVE  req'[d] = req[d]
  <2>1. pc[d] # "idle"
    BY <1>0, <1>1 DEF CallOK, RequestOK
  <2>2. ASSUME NEW c \in Calls, Route(c) PROVE req'[d] = req[d]
    <3>1. pc[c] = "idle"
      BY <2>2 DEF Route, prepare, confirm, execute, get_action_route, Receive
    <3>2. QED
      BY <1>0, <2>1, <2>2, <3>1, Frame
  <2>3. ASSUME NEW c \in Calls, Reads(c) PROVE req' = req
    BY <2>3 DEF Reads, PrepareTicket, PrepareSla, ConfirmGet, ConfirmTicket,
       wrong_state_outcome, require_owner_or_admin, ExecuteGet, ExecuteReread,
       get_owned_action_or_404, Respond
  <2>4. ASSUME NEW c \in Calls,
               insert_action(c) \/ ConfirmSave(c) \/ ConfirmExpire(c) \/ ExecuteSave(c)
        PROVE  req' = req
    BY <2>4 DEF insert_action, ConfirmSave, ConfirmExpire, ExecuteSave
  <2>5. ASSUME Environment \/ UNCHANGED vars PROVE req' = req
    BY <2>5 DEF Environment, DbError, TicketChange, Tick, Crash, Redeploy, callVars, vars
  <2>6. QED
    BY <2>2, <2>3, <2>4, <2>5, HandleCases DEF Next, Quiescent
<1>2. CASE rows' = rows /\ landed' = landed
  <2>1. \A a \in ActionIds, s \in ActionStatus : Landed(a, s)' = Landed(a, s)
    BY <1>1, <1>2 DEF Landed, ActionStatus
  <2>2. QED
    BY <1>0, <1>2, <2>1 DEF HistoryOK, OneWinner, ActionStatus, StatusOf
<1>3. ASSUME NEW c \in Calls, insert_action(c) PROVE HistoryOK' /\ OneWinner'
  <2>1. /\ landed[c] = "nothing" /\ landed'[c] = "PENDING_CONFIRMATION"
        /\ \A d \in Calls : d # c => landed'[d] = landed[d]
    BY <1>0, <1>3 DEF insert_action, At, CallOK, RequestOK, Statements, TypeOK
  <2>2. \A a \in ActionIds, s \in {"CONFIRMED", "EXECUTED", "EXPIRED"} :
            Landed(a, s)' = Landed(a, s)
    BY <1>1, <2>1 DEF Landed
  <2>3. \A a \in ActionIds :
            rows'[a] = rows[a] \/ (rows'[a] # NoRow => rows'[a].status = "PENDING_CONFIRMATION")
    BY <1>0, <1>3 DEF insert_action, NewRecord, TypeOK
  <2>4. QED
    BY <1>0, <2>2, <2>3 DEF HistoryOK, OneWinner, StatusOf
\* A save by c of status s on action a, from status e.
<1>4. ASSUME NEW c \in Calls, NEW a \in ActionIds, a = req[c].action,
             NEW s \in {"CONFIRMED", "EXECUTED", "EXPIRED"}, NEW e,
             \/ e = "PENDING_CONFIRMATION" /\ s \in {"CONFIRMED", "EXPIRED"}
             \/ e = "CONFIRMED" /\ s = "EXECUTED",
             landed[c] = "nothing", landed'[c] = s, req' = req,
             \A d \in Calls : d # c => landed'[d] = landed[d],
             rows[a] # NoRow, rows[a].status = e, rows'[a] # NoRow, rows'[a].status = s,
             \A b \in ActionIds : b # a => rows'[b] = rows[b]
      PROVE  HistoryOK' /\ OneWinner'
  <2>1. /\ Landed(a, s)' = Landed(a, s) \cup {c}
        /\ \A b \in ActionIds, t \in ActionStatus :
              b # a \/ t # s => Landed(b, t)' = Landed(b, t)
    BY <1>4 DEF Landed, ActionStatus
  <2>2. /\ Landed(a, s) = {}
        /\ e = "PENDING_CONFIRMATION" => Landed(a, "CONFIRMED") = {} /\ Landed(a, "EXPIRED") = {}
        /\ s = "EXECUTED" => Landed(a, "EXPIRED") = {}
    BY <1>0, <1>4 DEF Landed, CallOK, OutcomeOK
  <2>3. HistoryOK'
    <3>1. ASSUME NEW b \in ActionIds, b # a
          PROVE  /\ StatusOf(rows'[b]) \in {"CONFIRMED", "EXECUTED"} =>
                      Landed(b, "CONFIRMED")' # {}
                 /\ StatusOf(rows'[b]) = "EXECUTED" => Landed(b, "EXECUTED")' # {}
                 /\ StatusOf(rows'[b]) = "EXPIRED" => Landed(b, "EXPIRED")' # {}
      BY <1>0, <1>4, <2>1, <3>1 DEF HistoryOK, ActionStatus
    <3>2. /\ StatusOf(rows'[a]) = s
          /\ e = "CONFIRMED" => Landed(a, "CONFIRMED") # {}
      BY <1>0, <1>4 DEF HistoryOK, StatusOf
    <3>3. /\ StatusOf(rows'[a]) \in {"CONFIRMED", "EXECUTED"} => Landed(a, "CONFIRMED")' # {}
          /\ StatusOf(rows'[a]) = "EXECUTED" => Landed(a, "EXECUTED")' # {}
          /\ StatusOf(rows'[a]) = "EXPIRED" => Landed(a, "EXPIRED")' # {}
      BY <1>4, <2>1, <3>2 DEF ActionStatus
    <3>4. QED
      BY <3>1, <3>3 DEF HistoryOK, StatusOf
  <2>4. OneWinner'
    BY <1>0, <1>4, <2>1, <2>2 DEF OneWinner, ActionStatus
  <2>5. QED
    BY <2>3, <2>4
<1>5. ASSUME NEW c \in Calls, ConfirmSave(c) \/ ConfirmExpire(c) \/ ExecuteSave(c),
             landed' # landed
      PROVE  HistoryOK' /\ OneWinner'
  <2>1. landed[c] = "nothing" /\ req' = req
    BY <1>0, <1>5 DEF ConfirmSave, ConfirmExpire, ExecuteSave, At, CallOK, RequestOK, Statements
  <2>2. CASE ConfirmSave(c)
    BY <1>0, <1>4, <1>5, <2>1, <2>2, ConfirmSaved, SaveEffect, NoRowIsNoRecord
  <2>3. CASE ConfirmExpire(c)
    <3> DEFINE copy == [seen[c] EXCEPT !.status = "EXPIRED"]
    <3>1. /\ req[c].action \in ActionIds
          /\ copy \in ActionRecord /\ copy.status = "EXPIRED"
          /\ save_action_if_status(c, copy, "PENDING_CONFIRMATION")
      BY <1>5, <2>3, ConfirmExpired
    <3> HIDE DEF copy
    <3>2. QED
      BY <1>0, <1>4, <2>1, <3>1, SaveEffect, NoRowIsNoRecord
  <2>4. CASE ExecuteSave(c)
    BY <1>0, <1>4, <1>5, <2>1, <2>4, ExecuteSaved, SaveEffect, NoRowIsNoRecord
  <2>5. QED
    BY <1>5, <2>2, <2>3, <2>4
<1>6. QED
  BY <1>2, <1>3, <1>5, WriteCases

\* The invariant holds initially.
LEMMA InitInv == Init => IndInv
<1> SUFFICES ASSUME Init PROVE IndInv
  OBVIOUS
<1>1. NoRequest \in Request /\ NoReply \in Reply
  BY ConstantsOK DEF NoRequest, Request, NoReply, Reply
<1>2. TypeOK
  BY <1>1, ConstantsOK DEF Init, TypeOK, ControlPoints
<1>3. \A c \in Calls : req[c].action = NoId /\ req[c].now = 0 /\ reply[c].code = "none"
  BY DEF Init, NoRequest, NoReply
<1>4. \A c \in Calls : RequestOK(c) /\ ConfirmOK(c) /\ ExecuteOK(c) /\ OutcomeOK(c)
  BY <1>3, ConstantsOK DEF Init, RequestOK, ConfirmOK, ExecuteOK, OutcomeOK
<1>5. HistoryOK /\ OneWinner
  BY DEF Init, HistoryOK, OneWinner, Landed, StatusOf
<1>6. QED
  BY <1>2, <1>4, <1>5 DEF Init, IndInv

\* Every step preserves the invariant.
LEMMA InductionStep == IndInv /\ [Next]_vars => IndInv'
BY TypeStep, RowsStep, CallsStep, HistoryStep DEF IndInv, CallOK

\* Every reachable state of the workflow satisfies the inductive invariant.
THEOREM Invariance == Spec => []IndInv
BY InitInv, InductionStep, PTL DEF Spec

-----------------------------------------------------------------------------
(* The safety properties *)

\* Every column and every local of a handler keeps its type: in particular no
\* handler uses a snapshot it did not take or writes a row that is not there.
THEOREM TypeCorrect == Spec => []TypeOK
BY Invariance, PTL DEF IndInv

\* However many calls race, each transition of an action is made by one call,
\* and no action is both confirmed and expired.
THEOREM AtMostOneWinner == Spec => []OneWinner
BY Invariance, PTL DEF IndInv

\* The status of an audit row is what the committed transitions add up to.
THEOREM AuditIsHistory == Spec => []AuditRowMatchesHistory
<1>1. IndInv => AuditRowMatchesHistory
  <2> SUFFICES ASSUME IndInv, NEW a \in ActionIds
               PROVE  /\ StatusOf(rows[a]) \in {"CONFIRMED", "EXECUTED"} <=>
                            Landed(a, "CONFIRMED") # {}
                      /\ StatusOf(rows[a]) = "EXECUTED" <=> Landed(a, "EXECUTED") # {}
                      /\ StatusOf(rows[a]) = "EXPIRED" <=> Landed(a, "EXPIRED") # {}
    BY DEF AuditRowMatchesHistory
  <2>1. ASSUME NEW s \in {"CONFIRMED", "EXECUTED", "EXPIRED"}, Landed(a, s) # {}
        PROVE  /\ s = "CONFIRMED" => StatusOf(rows[a]) \in {"CONFIRMED", "EXECUTED"}
               /\ s \in {"EXECUTED", "EXPIRED"} => StatusOf(rows[a]) = s
    <3>1. PICK c \in Calls : landed[c] = s /\ req[c].action = a
      BY <2>1 DEF Landed
    <3>2. RequestOK(c) /\ OutcomeOK(c)
      BY DEF IndInv
    <3>3. rows[a] # NoRow
      BY <3>1, <3>2 DEF RequestOK
    <3>4. QED
      BY <3>1, <3>2, <3>3 DEF OutcomeOK, StatusOf
  <2>2. QED
    BY <2>1 DEF IndInv, HistoryOK
<1>2. QED
  BY Invariance, <1>1, PTL

\* A confirmation is the preparer's own, of exactly what was prepared, made by
\* a request whose scope held the target's account.
THEOREM OwnersConfirm == Spec => []ConfirmedByOwner
<1>1. IndInv => ConfirmedByOwner
  BY DEF IndInv, OutcomeOK, ConfirmedByOwner
<1>2. QED
  BY Invariance, <1>1, PTL

\* An execution is the owner's or an admin's.
THEOREM OwnersOrAdminsExecute == Spec => []ExecutedByOwnerOrAdmin
<1>1. IndInv => ExecutedByOwnerOrAdmin
  BY DEF IndInv, OutcomeOK, ExecutedByOwnerOrAdmin
<1>2. QED
  BY Invariance, <1>1, PTL

\* Audit timestamps tell which transitions happened, and a confirmation lies
\* within the window, for any expiry and any interleaving of request clocks.
THEOREM TimesAreRight == Spec => []AuditTimes
<1>1. IndInv => AuditTimes
  BY DEF IndInv, RowOK, AuditTimes
<1>2. QED
  BY Invariance, <1>1, PTL

\* Callers are told the truth, the losers of a race included.
THEOREM RepliesAreHonest == Spec => []HonestReplies
<1>1. IndInv => HonestReplies
  <2> SUFFICES ASSUME IndInv, NEW c \in Calls
               PROVE  /\ KindOf[c] = "confirm" =>
                            /\ reply[c].code = "ok" <=> landed[c] = "CONFIRMED"
                            /\ reply[c].code = "expired" <=> landed[c] = "EXPIRED"
                            /\ reply[c].code = "wrong_state" =>
                                  reply[c].status # "PENDING_CONFIRMATION"
                      /\ KindOf[c] = "execute" =>
                            /\ reply[c].code = "ok" =>
                                  /\ reply[c].status = "EXECUTED"
                                  /\ get_action(req[c].action) # NoRow
                                  /\ get_action(req[c].action).status = "EXECUTED"
                            /\ landed[c] = "EXECUTED" => reply[c].code = "ok"
    BY DEF HonestReplies
  <2>1. RequestOK(c) /\ OutcomeOK(c)
    BY DEF IndInv
  <2>2. QED
    BY <2>1 DEF RequestOK, OutcomeOK, get_action
<1>2. QED
  BY Invariance, <1>1, PTL

\* No step deletes an audit row, alters a proposal, rewrites a timestamp or
\* takes a status backwards.
THEOREM AuditTrailGrows == Spec => AuditTrailOnlyGrows
<1> DEFINE Grows(a) ==
       rows[a] # NoRow =>
           /\ rows'[a] # NoRow
           /\ Proposal(rows'[a]) = Proposal(rows[a])
           /\ rows[a].confirmed_at # NoTime => rows'[a].confirmed_at = rows[a].confirmed_at
           /\ rows[a].executed_at # NoTime => rows'[a] = rows[a]
           /\ rows'[a].status # rows[a].status =>
                 <<rows[a].status, rows'[a].status>> \in
                     {<<"PENDING_CONFIRMATION", "CONFIRMED">>,
                      <<"PENDING_CONFIRMATION", "EXPIRED">>,
                      <<"CONFIRMED", "EXECUTED">>}
<1>1. IndInv /\ [Next]_vars => [\A a \in ActionIds : Grows(a)]_vars
  <2> SUFFICES ASSUME IndInv, [Next]_vars, NEW a \in ActionIds, rows[a] # NoRow PROVE Grows(a)
    OBVIOUS
  <2>1. Evolves(rows[a], rows'[a]) /\ RowOK(rows[a])
    BY Evolution DEF IndInv
  <2>2. QED
    BY <2>1 DEF Evolves, RowOK
<1>2. QED
  BY Invariance, <1>1, PTL DEF Spec, AuditTrailOnlyGrows

=============================================================================
