---------------------------- MODULE LedgerProofs ----------------------------
(***************************************************************************)
(* Every behaviour of the escalation workflow is one of ActionLedger: the  *)
(* statements of the handlers take the ledger's steps or none.             *)
(***************************************************************************)
EXTENDS ActionsProofs

\* How a call ends, or stands, in the ledger's terms.
Standing(p, code) ==
    CASE p = "idle" -> "idle"
      [] p = "lost" -> "lost"
      [] p = "done" -> IF code = "ok" THEN "success" ELSE "refused"
      [] OTHER -> "open"

\* The mapped answers, call by call.
LEMMA AnswerIsStanding ==
    /\ answer = [c \in Calls |-> Standing(pc[c], reply[c].code)]
    /\ answer' = [c \in Calls |-> Standing(pc'[c], reply'[c].code)]
BY DEF answer, Standing

\* A step that changes no row, request or history, and leaves every call where
\* it stood, is none of the ledger's.
LEMMA Stutter ==
    ASSUME rows' = rows, req' = req, landed' = landed,
           \A c \in Calls : Standing(pc[c], reply[c].code)' = Standing(pc[c], reply[c].code)
    PROVE  UNCHANGED Ledger!vars
<1>1. answer' = answer
  BY AnswerIsStanding
<1>2. ledger' = ledger /\ subject' = subject
  BY DEF ledger, subject
<1>3. QED
  BY <1>1, <1>2 DEF Ledger!vars

\* Statements of a call under way keep it open.
LEMMA StaysOpen ==
    ASSUME TypeOK, NEW c \in Calls, pc[c] \in Statements,
           \/ \E s \in Statements : Goto(c, s)
           \/ \E code, status : Answer(c, code, status)
    PROVE  /\ \A d \in Calls :
                  Standing(pc[d], reply[d].code)' = Standing(pc[d], reply[d].code)
           /\ answer[c] = "open"
           /\ answer' = answer
<1>1. /\ pc'[c] \in Statements \cup {"replying"}
      /\ \A d \in Calls : d # c => pc'[d] = pc[d] /\ reply'[d] = reply[d]
  BY DEF Goto, Answer, TypeOK
<1>2. Standing(pc[c], reply[c].code) = "open" /\ Standing(pc[c], reply[c].code)' = "open"
  BY <1>1 DEF Standing, Statements
<1>3. \A d \in Calls : Standing(pc[d], reply[d].code)' = Standing(pc[d], reply[d].code)
  BY <1>1, <1>2
<1>4. QED
  BY <1>2, <1>3, AnswerIsStanding

\* The initial states are the ledger's.
LEMMA LedgerInit == Init => Ledger!Init
BY DEF Init, Ledger!Init, ledger, subject, answer, NoRequest

\* Receiving a request begins a call of the ledger.
LEMMA RouteBegins ==
    ASSUME TypeOK, NEW c \in Calls, Route(c)
    PROVE  Ledger!Begin(c)
<1>1. PICK u \in Users, t \in Tickets \cup {NoId}, a \in ActionIds \cup {NoId},
           h \in Hashes \cup {NoHash} : Receive(c, u, t, a, h)
  BY DEF Route, prepare, confirm, execute, get_action_route, KnownIds
<1>2. /\ pc[c] = "idle" /\ pc' = [pc EXCEPT ![c] = FirstStatement[KindOf[c]]]
      /\ rows' = rows /\ landed' = landed /\ reply' = reply
  BY <1>1 DEF Receive, dbVars
<1>3. FirstStatement[KindOf[c]] \in Statements
  BY ConstantsOK DEF FirstStatement, Kinds, Statements
<1>4. answer[c] = "idle" /\ answer' = [answer EXCEPT ![c] = "open"]
  <2>1. Standing(pc[c], reply[c].code) = "idle"
    BY <1>2 DEF Standing
  <2>2. Standing(pc[c], reply[c].code)' = "open"
    BY <1>2, <1>3 DEF Standing, Statements, TypeOK
  <2>3. \A d \in Calls : d # c =>
            Standing(pc[d], reply[d].code)' = Standing(pc[d], reply[d].code)
    BY <1>2 DEF TypeOK
  <2>4. QED
    BY <2>1, <2>2, <2>3, AnswerIsStanding
<1>5. ledger' = ledger
  BY <1>2 DEF ledger
<1>6. subject' = [subject EXCEPT ![c] = a]
  BY <1>1 DEF Receive, subject, TypeOK
<1>7. QED
  BY <1>2, <1>4, <1>5, <1>6 DEF Ledger!Begin

\* The statements that only read are none of the ledger's steps.
LEMMA ReadStutters ==
    ASSUME IndInv, NEW c \in Calls, Reads(c), ~Respond(c)
    PROVE  UNCHANGED Ledger!vars
<1>0. TypeOK
  BY DEF IndInv
<1>1. rows' = rows /\ req' = req /\ landed' = landed /\ pc[c] \in Statements
  BY DEF Reads, PrepareTicket, PrepareSla, ConfirmGet, ConfirmTicket, wrong_state_outcome,
     require_owner_or_admin, ExecuteGet, ExecuteReread, get_owned_action_or_404, At,
     dbVars, Statements
<1>2. \/ \E s \in Statements : Goto(c, s)
      \/ \E code, status : Answer(c, code, status)
  BY DEF Reads, PrepareTicket, PrepareSla, ConfirmGet, ConfirmTicket, wrong_state_outcome,
     require_owner_or_admin, ExecuteGet, ExecuteReread, get_owned_action_or_404, Statements
<1>3. QED
  BY <1>0, <1>1, <1>2, StaysOpen, Stutter

\* A response tells the caller what the ledger allows.
LEMMA RespondAnswers ==
    ASSUME IndInv, NEW c \in Calls, Respond(c)
    PROVE  Ledger!Succeed(c) \/ Ledger!Refuse(c)
<1>0. TypeOK /\ RequestOK(c) /\ OutcomeOK(c)
  BY DEF IndInv
<1>1. /\ pc[c] = "replying" /\ pc' = [pc EXCEPT ![c] = "done"]
      /\ rows' = rows /\ req' = req /\ landed' = landed /\ reply' = reply
  BY DEF Respond, At, dbVars
<1>2. ledger' = ledger /\ subject' = subject
  BY <1>1 DEF ledger, subject
<1>3. /\ answer[c] = "open"
      /\ answer' = [answer EXCEPT ![c] = IF reply[c].code = "ok" THEN "success" ELSE "refused"]
  <2>1. Standing(pc[c], reply[c].code) = "open"
    BY <1>1 DEF Standing
  <2>2. Standing(pc'[c], reply'[c].code) =
            IF reply[c].code = "ok" THEN "success" ELSE "refused"
    BY <1>0, <1>1 DEF Standing, TypeOK
  <2>3. \A d \in Calls : d # c =>
            Standing(pc'[d], reply'[d].code) = Standing(pc[d], reply[d].code)
    BY <1>0, <1>1 DEF TypeOK
  <2>4. QED
    BY <2>1, <2>2, <2>3, AnswerIsStanding
<1>4. CASE reply[c].code = "ok"
  <2>1. /\ KindOf[c] = "prepare" => landed[c] = "PENDING_CONFIRMATION"
        /\ KindOf[c] = "confirm" => landed[c] = "CONFIRMED"
        /\ KindOf[c] \in {"execute", "get"} =>
              /\ req[c].action \in ActionIds
              /\ rows[req[c].action] # NoRow
              /\ KindOf[c] = "execute" => rows[req[c].action].status = "EXECUTED"
    BY <1>0, <1>4 DEF OutcomeOK, RequestOK
  <2>2. KindOf[c] \in {"execute", "get"} =>
            /\ subject[c] \in ActionIds
            /\ ledger[subject[c]] = rows[req[c].action].status
            /\ rows[req[c].action].status \in ActionStatus
    BY <1>0, <2>1 DEF subject, ledger, TypeOK, ActionRecord
  <2>3. Ledger!Backed(c)
    BY <2>1, <2>2, ConstantsOK DEF Ledger!Backed, Kinds, ActionStatus
  <2>4. QED
    BY <1>1, <1>2, <1>3, <1>4, <2>3 DEF Ledger!Succeed
<1>5. CASE reply[c].code # "ok"
  <2>1. landed[c] \in {"nothing", "EXPIRED"}
    BY <1>0, <1>5 DEF OutcomeOK, TypeOK, ActionStatus
  <2>2. QED
    BY <1>1, <1>2, <1>3, <1>5, <2>1 DEF Ledger!Refuse
<1>6. QED
  BY <1>4, <1>5

\* Inserting a row proposes an action.
LEMMA InsertProposes ==
    ASSUME IndInv, NEW c \in Calls, insert_action(c)
    PROVE  Ledger!Propose(c)
<1>0. TypeOK /\ RequestOK(c)
  BY DEF IndInv
<1>1. /\ pc[c] = "p_insert" /\ KindOf[c] = "prepare" /\ landed[c] = "nothing"
      /\ req' = req
      /\ landed' = [landed EXCEPT ![c] = "PENDING_CONFIRMATION"]
  BY <1>0 DEF insert_action, At, RequestOK, Statements
<1>2. answer[c] = "open" /\ answer' = answer
  BY <1>0, <1>1, StaysOpen DEF insert_action, Statements
<1>3. subject' = subject
  BY <1>1 DEF subject
<1>4. PICK a \in ActionIds : rows[a] = NoRow /\ rows' = [rows EXCEPT ![a] = NewRecord(req[c])]
  BY DEF insert_action
<1>5. NewRecord(req[c]).status = "PENDING_CONFIRMATION"
  BY DEF NewRecord
<1>6. NewRecord(req[c]) # NoRow
  <2>1. req[c].target \in Tickets /\ req[c] \in Request
    BY <1>0, <1>1 DEF RequestOK, TypeOK
  <2>2. QED
    BY <2>1, NewRecordType, NoRowIsNoRecord
<1>7. ledger[a] = "absent" /\ ledger' = [ledger EXCEPT ![a] = "PENDING_CONFIRMATION"]
  BY <1>0, <1>4, <1>5, <1>6 DEF ledger, TypeOK
<1>8. QED
  BY <1>1, <1>2, <1>3, <1>4, <1>7 DEF Ledger!Propose, Ledger!Move

\* A conditional UPDATE that lands moves the ledger.
LEMMA SaveMoves ==
    ASSUME IndInv, NEW c \in Calls, NEW record \in ActionRecord, NEW expected,
           req[c].action \in ActionIds, pc[c] \in Statements, req' = req,
           save_action_if_status(c, record, expected),
           \E code, status : Answer(c, code, status)
    PROVE  Ledger!Move(c, subject[c], expected, record.status) /\ subject[c] \in ActionIds
<1> DEFINE a == req[c].action
<1>0. TypeOK /\ RequestOK(c)
  BY DEF IndInv
<1>1. answer[c] = "open" /\ answer' = answer
  BY <1>0, StaysOpen
<1>2. subject' = subject /\ subject[c] = a
  BY DEF subject
<1>3. landed[c] = "nothing" /\ landed' = [landed EXCEPT ![c] = record.status]
  BY <1>0 DEF RequestOK, save_action_if_status
<1>4. /\ rows[a] # NoRow /\ rows[a].status = expected
      /\ rows'[a] # NoRow /\ rows'[a].status = record.status
      /\ \A b \in ActionIds : b # a => rows'[b] = rows[b]
  BY <1>0, SaveEffect, NoRowIsNoRecord
<1>5. ledger[a] = expected /\ ledger' = [ledger EXCEPT ![a] = record.status]
  BY <1>4 DEF ledger
<1>6. QED
  BY <1>1, <1>2, <1>3, <1>5 DEF Ledger!Move

\* The three conditional UPDATEs are the ledger's three transitions.
LEMMA SavesMove ==
    ASSUME IndInv, NEW c \in Calls, landed' # landed
    PROVE  /\ ConfirmSave(c) => Ledger!Confirm(c)
           /\ ConfirmExpire(c) => Ledger!Expire(c)
           /\ ExecuteSave(c) => Ledger!Execute(c)
<1>0. RequestOK(c)
  BY DEF IndInv
<1>1. ASSUME ConfirmSave(c) PROVE Ledger!Confirm(c)
  <2>1. pc[c] \in Statements /\ KindOf[c] = "confirm" /\ req' = req
    BY <1>0, <1>1 DEF ConfirmSave, At, RequestOK, Statements
  <2>2. QED
    BY <1>1, <2>1, ConfirmSaved, SaveMoves DEF Ledger!Confirm
<1>2. ASSUME ConfirmExpire(c) PROVE Ledger!Expire(c)
  <2> DEFINE copy == [seen[c] EXCEPT !.status = "EXPIRED"]
  <2>1. pc[c] \in Statements /\ KindOf[c] = "confirm" /\ req' = req
    BY <1>0, <1>2 DEF ConfirmExpire, At, RequestOK, Statements
  <2>2. /\ req[c].action \in ActionIds
        /\ copy \in ActionRecord /\ copy.status = "EXPIRED"
        /\ save_action_if_status(c, copy, "PENDING_CONFIRMATION")
        /\ Answer(c, "expired", "EXPIRED")
    BY <1>2, ConfirmExpired
  <2> HIDE DEF copy
  <2>3. QED
    BY <2>1, <2>2, SaveMoves DEF Ledger!Expire
<1>3. ASSUME ExecuteSave(c) PROVE Ledger!Execute(c)
  <2>1. pc[c] \in Statements /\ KindOf[c] = "execute" /\ req' = req
    BY <1>0, <1>3 DEF ExecuteSave, At, RequestOK, Statements
  <2>2. QED
    BY <1>3, <2>1, ExecuteSaved, SaveMoves DEF Ledger!Execute
<1>4. QED
  BY <1>1, <1>2, <1>3

\* A lost race is none of the ledger's steps.
LEMMA MissStutters ==
    ASSUME IndInv, NEW c \in Calls, ConfirmSave(c) \/ ConfirmExpire(c) \/ ExecuteSave(c),
           landed' = landed
    PROVE  UNCHANGED Ledger!vars
<1>0. TypeOK
  BY DEF IndInv
<1>1. rows' = rows
  BY SaveOrMiss
<1>2. req' = req /\ pc[c] \in Statements
  BY DEF ConfirmSave, ConfirmExpire, ExecuteSave, At, Statements
<1>3. \/ \E s \in Statements : Goto(c, s)
      \/ \E code, status : Answer(c, code, status)
  BY DEF ConfirmSave, ConfirmExpire, ExecuteSave, Statements
<1>4. QED
  BY <1>0, <1>1, <1>2, <1>3, StaysOpen, Stutter

\* A crash, or a redeployment, loses the open calls and nothing else.
LEMMA EnvironmentLoses ==
    ASSUME TypeOK, Environment
    PROVE  Ledger!Lose \/ UNCHANGED Ledger!vars
<1>1. rows' = rows /\ req' = req /\ landed' = landed
  BY DEF Environment, DbError, TicketChange, Tick, Crash, Redeploy, dbVars, callVars
<1>2. ASSUME NEW c \in Calls, DbError(c) PROVE UNCHANGED Ledger!vars
  BY <1>1, <1>2, StaysOpen, Stutter DEF DbError
<1>3. ASSUME Tick \/ \E t \in Tickets : TicketChange(t) PROVE UNCHANGED Ledger!vars
  <2>1. pc' = pc /\ reply' = reply
    BY <1>3 DEF Tick, TicketChange, callVars
  <2>2. QED
    BY <1>1, <2>1, Stutter
<1>4. ASSUME Crash \/ \E u \in Users : Redeploy(u) PROVE Ledger!Lose
  <2>1. LoseCalls /\ reply' = reply
    BY <1>4 DEF Crash, Redeploy
  <2> DEFINE S == {c \in Calls : pc[c] \in Statements \cup {"replying"}}
  <2>2. ASSUME NEW c \in Calls
        PROVE  /\ c \in S => Standing(pc[c], reply[c].code) = "open"
               /\ Standing(pc'[c], reply'[c].code) =
                     IF c \in S THEN "lost" ELSE Standing(pc[c], reply[c].code)
    BY <2>1 DEF LoseCalls, Standing, Statements
  <2>3. answer' = [c \in Calls |-> IF c \in S THEN "lost" ELSE answer[c]]
    BY <2>2, AnswerIsStanding
  <2>4. S \in SUBSET {c \in Calls : answer[c] = "open"}
    BY <2>2, AnswerIsStanding
  <2>5. ledger' = ledger /\ subject' = subject
    BY <1>1 DEF ledger, subject
  <2> HIDE DEF S
  <2>6. QED
    BY <1>1, <2>3, <2>4, <2>5 DEF Ledger!Lose
<1>5. QED
  BY <1>2, <1>3, <1>4 DEF Environment

\* Every step is a step of the ledger or none.
LEMMA LedgerStep == IndInv /\ [Next]_vars => [Ledger!Next]_(Ledger!vars)
<1> SUFFICES ASSUME IndInv, [Next]_vars PROVE Ledger!Next \/ UNCHANGED Ledger!vars
  OBVIOUS
<1>0. TypeOK
  BY DEF IndInv
<1>1. ASSUME NEW c \in Calls, Route(c) PROVE Ledger!Next
  BY <1>0, <1>1, RouteBegins DEF Ledger!Next
<1>2. ASSUME NEW c \in Calls, Reads(c) PROVE Ledger!Next \/ UNCHANGED Ledger!vars
  BY <1>2, ReadStutters, RespondAnswers DEF Ledger!Next
<1>3. ASSUME NEW c \in Calls, insert_action(c) PROVE Ledger!Next
  BY <1>3, InsertProposes DEF Ledger!Next
<1>4. ASSUME NEW c \in Calls, ConfirmSave(c) \/ ConfirmExpire(c) \/ ExecuteSave(c)
      PROVE  Ledger!Next \/ UNCHANGED Ledger!vars
  BY <1>4, SavesMove, MissStutters DEF Ledger!Next
<1>5. CASE Environment
  BY <1>0, <1>5, EnvironmentLoses DEF Ledger!Next
<1>6. CASE UNCHANGED vars
  BY <1>6, Stutter DEF vars
<1>7. QED
  BY <1>1, <1>2, <1>3, <1>4, <1>5, <1>6, HandleCases DEF Next, Quiescent

\* The escalation workflow implements the ledger's safety: callers cannot tell
\* its interleaved statements, stale snapshots and crashes from one ledger that
\* moves one step at a time and never answers more than it shows.
THEOREM LedgerRefinement == Spec => Ledger!Safe
BY LedgerInit, LedgerStep, Invariance, PTL DEF Spec, Ledger!Safe

=============================================================================
