----------------------------- MODULE PanelProofs -----------------------------
(***************************************************************************)
(* The page for every number of requests, actions and users: a button acts *)
(* on the record it shows, nothing is asked for twice, cards are current,  *)
(* and page and server together keep to the ledger's contract.             *)
(***************************************************************************)
EXTENDS ActionPanel, TLAPS

\* The status a success of call c is answered with.
Earned(c) ==
    IF KindOf[c] = "prepare" THEN "PENDING_CONFIRMATION"
    ELSE IF KindOf[c] = "confirm" THEN "CONFIRMED" ELSE "EXECUTED"

\* What a success of call c rests on.
Earns(c) ==
    /\ subject[c] \in ActionIds
    /\ reply[c] = [action_id |-> subject[c], status |-> Earned(c)]
    /\ IF KindOf[c] = "execute" THEN rows[subject[c]].status = "EXECUTED"
       ELSE effect[c] = Earned(c)

\* How far a request is on the server and on the page, and what it names by then.
CallOK(c) ==
    /\ server[c] = "idle" <=> page[c] = "idle"
    /\ page[c] = "delivered" => server[c] = "served"
    /\ IF server[c] = "idle" THEN subject[c] = NoId ELSE user[c] \in Users
    /\ server[c] # "served" => effect[c] = "nothing"
    /\ KindOf[c] = "prepare" /\ server[c] # "served" => subject[c] = NoId
    /\ KindOf[c] # "prepare" /\ server[c] # "idle" => subject[c] \in ActionIds
    /\ subject[c] # NoId => rows[subject[c]] # NoRow
    /\ KindOf[c] = "execute" /\ subject[c] # NoId =>
          rows[subject[c]].status \in {"CONFIRMED", "EXECUTED"}
    /\ server[c] = "served" =>
          \/ /\ reply[c] = Refused /\ effect[c] \in {"nothing", "EXPIRED"}
             /\ KindOf[c] = "prepare" => subject[c] = NoId
          \/ reply[c] # Refused /\ Earns(c)

\* A success that is shown, or may still be delivered.
Unspent(c) ==
    /\ server[c] = "served" /\ reply[c] # Refused
    /\ page[c] = "open" \/ out["action"] = c

\* Nobody has taken the step its button offers.
NotTaken(c, d) ==
    \/ KindOf[c] = "prepare" /\ KindOf[d] = "confirm"
    \/ KindOf[c] = "confirm" /\ KindOf[d] = "execute"
    => subject[d] # subject[c]

UnspentOK(c) ==
    Unspent(c) => /\ rows[subject[c]].status = Earned(c)
                  /\ \A d \in ActionCalls : NotTaken(c, d)

\* What is shown was delivered, and is what lastAction holds.
CardOK ==
    out["action"] \in ActionCalls =>
        /\ lastAction = out["action"]
        /\ page[out["action"]] = "delivered" /\ reply[out["action"]] # Refused

\* A run of the radar that is under way is the last one, and holds the button.
RunOK(c) ==
    KindOf[c] = "radar" /\ page[c] = "open" => disabled["radar"] /\ latest["radar"] = c

PanelInv ==
    /\ TypeOK
    /\ \A c \in ActionCalls : CallOK(c) /\ UnspentOK(c)
    /\ OneRequestPerStep
    /\ CardOK
    /\ \A c \in Questions : RunOK(c)
    /\ RadarShowsLastRun

-----------------------------------------------------------------------------
LEMMA PanelInit == Init => PanelInv
<1> SUFFICES ASSUME Init PROVE PanelInv
  OBVIOUS
<1>1. TypeOK
  BY PanelConstants DEF Init, TypeOK, Panels, Calls
<1>2. \A c \in ActionCalls : CallOK(c) /\ UnspentOK(c)
  BY DEF Init, Calls, CallOK, UnspentOK, Unspent
<1>3. OneRequestPerStep
  BY DEF Init, Calls, OneRequestPerStep
<1>4. CardOK /\ RadarShowsLastRun
  BY PanelConstants DEF Init, Panels, Calls, CardOK, RadarShowsLastRun
<1>5. \A c \in Questions : RunOK(c)
  BY DEF Init, Calls, RunOK
<1>6. QED
  BY <1>1, <1>2, <1>3, <1>4, <1>5 DEF PanelInv

\* A click sends one request more.
LEMMA ApiType ==
    ASSUME TypeOK, NEW c \in Calls, NEW a \in ActionIds \cup {NoId}, api(c, a, "busy"),
           disabled' \in [{"radar", "chat"} -> BOOLEAN]
    PROVE  TypeOK'
<1>1. PanelOf(c) \in Panels
  BY PanelConstants DEF PanelOf, Panels, Calls
<1>2. QED
  BY <1>1 DEF api, TypeOK, bounds

LEMMA PanelOfCall ==
    ASSUME NEW c \in Calls
    PROVE  /\ c \in ActionCalls => PanelOf(c) = "action" /\ KindOf[c] \in {"prepare", "confirm", "execute"}
           /\ c \in Questions => PanelOf(c) = KindOf[c] /\ KindOf[c] \in {"radar", "chat"}
           /\ PanelOf(c) \in Panels
           /\ c \notin {"empty", "busy", "error", NoCall}
BY PanelConstants DEF PanelOf, Panels, Calls

\* The record on the card.
LEMMA Card ==
    ASSUME PanelInv, NEW status, Offers(status)
    PROVE  /\ lastAction \in ActionCalls /\ out["action"] = lastAction
           /\ page[lastAction] = "delivered" /\ Earns(lastAction)
           /\ reply[lastAction].action_id = subject[lastAction]
           /\ status = Earned(lastAction)
           /\ Unspent(lastAction)
<1>1. /\ out["action"] \in ActionCalls /\ lastAction = out["action"]
      /\ page[lastAction] = "delivered" /\ reply[lastAction] # Refused
  BY DEF PanelInv, CardOK, Offers
<1>2. CallOK(lastAction)
  BY <1>1 DEF PanelInv
<1>3. server[lastAction] = "served" /\ Earns(lastAction)
  BY <1>1, <1>2 DEF CallOK
<1>4. QED
  BY <1>1, <1>3 DEF Earns, Unspent, Offers

\* A prepare, the radar's button or a question: a click that names no action.
LEMMA ClickKept ==
    ASSUME PanelInv, NEW c \in Calls, NEW a \in ActionIds \cup {NoId}, api(c, a, "busy"),
           disabled' \in [{"radar", "chat"} -> BOOLEAN],
           disabled["radar"] => disabled'["radar"],
           KindOf[c] = "radar" => ~disabled["radar"] /\ disabled'["radar"],
           KindOf[c] = "prepare" => a = NoId,
           KindOf[c] = "confirm" => Offers("PENDING_CONFIRMATION") /\ a = reply[lastAction].action_id,
           KindOf[c] = "execute" => Offers("CONFIRMED") /\ a = reply[lastAction].action_id
    PROVE  PanelInv'
<1>0. TypeOK /\ \A d \in ActionCalls : CallOK(d) /\ UnspentOK(d)
  BY DEF PanelInv
<1>1. TypeOK'
  BY <1>0, ApiType
<1>2. /\ server[c] = "idle" /\ server'[c] = "waiting" /\ page'[c] = "open" /\ subject'[c] = a
      /\ \A d \in Calls \ {c} : /\ server'[d] = server[d] /\ page'[d] = page[d]
                                /\ subject'[d] = subject[d] /\ user'[d] = user[d]
      /\ user'[c] \in Users
      /\ UNCHANGED <<rows, effect, reply, lastAction>>
      /\ out'[PanelOf(c)] = "busy" /\ latest'[PanelOf(c)] = c
      /\ \A k \in Panels \ {PanelOf(c)} : out'[k] = out[k] /\ latest'[k] = latest[k]
  BY <1>0, PanelOfCall DEF api, TypeOK
<1>3. c \in ActionCalls /\ KindOf[c] # "prepare" =>
         /\ lastAction \in ActionCalls /\ out["action"] = lastAction
         /\ page[lastAction] = "delivered" /\ Earns(lastAction)
         /\ a = subject[lastAction] /\ a \in ActionIds
         /\ Unspent(lastAction) /\ UnspentOK(lastAction)
         /\ KindOf[c] = "confirm" => KindOf[lastAction] = "prepare"
         /\ KindOf[c] = "execute" => KindOf[lastAction] = "confirm"
  <2>1. SUFFICES ASSUME c \in ActionCalls, KindOf[c] # "prepare"
                 PROVE  /\ lastAction \in ActionCalls /\ out["action"] = lastAction
                        /\ page[lastAction] = "delivered" /\ Earns(lastAction)
                        /\ a = subject[lastAction] /\ a \in ActionIds
                        /\ Unspent(lastAction) /\ UnspentOK(lastAction)
                        /\ KindOf[c] = "confirm" => KindOf[lastAction] = "prepare"
                        /\ KindOf[c] = "execute" => KindOf[lastAction] = "confirm"
    OBVIOUS
  <2>2. KindOf[c] \in {"confirm", "execute"}
    BY <2>1, PanelOfCall
  <2>3. CASE KindOf[c] = "confirm"
    BY <2>3, <1>0, Card DEF Earned, Earns
  <2>4. CASE KindOf[c] = "execute"
    BY <2>4, <1>0, Card DEF Earned, Earns
  <2>5. QED
    BY <2>2, <2>3, <2>4
<1>4. ASSUME NEW d \in ActionCalls PROVE CallOK(d)'
  <2>1. CASE d # c
    BY <1>0, <1>2, <2>1 DEF CallOK, Earns, Calls
  <2>2. CASE d = c
    <3>1. d \in Calls /\ CallOK(c) /\ KindOf[c] \in {"prepare", "confirm", "execute"}
      BY <1>0, <2>2, PanelOfCall DEF Calls
    <3>2. KindOf[c] # "prepare" => rows[a].status = Earned(lastAction) /\ rows[a] # NoRow
      BY <1>0, <1>3, <2>2, <3>1, PanelConstants DEF UnspentOK, CallOK
    <3>3. KindOf[c] = "execute" => rows[a].status = "CONFIRMED"
      BY <1>3, <2>2, <3>2 DEF Earned
    <3>4. QED
      BY <1>2, <1>3, <2>2, <3>1, <3>2, <3>3 DEF CallOK
  <2>3. QED
    BY <2>1, <2>2
<1>5. ASSUME NEW d \in ActionCalls PROVE UnspentOK(d)'
  <2>1. SUFFICES ASSUME Unspent(d)'
                 PROVE  /\ rows'[subject'[d]].status = Earned(d)
                        /\ \A e \in ActionCalls : NotTaken(d, e)'
    BY DEF UnspentOK
  <2>2. d \in Calls /\ d # c /\ Unspent(d)
    BY <1>2, <2>1, PanelOfCall DEF Unspent, Panels, Calls
  <2>3. rows[subject[d]].status = Earned(d) /\ \A e \in ActionCalls : NotTaken(d, e)
    BY <1>0, <2>2 DEF UnspentOK
  <2>4. ASSUME NEW e \in ActionCalls, e # c PROVE NotTaken(d, e)'
    BY <1>2, <2>2, <2>3, <2>4 DEF NotTaken, Calls
  <2>5. ASSUME c \in ActionCalls PROVE NotTaken(d, c)'
    <3>1. SUFFICES ASSUME KindOf[c] # "prepare", KindOf[d] = KindOf[lastAction],
                          subject[d] = subject[lastAction]
                   PROVE  FALSE
      BY <1>2, <1>3, <2>2, <2>5 DEF NotTaken
    <3>2. d = lastAction
      BY <1>3, <2>5, <3>1, PanelConstants DEF PanelInv, OneRequestPerStep
    <3>3. out'[PanelOf(c)] = "busy" /\ PanelOf(c) = "action"
      BY <1>2, <2>5, PanelOfCall
    <3>4. page'[d] = "delivered" /\ out'["action"] # d
      BY <1>2, <1>3, <2>2, <2>5, <3>1, <3>2, <3>3, PanelOfCall
    <3>5. QED
      BY <2>1, <3>4 DEF Unspent
  <2>6. QED
    BY <1>2, <2>2, <2>3, <2>4, <2>5
<1>6. OneRequestPerStep'
  <2>1. SUFFICES ASSUME NEW d \in ActionCalls, NEW e \in ActionCalls, subject'[d] # NoId,
                        subject'[d] = subject'[e], KindOf[d] = KindOf[e], e # c
                 PROVE  d = e
    BY DEF OneRequestPerStep
  <2>2. CASE d # c
    BY <1>2, <2>1, <2>2 DEF PanelInv, OneRequestPerStep, Calls
  <2>3. CASE d = c
    <3>1. a # NoId /\ KindOf[c] # "prepare" /\ subject[e] = a
      BY <1>2, <2>1, <2>3 DEF Calls
    <3>2. NotTaken(lastAction, e)
      BY <1>3, <2>1, <2>3, <3>1 DEF UnspentOK
    <3>3. QED
      BY <1>3, <2>1, <2>3, <3>1, <3>2, PanelOfCall DEF NotTaken, Calls
  <2>4. QED
    BY <2>2, <2>3
<1>7. CardOK'
  <2>1. CASE PanelOf(c) = "action"
    BY <1>2, <2>1, PanelOfCall DEF CardOK, Calls
  <2>2. CASE PanelOf(c) # "action"
    BY <1>2, <2>2, PanelOfCall DEF CardOK, Calls, Panels, PanelInv
  <2>3. QED
    BY <2>1, <2>2
<1>8. \A d \in Questions : RunOK(d)'
  <2>1. SUFFICES ASSUME NEW d \in Questions, KindOf[d] = "radar", page'[d] = "open"
                 PROVE  disabled'["radar"] /\ latest'["radar"] = d
    BY DEF RunOK
  <2>2. CASE d = c
    BY <1>2, <2>1, <2>2, PanelOfCall DEF Calls
  <2>3. CASE d # c
    BY <1>2, <2>1, <2>3, PanelOfCall DEF Calls, PanelInv, RunOK, Panels
  <2>4. QED
    BY <2>2, <2>3
<1>9. RadarShowsLastRun'
  <2>1. CASE PanelOf(c) = "radar"
    BY <1>2, <2>1, PanelOfCall DEF RadarShowsLastRun, Calls
  <2>2. CASE PanelOf(c) # "radar"
    BY <1>2, <2>2, PanelOfCall DEF RadarShowsLastRun, Calls, Panels, PanelInv
  <2>3. QED
    BY <2>1, <2>2
<1>10. QED
  BY <1>1, <1>4, <1>5, <1>6, <1>7, <1>8, <1>9 DEF PanelInv

\* An answer, or its loss, reaches the page.
LEMMA ArriveKept ==
    ASSUME PanelInv, NEW c \in Calls, page[c] = "open", NEW end, NEW shows,
           UNCHANGED <<serverVars, user, latest, currentUserId, script, switches, reloads>>,
           page' = [page EXCEPT ![c] = end], out' = [out EXCEPT ![PanelOf(c)] = shows], Enable(c),
           TypeOK',
           \/ /\ end = "failed" /\ shows = "error" /\ lastAction' = lastAction
           \/ /\ end = "delivered" /\ server[c] = "served"
              /\ shows = IF Succeeded(c) THEN c ELSE "error"
              /\ lastAction' = IF Kept(c) THEN c ELSE lastAction
    PROVE  PanelInv'
<1>0. TypeOK /\ \A d \in ActionCalls : CallOK(d) /\ UnspentOK(d)
  BY DEF PanelInv
<1>1. /\ page'[c] = end /\ end \in {"failed", "delivered"}
      /\ \A d \in Calls \ {c} : page'[d] = page[d]
      /\ UNCHANGED <<rows, server, subject, effect, reply, user>>
      /\ out'[PanelOf(c)] = shows
      /\ \A k \in Panels \ {PanelOf(c)} : out'[k] = out[k]
  BY <1>0, PanelOfCall DEF serverVars, TypeOK
<1>2. /\ shows \in {"error", c}
      /\ shows = c => /\ end = "delivered" /\ server[c] = "served" /\ reply[c] # Refused
                      /\ c \in ActionCalls => lastAction' = c
      /\ c \notin ActionCalls => lastAction' = lastAction
      /\ "error" \notin ActionCalls
  BY PanelOfCall, PanelConstants DEF Succeeded, Kept, Calls
<1>3. ASSUME NEW d \in ActionCalls PROVE CallOK(d)'
  <2>1. CallOK(d) /\ d \in Calls
    BY <1>0 DEF Calls
  <2>2. page'[d] = "idle" <=> page[d] = "idle"
    BY <1>1, <2>1
  <2>3. page'[d] = "delivered" => server[d] = "served"
    BY <1>1, <2>1 DEF CallOK
  <2>4. QED
    BY <1>1, <2>1, <2>2, <2>3 DEF CallOK, Earns
<1>4. ASSUME NEW d \in ActionCalls PROVE UnspentOK(d)'
  <2>1. Unspent(d)' => Unspent(d)
    <3>1. CASE PanelOf(c) = "action"
      BY <1>1, <1>2, <3>1, PanelOfCall DEF Unspent, Calls
    <3>2. CASE PanelOf(c) # "action"
      BY <1>1, <1>2, <3>2, PanelOfCall DEF Unspent, Calls, Panels
    <3>3. QED
      BY <3>1, <3>2
  <2>2. QED
    BY <1>0, <1>1, <2>1 DEF UnspentOK, NotTaken
<1>5. OneRequestPerStep'
  BY <1>1 DEF PanelInv, OneRequestPerStep
<1>6. CardOK'
  <2>1. CASE c \in ActionCalls
    BY <1>1, <1>2, <2>1, PanelOfCall DEF CardOK
  <2>2. CASE c \notin ActionCalls
    BY <1>1, <1>2, <2>2, PanelOfCall DEF CardOK, PanelInv, Calls, Panels
  <2>3. QED
    BY <2>1, <2>2
<1>7. \A d \in Questions : RunOK(d)'
  <2>1. SUFFICES ASSUME NEW d \in Questions, KindOf[d] = "radar", page'[d] = "open"
                 PROVE  disabled'["radar"] /\ latest'["radar"] = d
    BY DEF RunOK
  <2>2. d # c /\ page[d] = "open" /\ disabled["radar"] /\ latest["radar"] = d
    BY <1>1, <2>1 DEF PanelInv, RunOK, Calls
  <2>3. c \in Questions => KindOf[c] # "radar"
    BY <2>2 DEF PanelInv, RunOK
  <2>4. QED
    BY <1>0, <2>2, <2>3 DEF Enable, TypeOK
<1>8. RadarShowsLastRun'
  <2>1. CASE PanelOf(c) = "radar"
    <3>1. shows = c => latest["radar"] = c
      BY <2>1, PanelOfCall DEF PanelInv, RunOK, Calls
    <3>2. shows \in Questions => shows = c
      BY <1>2, PanelOfCall DEF Calls
    <3>3. QED
      BY <1>1, <2>1, <3>1, <3>2 DEF RadarShowsLastRun
  <2>2. CASE PanelOf(c) # "radar"
    BY <1>1, <2>2 DEF RadarShowsLastRun, Panels, PanelInv
  <2>3. QED
    BY <2>1, <2>2
<1>9. QED
  BY <1>3, <1>4, <1>5, <1>6, <1>7, <1>8 DEF PanelInv

\* The server answers a call and moves nothing.
LEMMA AnswerKept ==
    ASSUME PanelInv, NEW c \in ActionCalls, server[c] = "waiting", NEW r, Answers(c, r),
           UNCHANGED <<rows, subject, effect>>,
           \/ r = Refused
           \/ /\ KindOf[c] = "execute" /\ r = [action_id |-> subject[c], status |-> "EXECUTED"]
              /\ rows[subject[c]].status = "EXECUTED"
    PROVE  PanelInv'
<1>0. TypeOK /\ \A d \in ActionCalls : CallOK(d) /\ UnspentOK(d)
  BY DEF PanelInv
<1>1. /\ server'[c] = "served" /\ reply'[c] = r
      /\ \A d \in Calls \ {c} : server'[d] = server[d] /\ reply'[d] = reply[d]
      /\ UNCHANGED <<page, lastAction, out, disabled, latest, user>>
  BY <1>0 DEF Answers, TypeOK, pageVars, Calls
<1>2. CallOK(c)
  BY <1>0
<1>3. KindOf[c] \in {"prepare", "confirm", "execute"} /\ c \in Calls
  BY PanelOfCall DEF Calls
<1>4. KindOf[c] = "execute" => subject[c] \in ActionIds
  BY <1>2 DEF CallOK
<1>5. TypeOK'
  <2>1. r \in Record \cup {NoReply, Refused}
    BY <1>4 DEF Record, Statuses
  <2>2. QED
    BY <1>0, <1>3, <2>1 DEF Answers, TypeOK, pageVars, bounds
<1>6. ASSUME NEW d \in ActionCalls PROVE CallOK(d)'
  <2>1. CASE d # c
    BY <1>0, <1>1, <2>1 DEF CallOK, Earns, Calls
  <2>2. CASE d = c /\ r = Refused
    BY <1>1, <1>2, <2>2 DEF CallOK
  <2>3. CASE d = c /\ r # Refused
    <3>1. Earns(c)'
      BY <1>1, <1>4, <2>3 DEF Earns, Earned
    <3>2. QED
      BY <1>1, <1>2, <2>3, <3>1 DEF CallOK
  <2>4. QED
    BY <2>1, <2>2, <2>3
<1>7. ASSUME NEW d \in ActionCalls PROVE UnspentOK(d)'
  <2>1. CASE d # c
    BY <1>0, <1>1, <2>1 DEF UnspentOK, Unspent, NotTaken, Calls
  <2>2. CASE d = c /\ r = Refused
    BY <1>1, <2>2 DEF UnspentOK, Unspent
  <2>3. CASE d = c /\ r # Refused
    BY <1>1, <2>3 DEF UnspentOK, NotTaken, Earned
  <2>4. QED
    BY <2>1, <2>2, <2>3
<1>8. CardOK'
  <2>1. out["action"] \in ActionCalls => out["action"] # c
    BY <1>2 DEF CallOK, PanelInv, CardOK
  <2>2. QED
    BY <1>1, <2>1 DEF CardOK, PanelInv, Calls
<1>9. OneRequestPerStep' /\ RadarShowsLastRun' /\ \A d \in Questions : RunOK(d)'
  BY <1>1 DEF PanelInv, OneRequestPerStep, RadarShowsLastRun, RunOK
<1>10. QED
  BY <1>5, <1>6, <1>7, <1>8, <1>9 DEF PanelInv

\* The moves of the three handlers: action a, from one status to the next, and the answer.
MoveOf(c, a, s, r) ==
    \/ /\ KindOf[c] = "prepare" /\ rows[a] = NoRow
       /\ s = "PENDING_CONFIRMATION" /\ r = [action_id |-> a, status |-> s]
    \/ /\ KindOf[c] = "confirm" /\ a = subject[c] /\ rows[a].status = "PENDING_CONFIRMATION"
       /\ \/ s = "CONFIRMED" /\ r = [action_id |-> a, status |-> s]
          \/ s = "EXPIRED" /\ r = Refused
    \/ /\ KindOf[c] = "execute" /\ a = subject[c] /\ rows[a].status = "CONFIRMED"
       /\ s = "EXECUTED" /\ r = [action_id |-> a, status |-> s]

LEMMA MoveKept ==
    ASSUME PanelInv, NEW c \in ActionCalls, server[c] = "waiting", NEW a \in ActionIds, NEW s, NEW r,
           Moves(c, a, s, r), MoveOf(c, a, s, r)
    PROVE  PanelInv'
<1>0. TypeOK /\ \A d \in ActionCalls : CallOK(d) /\ UnspentOK(d)
  BY DEF PanelInv
<1>1. /\ c \in Calls /\ CallOK(c) /\ KindOf[c] \in {"prepare", "confirm", "execute"}
      /\ s \in Statuses /\ r \in Record \cup {Refused} /\ user[c] \in Users /\ a # NoId
  BY <1>0, PanelConstants DEF Calls, MoveOf, Statuses, Record, CallOK
<1>2. rows'[a].status = s /\ rows'[a] # NoRow /\ rows'[a] \in Row
  <2>1. (IF rows[a] = NoRow THEN user[c] ELSE rows[a].user_id) \in Users
    BY <1>0, <1>1 DEF TypeOK, Row
  <2>2. rows'[a] = [user_id |-> IF rows[a] = NoRow THEN user[c] ELSE rows[a].user_id, status |-> s]
    BY <1>0 DEF Moves, TypeOK
  <2>3. rows'[a] \in Row /\ rows'[a].status = s
    BY <1>1, <2>1, <2>2 DEF Row
  <2>4. QED
    BY <2>3, NoRowIsNoRow
<1>3. /\ \A b \in ActionIds \ {a} : rows'[b] = rows[b]
      /\ server'[c] = "served" /\ reply'[c] = r /\ effect'[c] = s /\ subject'[c] = a
      /\ \A d \in Calls \ {c} : /\ server'[d] = server[d] /\ reply'[d] = reply[d]
                                /\ effect'[d] = effect[d] /\ subject'[d] = subject[d]
      /\ UNCHANGED <<page, lastAction, out, disabled, latest, user>>
      /\ KindOf[c] # "prepare" => subject[c] = a
  BY <1>0, <1>1 DEF Moves, Answers, TypeOK, pageVars, MoveOf
<1>4. TypeOK'
  <2>1. rows' \in [ActionIds -> Row \cup {NoRow}]
    BY <1>0, <1>2, <1>3 DEF Moves, TypeOK
  <2>2. QED
    BY <1>0, <1>1, <2>1 DEF Moves, Answers, TypeOK, pageVars, bounds
<1>5. ASSUME NEW d \in ActionCalls, d # c, subject[d] = a
      PROVE  /\ KindOf[c] # "prepare" /\ rows[a] # NoRow
             /\ KindOf[d] = "execute" => KindOf[c] = "execute" /\ rows[a].status = "CONFIRMED"
             /\ ~Unspent(d)
  <2>1. CallOK(d) /\ UnspentOK(d)
    BY <1>0
  <2>2. KindOf[c] # "prepare" /\ rows[a] # NoRow
    BY <1>1, <1>5, <2>1 DEF CallOK, MoveOf
  <2>3. KindOf[d] = "execute" => KindOf[c] = "execute" /\ rows[a].status = "CONFIRMED"
    BY <1>1, <1>5, <2>1, <2>2 DEF CallOK, MoveOf
  <2>4. ASSUME Unspent(d) PROVE FALSE
    <3>1. rows[a].status = Earned(d) /\ NotTaken(d, c) /\ subject[c] = subject[d]
      BY <1>3, <1>5, <2>1, <2>2, <2>4 DEF UnspentOK
    <3>2. KindOf[d] \in {"prepare", "confirm", "execute"}
      BY PanelOfCall DEF Calls
    <3>3. QED
      BY <2>2, <3>1, <3>2 DEF NotTaken, MoveOf, Earned
  <2>5. QED
    BY <2>2, <2>3, <2>4
<1>6. ASSUME NEW d \in ActionCalls PROVE CallOK(d)'
  <2>1. CASE d # c
    <3>1. CallOK(d) /\ d \in Calls
      BY <1>0 DEF Calls
    <3>2. subject[d] \in ActionIds \cup {NoId}
      BY <1>0, <3>1 DEF TypeOK
    <3>3. /\ subject[d] # NoId => rows'[subject[d]] # NoRow
          /\ KindOf[d] = "execute" /\ subject[d] # NoId =>
                rows'[subject[d]].status \in {"CONFIRMED", "EXECUTED"}
      BY <1>2, <1>3, <1>5, <2>1, <3>1, <3>2 DEF CallOK, MoveOf
    <3>4. Earns(d) => Earns(d)'
      BY <1>2, <1>3, <1>5, <2>1, <3>1 DEF Earns
    <3>5. QED
      BY <1>3, <2>1, <3>1, <3>3, <3>4 DEF CallOK
  <2>2. CASE d = c
    <3>1. r # Refused => Earns(c)'
      BY <1>2, <1>3 DEF Earns, Earned, MoveOf
    <3>2. r = Refused => s = "EXPIRED" /\ KindOf[c] = "confirm"
      BY PanelConstants DEF MoveOf, Refused
    <3>3. page[c] # "idle" /\ KindOf[c] = "execute" => s = "EXECUTED"
      BY DEF MoveOf
    <3>4. QED
      BY <1>1, <1>2, <1>3, <2>2, <3>1, <3>2, <3>3 DEF CallOK
  <2>3. QED
    BY <2>1, <2>2
<1>7. ASSUME NEW d \in ActionCalls PROVE UnspentOK(d)'
  <2>1. CASE d # c
    <3>1. SUFFICES ASSUME Unspent(d)'
                   PROVE  /\ rows'[subject'[d]].status = Earned(d)
                          /\ \A e \in ActionCalls : NotTaken(d, e)'
      BY DEF UnspentOK
    <3>2. /\ d \in Calls /\ Unspent(d) /\ subject[d] # a /\ subject'[d] = subject[d]
          /\ subject[d] \in ActionIds
      <4>1. d \in Calls /\ CallOK(d)
        BY <1>0 DEF Calls
      <4>2. Unspent(d) /\ subject'[d] = subject[d]
        BY <1>3, <2>1, <3>1, <4>1 DEF Unspent
      <4>3. subject[d] # a
        BY <1>5, <2>1, <4>2
      <4>4. subject[d] \in ActionIds
        BY <4>1, <4>2 DEF Unspent, CallOK, Earns
      <4>5. QED
        BY <4>1, <4>2, <4>3, <4>4
    <3>3. \A e \in ActionCalls : NotTaken(d, e)'
      BY <1>0, <1>3, <3>2 DEF UnspentOK, NotTaken, Calls
    <3>4. QED
      BY <1>0, <1>3, <3>2, <3>3 DEF UnspentOK
  <2>2. CASE d = c
    <3>1. SUFFICES ASSUME r # Refused
                   PROVE  s = Earned(c) /\ \A e \in ActionCalls : NotTaken(c, e)'
      BY <1>2, <1>3, <2>2 DEF UnspentOK, Unspent
    <3>2. s = Earned(c)
      BY <3>1 DEF MoveOf, Earned
    <3>3. ASSUME NEW e \in ActionCalls PROVE NotTaken(c, e)'
      <4>1. SUFFICES ASSUME e # c, subject[e] = a,
                            \/ KindOf[c] = "prepare" /\ KindOf[e] = "confirm"
                            \/ KindOf[c] = "confirm" /\ KindOf[e] = "execute"
                     PROVE  FALSE
        BY <1>3 DEF NotTaken, Calls
      <4>2. QED
        BY <1>5, <4>1
    <3>4. QED
      BY <3>2, <3>3
  <2>3. QED
    BY <2>1, <2>2
<1>8. OneRequestPerStep'
  <2>1. SUFFICES ASSUME NEW d \in ActionCalls, NEW e \in ActionCalls, subject'[d] # NoId,
                        subject'[d] = subject'[e], KindOf[d] = KindOf[e], e # c
                 PROVE  d = e
    BY DEF OneRequestPerStep
  <2>2. CASE d # c
    BY <1>3, <2>1, <2>2 DEF PanelInv, OneRequestPerStep, Calls
  <2>3. CASE d = c
    <3>1. subject[e] = a
      BY <1>3, <2>1, <2>3 DEF Calls
    <3>2. KindOf[c] # "prepare" /\ subject[c] = subject[e] /\ subject[c] # NoId
      BY <1>1, <1>3, <1>5, <2>1, <3>1
    <3>3. QED
      BY <2>1, <2>3, <3>2 DEF PanelInv, OneRequestPerStep
  <2>4. QED
    BY <2>2, <2>3
<1>9. CardOK'
  <2>1. out["action"] \in ActionCalls => out["action"] # c
    BY <1>1 DEF CallOK, PanelInv, CardOK
  <2>2. QED
    BY <1>3, <2>1 DEF CardOK, PanelInv, Calls
<1>10. RadarShowsLastRun' /\ \A d \in Questions : RunOK(d)'
  BY <1>3 DEF PanelInv, RadarShowsLastRun, RunOK
<1>11. QED
  BY <1>4, <1>6, <1>7, <1>8, <1>9, <1>10 DEF PanelInv

\* The server's part of a step.
LEMMA ServeStep ==
    ASSUME PanelInv, NEW c \in Calls, Serve(c)
    PROVE  PanelInv'
<1>0. TypeOK /\ \A d \in ActionCalls : CallOK(d)
  BY DEF PanelInv
<1>1. c \in Questions => KindOf[c] \in {"radar", "chat"}
  BY PanelOfCall
<1>2. ASSUME c \in ActionCalls, KindOf[c] # "prepare", server[c] = "waiting"
      PROVE  subject[c] \in ActionIds /\ rows[subject[c]] # NoRow
  BY <1>0, <1>2, PanelConstants DEF CallOK
<1>3. ASSUME c \in ActionCalls, server[c] = "waiting", Refuses(c) PROVE PanelInv'
  BY <1>3, AnswerKept DEF Refuses
<1>4. CASE prepare(c)
  <2>1. c \in ActionCalls
    BY <1>1, <1>4 DEF prepare, Calls
  <2>2. ASSUME NEW a \in fresh,
               Moves(c, a, "PENDING_CONFIRMATION", [action_id |-> a, status |-> "PENDING_CONFIRMATION"])
        PROVE  PanelInv'
    BY <1>4, <2>1, <2>2, MoveKept DEF prepare, fresh, MoveOf
  <2>3. QED
    BY <1>3, <1>4, <2>1, <2>2 DEF prepare
<1>5. CASE confirm(c)
  <2>1. c \in ActionCalls /\ subject[c] \in ActionIds
    BY <1>1, <1>2, <1>5 DEF confirm, Calls
  <2>2. QED
    BY <1>3, <1>5, <2>1, MoveKept DEF confirm, confirmed, MoveOf
<1>6. CASE execute(c)
  <2>1. c \in ActionCalls /\ subject[c] \in ActionIds
    BY <1>1, <1>2, <1>6 DEF execute, Calls
  <2>2. CASE rows[subject[c]].status = "CONFIRMED"
              /\ Moves(c, subject[c], "EXECUTED", [action_id |-> subject[c], status |-> "EXECUTED"])
    BY <1>6, <2>1, <2>2, MoveKept DEF execute, MoveOf
  <2>3. CASE /\ rows[subject[c]].status = "EXECUTED"
             /\ Answers(c, [action_id |-> subject[c], status |-> "EXECUTED"])
             /\ UNCHANGED <<rows, subject, effect>>
    BY <1>6, <2>1, <2>3, AnswerKept DEF execute
  <2>4. CASE Refuses(c)
    BY <1>3, <1>6, <2>1, <2>4 DEF execute
  <2>5. QED
    BY <1>6, <2>2, <2>3, <2>4 DEF execute
<1>7. CASE run_or_ask(c)
  <2>1. PICK r \in {NoReply, Refused} : Answers(c, r)
    BY <1>7 DEF run_or_ask
  <2>2. /\ \A d \in ActionCalls : server'[d] = server[d] /\ reply'[d] = reply[d]
        /\ UNCHANGED <<rows, subject, effect, page, lastAction, out, disabled, latest, user>>
    BY <1>0, <1>7, <2>1, PanelConstants DEF run_or_ask, Answers, TypeOK, pageVars, Calls
  <2>3. TypeOK'
    BY <1>0, <1>7, <2>1 DEF run_or_ask, Answers, TypeOK, pageVars, bounds
  <2>4. \A d \in ActionCalls : CallOK(d)' /\ UnspentOK(d)'
    BY <2>2 DEF PanelInv, CallOK, Earns, UnspentOK, Unspent, NotTaken
  <2>5. CardOK' /\ OneRequestPerStep' /\ RadarShowsLastRun' /\ \A d \in Questions : RunOK(d)'
    BY <2>2 DEF PanelInv, CardOK, OneRequestPerStep, RadarShowsLastRun, RunOK
  <2>6. QED
    BY <2>3, <2>4, <2>5 DEF PanelInv
<1>8. QED
  BY <1>4, <1>5, <1>6, <1>7 DEF Serve

\* A reload forgets what is under way, and the cards.
LEMMA ReloadKept == PanelInv /\ Reload => PanelInv'
<1> SUFFICES ASSUME PanelInv, Reload PROVE PanelInv'
  OBVIOUS
<1>1. /\ UNCHANGED <<rows, server, subject, effect, reply, user>>
      /\ \A d \in Calls : page'[d] = IF page[d] = "open" THEN "failed" ELSE page[d]
      /\ \A k \in Panels : out'[k] = "empty"
  BY DEF Reload, serverVars
<1>2. TypeOK'
  BY PanelConstants DEF PanelInv, TypeOK, Reload, serverVars
<1>3. ASSUME NEW d \in ActionCalls PROVE CallOK(d)' /\ UnspentOK(d)'
  <2>1. d \in Calls /\ CallOK(d) /\ out'["action"] # d
    BY <1>1, PanelConstants DEF Panels, Calls, PanelInv
  <2>2. QED
    BY <1>1, <2>1 DEF CallOK, Earns, UnspentOK, Unspent
<1>4. CardOK' /\ RadarShowsLastRun' /\ OneRequestPerStep' /\ \A d \in Questions : RunOK(d)'
  BY <1>1, PanelConstants
  DEF PanelInv, CardOK, RadarShowsLastRun, OneRequestPerStep, RunOK, Panels, Calls
<1>5. QED
  BY <1>2, <1>3, <1>4 DEF PanelInv

LEMMA CrashKept == PanelInv /\ Crash => PanelInv'
<1> SUFFICES ASSUME PanelInv, Crash PROVE PanelInv'
  OBVIOUS
<1>1. /\ UNCHANGED <<rows, subject, effect, reply, page, lastAction, out, disabled, latest, user>>
      /\ \A d \in Calls : server'[d] = IF server[d] = "waiting" THEN "lost" ELSE server[d]
  BY DEF Crash, pageVars
<1>2. TypeOK'
  BY PanelConstants DEF PanelInv, TypeOK, Crash, pageVars
<1>3. ASSUME NEW d \in ActionCalls PROVE CallOK(d)' /\ UnspentOK(d)'
  <2>1. d \in Calls /\ CallOK(d) /\ UnspentOK(d)
    BY DEF Calls, PanelInv
  <2>2. CallOK(d)'
    BY <1>1, <2>1 DEF CallOK, Earns
  <2>3. UnspentOK(d)'
    BY <1>1, <2>1 DEF UnspentOK, Unspent, NotTaken
  <2>4. QED
    BY <2>2, <2>3
<1>4. CardOK' /\ RadarShowsLastRun' /\ OneRequestPerStep' /\ \A d \in Questions : RunOK(d)'
  BY <1>1 DEF PanelInv, CardOK, RadarShowsLastRun, OneRequestPerStep, RunOK
<1>5. QED
  BY <1>2, <1>3, <1>4 DEF PanelInv

LEMMA ClickStep ==
    ASSUME PanelInv, NEW c \in Calls, Click(c)
    PROVE  PanelInv'
<1>0. TypeOK
  BY DEF PanelInv
<1>1. CASE prepareAction(c)
  BY <1>0, <1>1, ClickKept DEF prepareAction, TypeOK
<1>2. CASE confirmAction(c) \/ executeAction(c)
  <2>1. PICK status : Offers(status) /\ api(c, reply[lastAction].action_id, "busy")
                        /\ UNCHANGED disabled
                        /\ \/ KindOf[c] = "confirm" /\ status = "PENDING_CONFIRMATION"
                           \/ KindOf[c] = "execute" /\ status = "CONFIRMED"
    BY <1>2 DEF confirmAction, executeAction
  <2>2. reply[lastAction].action_id \in ActionIds
    BY <2>1, Card DEF Earns
  <2>3. QED
    BY <1>0, <2>1, <2>2, ClickKept DEF TypeOK
<1>3. CASE runRadar(c) \/ submitQuestion(c)
  <2>1. /\ api(c, NoId, "busy") /\ KindOf[c] \in {"radar", "chat"}
        /\ KindOf[c] = "radar" => ~disabled["radar"]
    BY <1>3 DEF runRadar, submitQuestion
  <2>2. /\ disabled' \in [{"radar", "chat"} -> BOOLEAN]
        /\ disabled["radar"] => disabled'["radar"]
        /\ KindOf[c] = "radar" => disabled'["radar"]
    <3>1. CASE runRadar(c)
      BY <1>0, <3>1 DEF runRadar, TypeOK
    <3>2. CASE submitQuestion(c)
      <4>1. disabled' = [disabled EXCEPT !["chat"] = TRUE] /\ KindOf[c] # "radar"
        BY <3>2 DEF submitQuestion
      <4>2. disabled' \in [{"radar", "chat"} -> BOOLEAN] /\ disabled'["radar"] = disabled["radar"]
        BY <1>0, <4>1 DEF TypeOK
      <4>3. QED
        BY <4>1, <4>2
    <3>3. QED
      BY <1>3, <3>1, <3>2
  <2>3. QED
    BY <2>1, <2>2, ClickKept
<1>4. QED
  BY <1>1, <1>2, <1>3 DEF Click

LEMMA ArriveStep ==
    ASSUME PanelInv, NEW c \in Calls, Deliver(c) \/ Reject(c)
    PROVE  PanelInv'
<1>0. TypeOK /\ PanelOf(c) \in Panels
  BY PanelOfCall DEF PanelInv
<1>1. CASE Deliver(c)
  <2>1. TypeOK'
    BY <1>0, <1>1 DEF Deliver, TypeOK, serverVars, bounds, Enable, Kept, keep
  <2>2. QED
    BY <1>1, <2>1, ArriveKept DEF Deliver, bounds, keep
<1>2. CASE Reject(c)
  <2>1. faults' \in 0..MaxFaults
    BY <1>0, <1>2, PanelConstants DEF Reject, TypeOK
  <2>2. TypeOK'
    BY <1>0, <1>2, <2>1 DEF Reject, TypeOK, serverVars, Enable, catch
  <2>3. QED
    BY <1>2, <2>2, ArriveKept DEF Reject, catch
<1>3. QED
  BY <1>1, <1>2

LEMMA PanelStep == PanelInv /\ [Next]_vars => PanelInv'
<1> SUFFICES ASSUME PanelInv, [Next]_vars PROVE PanelInv'
  OBVIOUS
<1>1. ASSUME UNCHANGED <<rows, server, subject, effect, reply, page, lastAction, out, disabled,
                         latest, user>>, TypeOK'
      PROVE  PanelInv'
  BY <1>1 DEF PanelInv, CallOK, Earns, UnspentOK, Unspent, NotTaken, CardOK, OneRequestPerStep,
              RadarShowsLastRun, RunOK
<1>2. CASE SwitchUser
  <2>1. TypeOK'
    BY <1>2, PanelConstants DEF PanelInv, TypeOK, SwitchUser, serverVars
  <2>2. QED
    BY <1>1, <1>2, <2>1 DEF SwitchUser, serverVars
<1>3. CASE UNCHANGED vars
  <2>1. TypeOK'
    BY <1>3 DEF PanelInv, TypeOK, vars, serverVars, pageVars, bounds
  <2>2. QED
    BY <1>1, <1>3, <2>1 DEF vars, serverVars, pageVars
<1>4. QED
  BY <1>2, <1>3, ClickStep, ServeStep, ArriveStep, ReloadKept, CrashKept DEF Next

LEMMA PanelInvariant == Spec => []PanelInv
BY PanelInit, PanelStep, PTL DEF Spec

\* The variables keep to their types.
THEOREM PanelTypes == Spec => []TypeOK
BY PanelInvariant, PTL DEF PanelInv

\* A button of the action panel acts on the record its card shows
\* (ClickActsOnWhatIsShown).
THEOREM ShownIsActedOn == Spec => []ClickActsOnWhatIsShown
<1>1. PanelInv => ClickActsOnWhatIsShown
  BY DEF PanelInv, CardOK, ClickActsOnWhatIsShown
<1>2. QED
  BY <1>1, PanelInvariant, PTL

\* Each action is confirmed and executed by one request of the page at most
\* (OneRequestPerStep).
THEOREM NothingAskedTwice == Spec => []OneRequestPerStep
BY PanelInvariant, PTL DEF PanelInv

\* A card shows the status the audit row has (CardIsCurrent).
THEOREM CardsAreCurrent == Spec => []CardIsCurrent
<1>1. ASSUME PanelInv PROVE CardIsCurrent
  <2>1. SUFFICES ASSUME out["action"] \in ActionCalls
                 PROVE  /\ reply[out["action"]] # Refused
                        /\ rows[reply[out["action"]].action_id].status = reply[out["action"]].status
    BY DEF CardIsCurrent
  <2> DEFINE c == out["action"]
  <2>2. CallOK(c) /\ UnspentOK(c) /\ page[c] = "delivered" /\ reply[c] # Refused
    BY <1>1, <2>1 DEF PanelInv, CardOK
  <2>3. Unspent(c) /\ Earns(c)
    BY <2>2 DEF Unspent, CallOK
  <2>4. QED
    BY <2>2, <2>3 DEF UnspentOK, Earns
<1>2. QED
  BY <1>1, PanelInvariant, PTL

\* The radar panel shows the run that was started last (RadarShowsLastRun).
THEOREM LastRunShows == Spec => []RadarShowsLastRun
BY PanelInvariant, PTL DEF PanelInv

-----------------------------------------------------------------------------
(* The contract *)

LEMMA ContractInit == Init => Contract!Init
BY DEF Init, Contract!Init, Standing, Calls

\* A step that leaves the requests of the action panel where they stand.
LEMMA Stutters ==
    ASSUME UNCHANGED <<rows, subject, effect>>, \A d \in ActionCalls : Standing(d)' = Standing(d)
    PROVE  UNCHANGED Contract!vars
BY DEF Contract!vars

LEMMA SubjectOf ==
    ASSUME TypeOK, NEW c \in ActionCalls, NEW a, subject' = [subject EXCEPT ![c] = a],
           KindOf[c] = "prepare" => a = NoId
    PROVE  [d \in ActionCalls |-> IF KindOf[d] = "prepare" THEN NoId ELSE subject'[d]]
             = [[d \in ActionCalls |-> IF KindOf[d] = "prepare" THEN NoId ELSE subject[d]]
                  EXCEPT ![c] = a]
BY DEF TypeOK, Calls

LEMMA ClickBegins ==
    ASSUME PanelInv, NEW c \in Calls, NEW a \in ActionIds \cup {NoId}, NEW shows,
           api(c, a, shows), KindOf[c] = "prepare" => a = NoId
    PROVE  (\E d \in ActionCalls : Contract!Begin(d)) \/ UNCHANGED Contract!vars
<1>1. /\ server[c] = "idle" /\ server'[c] = "waiting" /\ UNCHANGED <<rows, effect, reply>>
      /\ \A d \in Calls \ {c} : server'[d] = server[d] /\ page'[d] = page[d]
      /\ subject' = [subject EXCEPT ![c] = a]
  BY DEF api, PanelInv, TypeOK
<1>2. Standing(c) = "idle" /\ Standing(c)' = "open"
  BY <1>1 DEF Standing
<1>3. \A d \in ActionCalls \ {c} : Standing(d)' = Standing(d)
  BY <1>1 DEF Standing, Succeeded, Calls
<1>4. CASE c \in ActionCalls
  <2>1. [d \in ActionCalls |-> Standing(d)'] = [[d \in ActionCalls |-> Standing(d)] EXCEPT ![c] = "open"]
    BY <1>2, <1>3, <1>4
  <2>2. [d \in ActionCalls |-> IF KindOf[d] = "prepare" THEN NoId ELSE subject'[d]]
          = [[d \in ActionCalls |-> IF KindOf[d] = "prepare" THEN NoId ELSE subject[d]] EXCEPT ![c] = a]
    BY <1>1, <1>4, SubjectOf DEF PanelInv
  <2>3. Contract!Begin(c)
    BY <1>1, <1>2, <1>4, <2>1, <2>2 DEF Contract!Begin
  <2>4. QED
    BY <1>4, <2>3
<1>5. CASE c \notin ActionCalls
  <2>1. \A d \in ActionCalls : Standing(d)' = Standing(d) /\ subject'[d] = subject[d]
    BY <1>1, <1>3, <1>5 DEF Calls, PanelInv, TypeOK
  <2>2. QED
    BY <1>1, <2>1 DEF Contract!vars
<1>6. QED
  BY <1>4, <1>5

\* What a delivered answer says is backed by the ledger.
LEMMA DeliverAnswers ==
    ASSUME PanelInv, NEW c \in Calls, Deliver(c)
    PROVE  (\E d \in ActionCalls : Contract!Succeed(d) \/ Contract!Refuse(d)) \/ UNCHANGED Contract!vars
<1>1. /\ page[c] = "open" /\ page'[c] = "delivered" /\ server[c] = "served"
      /\ \A d \in Calls \ {c} : page'[d] = page[d]
      /\ UNCHANGED <<rows, server, subject, effect, reply>>
  BY DEF Deliver, serverVars, PanelInv, TypeOK
<1>2. \A d \in ActionCalls \ {c} : Standing(d)' = Standing(d)
  BY <1>1 DEF Standing, Succeeded, Calls
<1>3. CASE c \notin ActionCalls
  BY <1>1, <1>2, <1>3, Stutters
<1>4. CASE c \in ActionCalls
  <2>1. CallOK(c) /\ KindOf[c] \in {"prepare", "confirm", "execute"}
    BY <1>4, PanelOfCall DEF PanelInv, Calls
  <2>2. Standing(c) = "open"
    BY <1>1 DEF Standing
  <2>3. CASE reply[c] # Refused
    <3>1. Standing(c)' = "success"
      BY <1>1, <2>3 DEF Standing, Succeeded
    <3>2. [d \in ActionCalls |-> Standing(d)']
            = [[d \in ActionCalls |-> Standing(d)] EXCEPT ![c] = "success"]
      BY <1>2, <1>4, <3>1
    <3>3. Earns(c)
      BY <1>1, <2>1, <2>3 DEF CallOK
    <3>4. Contract!Backed(c)
      <4>1. CASE KindOf[c] = "prepare"
        BY <1>4, <3>3, <4>1 DEF Contract!Backed, Earns, Earned
      <4>2. CASE KindOf[c] = "confirm"
        BY <1>4, <3>3, <4>2 DEF Contract!Backed, Earns, Earned
      <4>3. CASE KindOf[c] = "execute"
        <5>1. rows[subject[c]] # NoRow /\ subject[c] \in ActionIds
                /\ rows[subject[c]].status = "EXECUTED"
          BY <2>1, <3>3, <4>3, PanelConstants DEF Earns, CallOK
        <5>2. QED
          BY <1>4, <4>3, <5>1 DEF Contract!Backed
      <4>4. QED
        BY <2>1, <4>1, <4>2, <4>3
    <3>5. Contract!Succeed(c)
      BY <1>1, <1>4, <2>2, <3>2, <3>4 DEF Contract!Succeed
    <3>6. QED
      BY <1>4, <3>5
  <2>4. CASE reply[c] = Refused
    <3>1. Standing(c)' = "refused"
      BY <1>1, <2>4 DEF Standing, Succeeded
    <3>2. [d \in ActionCalls |-> Standing(d)']
            = [[d \in ActionCalls |-> Standing(d)] EXCEPT ![c] = "refused"]
      BY <1>2, <1>4, <3>1
    <3>3. effect[c] \in {"nothing", "EXPIRED"}
      BY <1>1, <2>1, <2>4 DEF CallOK
    <3>4. Contract!Refuse(c)
      BY <1>1, <1>4, <2>2, <3>2, <3>3 DEF Contract!Refuse
    <3>5. QED
      BY <1>4, <3>4
  <2>5. QED
    BY <2>3, <2>4
<1>5. QED
  BY <1>3, <1>4

\* Rejections and reloads lose the answer on its way; the request stands where it stood.
LEMMA LeavesStutter ==
    ASSUME PanelInv, UNCHANGED serverVars,
           \A d \in Calls : page'[d] # page[d] => page[d] = "open" /\ page'[d] = "failed"
    PROVE  UNCHANGED Contract!vars
<1>1. UNCHANGED <<rows, server, subject, effect, reply>>
  BY DEF serverVars
<1>2. ASSUME NEW d \in ActionCalls PROVE Standing(d)' = Standing(d)
  <2>1. d \in Calls /\ (page'[d] # "delivered" <=> page[d] # "delivered")
    BY DEF Calls
  <2>2. QED
    BY <1>1, <2>1 DEF Standing, Succeeded
<1>3. QED
  BY <1>1, <1>2, Stutters

\* An answer of the server leaves the request open until the page has it.
LEMMA AnswerStands ==
    ASSUME PanelInv, NEW c \in Calls, server[c] = "waiting", NEW r, Answers(c, r)
    PROVE  /\ \A d \in ActionCalls : Standing(d)' = Standing(d)
           /\ c \in ActionCalls => Standing(c) = "open"
<1>1. /\ server'[c] = "served" /\ page' = page
      /\ \A d \in Calls \ {c} : server'[d] = server[d] /\ reply'[d] = reply[d]
  BY DEF PanelInv, TypeOK, Answers, pageVars
<1>2. c \in ActionCalls => page[c] # "delivered"
  BY DEF PanelInv, CallOK
<1>3. QED
  BY <1>1, <1>2 DEF Standing, Succeeded, Calls

LEMMA MoveMoves ==
    ASSUME PanelInv, NEW c \in ActionCalls, server[c] = "waiting", NEW a \in ActionIds, NEW s, NEW r,
           Moves(c, a, s, r), MoveOf(c, a, s, r)
    PROVE  Contract!Propose(c) \/ Contract!Confirm(c) \/ Contract!Expire(c) \/ Contract!Execute(c)
<1> DEFINE Status(x) == IF rows[x] = NoRow THEN "absent" ELSE rows[x].status
           ledger == [x \in ActionIds |-> Status(x)]
           named == [d \in ActionCalls |-> IF KindOf[d] = "prepare" THEN NoId ELSE subject[d]]
           from == IF KindOf[c] = "prepare" THEN "absent"
                   ELSE IF KindOf[c] = "confirm" THEN "PENDING_CONFIRMATION" ELSE "CONFIRMED"
<1>1. /\ TypeOK /\ c \in Calls /\ CallOK(c) /\ KindOf[c] \in {"prepare", "confirm", "execute"}
      /\ Answers(c, r)
  BY PanelOfCall DEF PanelInv, Calls, Moves
<1>2. KindOf[c] # "prepare" => subject[c] = a /\ rows[a] # NoRow
  BY <1>1, PanelConstants DEF MoveOf, CallOK
<1>3. Status(a) = from
  BY <1>1, <1>2 DEF MoveOf
<1>4. rows' = [rows EXCEPT ![a] = [user_id |-> IF rows[a] = NoRow THEN user[c] ELSE rows[a].user_id,
                                   status |-> s]]
  BY DEF Moves
<1>5. rows'[a] # NoRow /\ rows'[a].status = s
  <2>1. s \in Statuses /\ user[c] \in Users
    BY <1>1 DEF MoveOf, Statuses, CallOK
  <2>2. rows'[a] = [user_id |-> IF rows[a] = NoRow THEN user[c] ELSE rows[a].user_id, status |-> s]
    BY <1>1, <1>4 DEF TypeOK
  <2>3. (IF rows[a] = NoRow THEN user[c] ELSE rows[a].user_id) \in Users
    BY <1>1, <2>1 DEF TypeOK, Row
  <2>4. rows'[a] \in Row
    BY <2>1, <2>2, <2>3 DEF Row
  <2>5. QED
    BY <2>2, <2>4, NoRowIsNoRow
<1>6. ledger' = [ledger EXCEPT ![a] = s]
  <2>1. \A x \in ActionIds \ {a} : rows'[x] = rows[x]
    BY <1>1, <1>4 DEF TypeOK
  <2>2. QED
    BY <1>5, <2>1
<1>7. [d \in ActionCalls |-> effect'[d]] = [[d \in ActionCalls |-> effect[d]] EXCEPT ![c] = s]
  BY <1>1 DEF Moves, TypeOK, Calls
<1>8. \A d \in ActionCalls : KindOf[d] # "prepare" => subject'[d] = subject[d]
  BY <1>1, <1>2 DEF Moves, TypeOK, Calls
<1>9. Standing(c) = "open" /\ \A d \in ActionCalls : Standing(d)' = Standing(d)
  BY <1>1, AnswerStands
<1>10. effect[c] = "nothing"
  BY <1>1 DEF CallOK
<1>11. Contract!Move(c, a, from, s)
  BY <1>3, <1>6, <1>7, <1>8, <1>9, <1>10 DEF Contract!Move
<1> HIDE DEF ledger, from
<1>12. CASE KindOf[c] = "prepare"
  BY <1>11, <1>12 DEF Contract!Propose, MoveOf, from
<1>13. CASE KindOf[c] = "confirm"
  BY <1>2, <1>11, <1>13 DEF Contract!Confirm, Contract!Expire, MoveOf, from
<1>14. CASE KindOf[c] = "execute"
  BY <1>2, <1>11, <1>14 DEF Contract!Execute, MoveOf, from
<1>15. QED
  BY <1>1, <1>12, <1>13, <1>14

LEMMA ServeMoves ==
    ASSUME PanelInv, NEW c \in Calls, Serve(c)
    PROVE  (\E d \in ActionCalls : \/ Contract!Propose(d) \/ Contract!Confirm(d)
                                    \/ Contract!Expire(d) \/ Contract!Execute(d))
             \/ UNCHANGED Contract!vars
<1>1. ASSUME NEW r, server[c] = "waiting", Answers(c, r), UNCHANGED <<rows, subject, effect>>
      PROVE  UNCHANGED Contract!vars
  BY <1>1, AnswerStands, Stutters
<1>2. c \in Questions => KindOf[c] \in {"radar", "chat"}
  BY PanelOfCall
<1>3. ASSUME c \in ActionCalls, KindOf[c] # "prepare", server[c] = "waiting"
      PROVE  subject[c] \in ActionIds
  BY <1>3 DEF PanelInv, CallOK
<1>4. CASE prepare(c)
  <2>1. c \in ActionCalls /\ server[c] = "waiting" /\ KindOf[c] = "prepare"
    BY <1>2, <1>4 DEF prepare, Calls
  <2>2. ASSUME NEW a \in fresh,
               Moves(c, a, "PENDING_CONFIRMATION", [action_id |-> a, status |-> "PENDING_CONFIRMATION"])
        PROVE  \E d \in ActionCalls : \/ Contract!Propose(d) \/ Contract!Confirm(d)
                                       \/ Contract!Expire(d) \/ Contract!Execute(d)
    BY <2>1, <2>2, MoveMoves DEF fresh, MoveOf
  <2>3. QED
    BY <1>1, <1>4, <2>1, <2>2 DEF prepare, Refuses
<1>5. CASE confirm(c)
  <2>1. c \in ActionCalls /\ subject[c] \in ActionIds /\ server[c] = "waiting"
    BY <1>2, <1>3, <1>5 DEF confirm, Calls
  <2>2. CASE Refuses(c)
    BY <1>1, <2>1, <2>2 DEF Refuses
  <2>3. CASE ~Refuses(c)
    <3>1. PICK s, r : Moves(c, subject[c], s, r) /\ MoveOf(c, subject[c], s, r)
      BY <1>5, <2>3 DEF confirm, confirmed, MoveOf
    <3>2. QED
      BY <2>1, <3>1, MoveMoves
  <2>4. QED
    BY <2>2, <2>3
<1>6. CASE execute(c)
  <2>1. c \in ActionCalls /\ subject[c] \in ActionIds /\ server[c] = "waiting"
    BY <1>2, <1>3, <1>6 DEF execute, Calls
  <2>2. CASE rows[subject[c]].status = "CONFIRMED"
              /\ Moves(c, subject[c], "EXECUTED", [action_id |-> subject[c], status |-> "EXECUTED"])
    <3>1. MoveOf(c, subject[c], "EXECUTED", [action_id |-> subject[c], status |-> "EXECUTED"])
      BY <1>6, <2>2 DEF execute, MoveOf
    <3>2. QED
      BY <2>1, <2>2, <3>1, MoveMoves
  <2>3. CASE (\E r : Answers(c, r)) /\ UNCHANGED <<rows, subject, effect>>
    BY <1>1, <2>1, <2>3
  <2>4. QED
    BY <1>6, <2>2, <2>3 DEF execute, Refuses
<1>7. CASE run_or_ask(c)
  BY <1>1, <1>7 DEF run_or_ask
<1>8. QED
  BY <1>4, <1>5, <1>6, <1>7 DEF Serve

LEMMA CrashLoses ==
    ASSUME PanelInv, Crash
    PROVE  Contract!Lose
<1> DEFINE S == {d \in ActionCalls : server[d] = "waiting"}
<1>1. /\ UNCHANGED <<rows, subject, effect, reply, page>>
      /\ \A d \in Calls : server'[d] = IF server[d] = "waiting" THEN "lost" ELSE server[d]
  BY DEF Crash, pageVars
<1>2. ASSUME NEW d \in ActionCalls
      PROVE  /\ d \in S => Standing(d) = "open"
             /\ Standing(d)' = IF d \in S THEN "lost" ELSE Standing(d)
  BY <1>1 DEF Standing, Succeeded, Calls
<1> DEFINE answer == [d \in ActionCalls |-> Standing(d)]
<1>3. answer' = [d \in ActionCalls |-> IF d \in S THEN "lost" ELSE answer[d]]
  BY <1>2
<1>4. S \in SUBSET {d \in ActionCalls : answer[d] = "open"}
  BY <1>2
<1> HIDE DEF S
<1>5. QED
  BY <1>1, <1>3, <1>4 DEF Contract!Lose

LEMMA ContractStep == PanelInv /\ [Next]_vars => [Contract!Next]_(Contract!vars)
<1> SUFFICES ASSUME PanelInv, [Next]_vars PROVE Contract!Next \/ UNCHANGED Contract!vars
  OBVIOUS
<1>1. ASSUME NEW c \in Calls, Click(c) PROVE Contract!Next \/ UNCHANGED Contract!vars
  <2>1. PICK a \in ActionIds \cup {NoId} : api(c, a, "busy") /\ (KindOf[c] = "prepare" => a = NoId)
    <3>1. CASE prepareAction(c) \/ runRadar(c) \/ submitQuestion(c)
      BY <3>1 DEF prepareAction, runRadar, submitQuestion
    <3>2. CASE confirmAction(c) \/ executeAction(c)
      <4>1. PICK status : Offers(status)
        BY <3>2 DEF confirmAction, executeAction
      <4>2. reply[lastAction].action_id \in ActionIds
        BY <4>1, Card DEF Earns
      <4>3. QED
        BY <3>2, <4>2 DEF confirmAction, executeAction
    <3>3. QED
      BY <1>1, <3>1, <3>2 DEF Click
  <2>2. QED
    BY <2>1, ClickBegins DEF Contract!Next
<1>2. ASSUME NEW c \in Calls, Serve(c) PROVE Contract!Next \/ UNCHANGED Contract!vars
  BY <1>2, ServeMoves DEF Contract!Next
<1>3. ASSUME NEW c \in Calls, Deliver(c) PROVE Contract!Next \/ UNCHANGED Contract!vars
  BY <1>3, DeliverAnswers DEF Contract!Next
<1>4. ASSUME NEW c \in Calls, Reject(c) PROVE UNCHANGED Contract!vars
  BY <1>4, LeavesStutter DEF Reject, PanelInv, TypeOK
<1>5. CASE Reload
  BY <1>5, LeavesStutter DEF Reload
<1>6. CASE Crash
  BY <1>6, CrashLoses DEF Contract!Next
<1>7. CASE SwitchUser \/ UNCHANGED vars
  <2>1. UNCHANGED <<rows, server, subject, effect, reply, page>>
    BY <1>7 DEF SwitchUser, vars, serverVars, pageVars
  <2>2. QED
    BY <2>1, Stutters DEF Standing, Succeeded
<1>8. QED
  BY <1>1, <1>2, <1>3, <1>4, <1>5, <1>6, <1>7 DEF Next

\* Page and server keep to the contract of ActionLedger: with answers that are lost,
\* overtaken or thrown away, no request of the page has an effect the ledger does not know,
\* and no card claims more than the ledger shows (KeepsToLedger).
THEOREM PanelKeepsToLedger == Spec => KeepsToLedger
BY ContractInit, ContractStep, PanelInvariant, PTL DEF Spec, KeepsToLedger, Contract!Safe

=============================================================================
