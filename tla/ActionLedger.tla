---------------------------- MODULE ActionLedger ----------------------------
(***************************************************************************)
(* What the escalation workflow promises its callers, with no statements,  *)
(* snapshots, clocks or races in it: a ledger holding one status per       *)
(* action that only moves forward, calls that each move it at most once,   *)
(* and answers that never claim more than the ledger shows.                *)
(***************************************************************************)
CONSTANTS Calls, KindOf, ActionIds, NoId

VARIABLES
    ledger,   \* action id -> its status, or "absent"
    subject,  \* call -> the action it names, NoId if none
    effect,   \* call -> the status it moved an action to, or "nothing"
    answer    \* call -> "idle", "open", or how it ended

vars == <<ledger, subject, effect, answer>>

Init ==
    /\ ledger = [a \in ActionIds |-> "absent"]
    /\ subject = [c \in Calls |-> NoId]
    /\ effect = [c \in Calls |-> "nothing"]
    /\ answer = [c \in Calls |-> "idle"]

Begin(c) ==
    /\ answer[c] = "idle"
    /\ answer' = [answer EXCEPT ![c] = "open"]
    /\ \E a \in ActionIds \cup {NoId} : subject' = [subject EXCEPT ![c] = a]
    /\ UNCHANGED <<ledger, effect>>

\* Call c moves action a from one status to the next, its only effect.
Move(c, a, from, to) ==
    /\ answer[c] = "open"
    /\ effect[c] = "nothing"
    /\ ledger[a] = from
    /\ ledger' = [ledger EXCEPT ![a] = to]
    /\ effect' = [effect EXCEPT ![c] = to]
    /\ UNCHANGED <<subject, answer>>

Propose(c) ==
    KindOf[c] = "prepare" /\ \E a \in ActionIds : Move(c, a, "absent", "PENDING_CONFIRMATION")

Confirm(c) ==
    /\ KindOf[c] = "confirm"
    /\ subject[c] \in ActionIds
    /\ Move(c, subject[c], "PENDING_CONFIRMATION", "CONFIRMED")

Expire(c) ==
    /\ KindOf[c] = "confirm"
    /\ subject[c] \in ActionIds
    /\ Move(c, subject[c], "PENDING_CONFIRMATION", "EXPIRED")

Execute(c) ==
    /\ KindOf[c] = "execute"
    /\ subject[c] \in ActionIds
    /\ Move(c, subject[c], "CONFIRMED", "EXECUTED")

\* What the caller is told is true. Only execute is idempotent: it may report
\* the effect of another call.
Backed(c) ==
    CASE KindOf[c] = "prepare" -> effect[c] = "PENDING_CONFIRMATION"
      [] KindOf[c] = "confirm" -> effect[c] = "CONFIRMED"
      [] KindOf[c] = "execute" -> subject[c] \in ActionIds /\ ledger[subject[c]] = "EXECUTED"
      [] OTHER -> subject[c] \in ActionIds /\ ledger[subject[c]] # "absent"

Succeed(c) ==
    /\ answer[c] = "open"
    /\ Backed(c)
    /\ answer' = [answer EXCEPT ![c] = "success"]
    /\ UNCHANGED <<ledger, subject, effect>>

\* A refusal hides no effect but an expiry.
Refuse(c) ==
    /\ answer[c] = "open"
    /\ effect[c] \in {"nothing", "EXPIRED"}
    /\ answer' = [answer EXCEPT ![c] = "refused"]
    /\ UNCHANGED <<ledger, subject, effect>>

\* The server dies; what was committed stays.
Lose ==
    /\ \E S \in SUBSET {c \in Calls : answer[c] = "open"} :
          answer' = [c \in Calls |-> IF c \in S THEN "lost" ELSE answer[c]]
    /\ UNCHANGED <<ledger, subject, effect>>

Next ==
    \/ \E c \in Calls : Begin(c) \/ Propose(c) \/ Confirm(c) \/ Expire(c) \/ Execute(c)
                          \/ Succeed(c) \/ Refuse(c)
    \/ Lose

Safe == Init /\ [][Next]_vars

Spec == Safe /\ \A c \in Calls : WF_vars(Succeed(c) \/ Refuse(c))

=============================================================================
