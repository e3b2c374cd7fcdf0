------------------------------ MODULE Planning ------------------------------
(***************************************************************************)
(* From a question to a plan, without an LLM: entity resolution            *)
(* (app/agent/entities.py), the clarification gate (clarification.py), the *)
(* intent classifier (intent.py) and the planner (planner.py).             *)
(*                                                                         *)
(* A question is what those functions look at: the id-shaped tokens it     *)
(* mentions, the account names it contains and which keyword patterns      *)
(* match it.                                                               *)
(***************************************************************************)
EXTENDS Naturals, Sequences, FiniteSets

CONSTANTS
    Orders, TicketIds, Accounts,  \* ids of the three tables: one namespace each
    Absent,                       \* no such row; also: no entity
    Unrestricted                  \* account_scope=None

ASSUME IdsAreDistinct ==
    /\ Orders \cap TicketIds = {}
    /\ Orders \cap Accounts = {}
    /\ TicketIds \cap Accounts = {}
    /\ Absent \notin Orders \cup TicketIds \cup Accounts
    /\ \A s \in SUBSET Accounts : s # Unrestricted

Ids == Orders \cup TicketIds \cup Accounts

\* The keyword patterns of intent.py and clarification.py.
Signals == {"cancel", "credit", "sla", "response_time", "severity", "known_issue"}

\* ids: the distinct tokens in the order of their first mention.
Question ==
    [ids: Seq(Ids), names: SUBSET Accounts, signals: SUBSET Signals,
     aggregate: BOOLEAN, blank: BOOLEAN]

Scopes == SUBSET Accounts \cup {Unrestricted}

\* The database: the account of an order or ticket, an account's own id, or Absent.
Owners == {o \in [Ids -> Accounts \cup {Absent}] : \A a \in Accounts : o[a] \in {a, Absent}}

-----------------------------------------------------------------------------
(* Authorization *)

allows_account(scope, a) == scope = Unrestricted \/ a \in scope

\* The exception of get_order, get_ticket and get_account ("none" for success).
\* get_account checks the scope before it looks, the others after.
LookupError(i, owner, scope) ==
    IF i \in Accounts
    THEN CASE ~allows_account(scope, i) -> "not_authorized"
           [] allows_account(scope, i) /\ owner[i] = Absent -> "not_found"
           [] OTHER -> "none"
    ELSE CASE owner[i] = Absent -> "not_found"
           [] owner[i] # Absent /\ ~allows_account(scope, owner[i]) -> "not_authorized"
           [] OTHER -> "none"

-----------------------------------------------------------------------------
(* resolve_entities *)

\* Mutant: a token is looked up without the caller's scope.
Resolves_Unscoped(i, owner, scope) == owner[i] # Absent

\* A token that does not exist and one the caller may not see are both dropped.
Resolves(i, owner, scope) == LookupError(i, owner, scope) = "none"

match_account_names(q, owner, scope) ==
    {a \in q.names : owner[a] # Absent /\ allows_account(scope, a)}

\* The members of a set of positions, in increasing order.
InOrder(K) ==
    CHOOSE s \in [1 .. Cardinality(K) -> K] : \A j, k \in DOMAIN s : j < k => s[j] < s[k]

\* The tokens of one table that resolve, in the order in which they are mentioned.
Mentioned(q, owner, scope, table) ==
    LET found == InOrder({n \in DOMAIN q.ids :
                             q.ids[n] \in table /\ Resolves(q.ids[n], owner, scope)})
    IN  [k \in DOMAIN found |-> q.ids[found[k]]]

resolve_entities(q, owner, scope) ==
    LET explicit == \E i \in Ids : Resolves(i, owner, scope) /\ \E n \in DOMAIN q.ids : q.ids[n] = i
        named == IF explicit THEN {} ELSE match_account_names(q, owner, scope) IN
    [orders |-> Mentioned(q, owner, scope, Orders),
     tickets |-> Mentioned(q, owner, scope, TicketIds),
     accounts |-> IF Cardinality(named) = 1 THEN <<CHOOSE a \in named : TRUE>>
                  ELSE Mentioned(q, owner, scope, Accounts),
     ambiguous |-> Cardinality(named) > 1]

-----------------------------------------------------------------------------
(* needs_account_clarification and resolve_intent *)

needs_account_clarification(q, e, scope) ==
    /\ e.orders = <<>>
    /\ e.tickets = <<>>
    /\ q.signals \cap {"cancel", "credit", "sla", "severity"} # {}
    /\ ~q.aggregate
    /\ e.accounts = <<>>
    /\ scope = Unrestricted \/ Cardinality(scope) # 1

\* The intents whose keyword matched and whose kind of entity was resolved.
IntentSignals(q, e) ==
    {s \in {"cancellation", "service_credit"} :
        /\ e.orders # <<>>
        /\ (IF s = "cancellation" THEN "cancel" ELSE "credit") \in q.signals}
    \cup {s \in {"sla"} : e.tickets # <<>> /\ q.signals \cap {"sla", "response_time"} # {}}
    \cup {s \in {"severity"} : e.tickets # <<>> /\ "severity" \in q.signals}
    \cup {s \in {"known_issue"} : "known_issue" \in q.signals}

resolve_intent(q, e) ==
    LET signals == IntentSignals(q, e) IN
    CASE e.ambiguous -> "clarification"
      [] ~e.ambiguous /\ q.blank -> "unsupported"
      [] OTHER ->
         CASE Cardinality(signals) > 1 -> "multi_source"
           [] Cardinality(signals) = 1 -> CHOOSE s \in signals : TRUE
           [] OTHER ->
              CASE e.orders # <<>> -> "order_investigation"
                [] e.orders = <<>> /\ e.tickets # <<>> -> "ticket_investigation"
                [] e.orders = <<>> /\ e.tickets = <<>> /\ e.accounts # <<>>
                      -> "account_investigation"
                [] OTHER -> "informational"

-----------------------------------------------------------------------------
(* build_plan *)

Tools == {"lookup_structured_data", "search_documents", "calculate_support_outcome"}
Calculations == {"cancellation", "service_credit", "sla", "severity"}
PlanStep == [tool: Tools, calc: Calculations \cup {"none"}, entity: Ids \cup {Absent}]

Lookup(i) == [tool |-> "lookup_structured_data", calc |-> "none", entity |-> i]
Calculate(kind, i) == [tool |-> "calculate_support_outcome", calc |-> kind, entity |-> i]
Search == [tool |-> "search_documents", calc |-> "none", entity |-> Absent]

Lookups(ids) == [n \in 1 .. Len(ids) |-> Lookup(ids[n])]
Calculates(kind, ids) == [n \in 1 .. Len(ids) |-> Calculate(kind, ids[n])]

\* s[1], t[1], s[2], t[2], ... for sequences of one length.
Alternate(s, t) ==
    [n \in 1 .. 2 * Len(s) |-> IF n % 2 = 1 THEN s[(n + 1) \div 2] ELSE t[n \div 2]]

LookupAndCalculate(kind, ids) == Alternate(Lookups(ids), Calculates(kind, ids))

build_plan(intent, e) ==
    CASE intent \in {"cancellation", "service_credit"} ->
            LookupAndCalculate(intent, e.orders) \o <<Search>>
      [] intent \in {"sla", "severity"} -> LookupAndCalculate(intent, e.tickets) \o <<Search>>
      [] intent \in {"known_issue", "informational"} -> <<Search>>
      [] intent = "order_investigation" -> Lookups(e.orders) \o <<Search>>
      [] intent = "ticket_investigation" -> Lookups(e.tickets) \o <<Search>>
      [] intent = "account_investigation" -> Lookups(e.accounts) \o <<Search>>
      [] intent = "multi_source" ->
            Lookups(e.orders) \o Lookups(e.tickets) \o <<Search>>
              \o Alternate(Calculates("cancellation", e.orders),
                           Calculates("service_credit", e.orders))
              \o Calculates("sla", e.tickets)
      [] OTHER -> <<>>

=============================================================================
