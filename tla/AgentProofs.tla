----------------------------- MODULE AgentProofs -----------------------------
(***************************************************************************)
(* What one request promises, for every database, question, scope, set of  *)
(* documents and answers, and for all budgets and retries.                 *)
(***************************************************************************)
EXTENDS AgentProperties, SequenceTheorems, FiniteSetTheorems, TLAPS

-----------------------------------------------------------------------------
(* The plan is made of steps that the tools can run. *)

\* A set of positions can be listed in increasing order: the k-th is the one that has k
\* positions of the set up to it.
LEMMA InOrderLists ==
    ASSUME NEW L \in Nat, NEW K \in SUBSET (1 .. L)
    PROVE  /\ Cardinality(K) \in Nat
           /\ InOrder(K) \in [1 .. Cardinality(K) -> K]
           /\ \A j, k \in DOMAIN InOrder(K) : j < k => InOrder(K)[j] < InOrder(K)[k]
<1> DEFINE upto(n) == {m \in K : m <= n}
           rank == [n \in K |-> Cardinality(upto(n))]
           size == Cardinality(K)
<1>0. \A n \in K : n \in Int
  OBVIOUS
<1>1. IsFiniteSet(K) /\ size \in Nat
  <2>1. IsFiniteSet(1 .. L)
    BY FS_Interval
  <2>2. IsFiniteSet(K)
    BY <2>1, FS_Subset
  <2>3. QED
    BY <2>2, FS_CardinalityType
<1>2. \A n \in K : /\ upto(n) \in SUBSET K
                   /\ IsFiniteSet(upto(n))
                   /\ Cardinality(upto(n)) \in 1 .. size
  <2>1. SUFFICES ASSUME NEW n \in K
                 PROVE  /\ IsFiniteSet(upto(n))
                        /\ Cardinality(upto(n)) \in 1 .. size
    OBVIOUS
  <2>2. upto(n) \in SUBSET K /\ n \in upto(n)
    OBVIOUS
  <2> HIDE DEF upto, size
  <2>3. IsFiniteSet(upto(n)) /\ Cardinality(upto(n)) <= size
    BY <1>1, <2>2, FS_Subset DEF size
  <2>4. Cardinality(upto(n)) \in Nat /\ Cardinality(upto(n)) # 0
    BY <2>2, <2>3, FS_CardinalityType, FS_EmptySet
  <2>5. QED
    BY <1>1, <2>3, <2>4
<1>3. \A m, n \in K : m < n => rank[m] < rank[n]
  <2>1. SUFFICES ASSUME NEW m \in K, NEW n \in K, m < n
                 PROVE  Cardinality(upto(m)) < Cardinality(upto(n))
    OBVIOUS
  <2>1a. m \in Int /\ n \in Int
    BY <1>0
  <2>1b. \A x \in upto(m) : x \in upto(n)
    BY <1>0, <2>1, <2>1a
  <2>1c. n \in upto(n) /\ n \notin upto(m)
    BY <2>1, <2>1a
  <2> HIDE DEF upto
  <2>2. upto(m) \in SUBSET upto(n) /\ n \in upto(n) /\ n \notin upto(m)
    BY <2>1b, <2>1c
  <2>3. Cardinality(upto(m)) \in Nat /\ Cardinality(upto(n)) \in Nat
    BY <1>2, <1>1
  <2>4. IsFiniteSet(upto(n))
    BY <1>2
  <2>5. /\ Cardinality(upto(m)) <= Cardinality(upto(n))
        /\ Cardinality(upto(m)) # Cardinality(upto(n))
    BY <2>2, <2>4, FS_Subset
  <2>6. QED
    BY <2>3, <2>5
<1>4. rank \in Surjection(K, 1 .. size)
  <2>1. rank \in [K -> 1 .. size]
    BY <1>2
  <2>2. \A m, n \in K : rank[m] = rank[n] => m = n
    <3>1. \A m, n \in K : m < n \/ n < m \/ m = n
      OBVIOUS
    <3>2. \A n \in K : rank[n] \in Nat
      BY <1>1, <2>1
    <3> HIDE DEF rank
    <3>3. QED
      BY <1>3, <3>1, <3>2
  <2> HIDE DEF rank, size
  <2>3. rank \in Injection(K, 1 .. size)
    BY <2>1, <2>2 DEF Injection, IsInjective
  <2>4. IsFiniteSet(1 .. size) /\ Cardinality(1 .. size) = size
    BY <1>1, FS_Interval
  <2>5. QED
    BY <2>3, <2>4, FS_Injection DEF size
<1> DEFINE at == [k \in 1 .. size |-> CHOOSE n \in K : rank[n] = k]
<1>5. \A k \in 1 .. size : at[k] \in K /\ rank[at[k]] = k
  BY <1>4 DEF Surjection
<1>6. \A j, k \in 1 .. size : j < k => at[j] < at[k]
  <2>1. SUFFICES ASSUME NEW j \in 1 .. size, NEW k \in 1 .. size, j < k, ~(at[j] < at[k])
                 PROVE  FALSE
    OBVIOUS
  <2> HIDE DEF at, rank
  <2>2. at[j] \in Int /\ at[k] \in Int
    BY <1>0, <1>5
  <2>3. at[k] = at[j] \/ at[k] < at[j]
    BY <2>1, <2>2
  <2>4. rank[at[k]] <= rank[at[j]]
    <3>1. at[j] \in K /\ at[k] \in K /\ rank[at[j]] = j /\ rank[at[k]] = k
      BY <1>5
    <3>2. CASE at[k] = at[j]
      BY <1>1, <3>1, <3>2
    <3>3. CASE at[k] < at[j]
      <4>1. rank[at[k]] < rank[at[j]]
        BY <1>3, <3>1, <3>3
      <4>2. QED
        BY <1>1, <3>1, <4>1
    <3>4. QED
      BY <2>3, <3>2, <3>3
  <2>5. QED
    BY <1>1, <1>5, <2>1, <2>4
<1>7. at \in [1 .. size -> K]
  BY <1>5
<1> HIDE DEF at, rank, upto
<1>8. \E s \in [1 .. size -> K] : \A j, k \in DOMAIN s : j < k => s[j] < s[k]
  <2>1. DOMAIN at = 1 .. size
    BY <1>7
  <2>2. QED
    BY <1>6, <1>7, <2>1
<1>9. QED
  BY <1>1, <1>8, Zenon DEF InOrder

LEMMA MentionedType ==
    ASSUME NEW q \in Question, NEW db, NEW sc, NEW table
    PROVE  Mentioned(q, db, sc, table) \in Seq(Ids \cap table)
<1> DEFINE K == {n \in DOMAIN q.ids : q.ids[n] \in table /\ Resolves(q.ids[n], db, sc)}
           found == InOrder(K)
<1>1. q.ids \in Seq(Ids)
  BY DEF Question
<1>2. Len(q.ids) \in Nat /\ K \in SUBSET (1 .. Len(q.ids))
  BY <1>1
<1>3. \A n \in K : q.ids[n] \in Ids \cap table
  BY <1>1
<1>4. Mentioned(q, db, sc, table) = [k \in DOMAIN found |-> q.ids[found[k]]]
  BY DEF Mentioned
<1> HIDE DEF K
<1>5. Cardinality(K) \in Nat /\ found \in [1 .. Cardinality(K) -> K]
  BY <1>2, InOrderLists
<1> HIDE DEF found
<1>6. Mentioned(q, db, sc, table) \in [1 .. Cardinality(K) -> Ids \cap table]
  BY <1>3, <1>4, <1>5
<1>7. QED
  BY <1>5, <1>6

\* The ids that were understood.
Entities ==
    [orders: Seq(Orders), tickets: Seq(TicketIds), accounts: Seq(Accounts), ambiguous: BOOLEAN]

LEMMA EntitiesType ==
    ASSUME NEW q \in Question, NEW db, NEW sc
    PROVE  resolve_entities(q, db, sc) \in Entities
<1> DEFINE explicit == \E i \in Ids : Resolves(i, db, sc) /\ \E n \in DOMAIN q.ids : q.ids[n] = i
           named == IF explicit THEN {} ELSE match_account_names(q, db, sc)
           accounts == IF Cardinality(named) = 1 THEN <<CHOOSE a \in named : TRUE>>
                       ELSE Mentioned(q, db, sc, Accounts)
<1>1. /\ Mentioned(q, db, sc, Orders) \in Seq(Orders)
      /\ Mentioned(q, db, sc, TicketIds) \in Seq(TicketIds)
      /\ Mentioned(q, db, sc, Accounts) \in Seq(Accounts)
  <2>1. \A table : table \subseteq Ids => Ids \cap table = table
    OBVIOUS
  <2>2. Orders \subseteq Ids /\ TicketIds \subseteq Ids /\ Accounts \subseteq Ids
    BY DEF Ids
  <2>3. QED
    BY <2>1, <2>2, MentionedType
<1>2. named \subseteq Accounts
  BY DEF match_account_names, Question
<1>3. resolve_entities(q, db, sc) =
         [orders |-> Mentioned(q, db, sc, Orders), tickets |-> Mentioned(q, db, sc, TicketIds),
          accounts |-> accounts, ambiguous |-> Cardinality(named) > 1]
  BY DEF resolve_entities
<1> HIDE DEF named
<1>4. accounts \in Seq(Accounts)
  <2>1. CASE Cardinality(named) = 1
    <3>1. named # {}
      BY <2>1, FS_EmptySet
    <3>2. (CHOOSE a \in named : TRUE) \in Accounts
      BY <1>2, <3>1
    <3>3. QED
      BY <2>1, <3>2
  <2>2. CASE Cardinality(named) # 1
    BY <1>1, <2>2
  <2>3. QED
    BY <2>1, <2>2
<1> HIDE DEF accounts
<1>5. (Cardinality(named) > 1) \in BOOLEAN
  OBVIOUS
<1>6. QED
  BY <1>1, <1>3, <1>4, <1>5 DEF Entities

\* A step that its tool can run: a search, a lookup of a record, or one of the four
\* calculations for a record.
Runnable ==
    {s \in PlanStep :
        \/ s = Search
        \/ s.tool = "lookup_structured_data" /\ s.entity \in Ids
        \/ s.tool = "calculate_support_outcome" /\ s.entity \in Ids /\ s.calc \in Calculations}

LEMMA StepsRunnable ==
    /\ Search \in Runnable
    /\ \A i \in Ids : Lookup(i) \in Runnable
    /\ \A i \in Ids, kind \in Calculations : Calculate(kind, i) \in Runnable
BY DEF Runnable, PlanStep, Search, Lookup, Calculate, Tools

LEMMA AlternateType ==
    ASSUME NEW S, NEW s \in Seq(S), NEW t \in Seq(S), Len(s) = Len(t)
    PROVE  Alternate(s, t) \in Seq(S)
<1> DEFINE L == Len(s)
<1>1. L \in Nat /\ DOMAIN s = 1 .. L /\ DOMAIN t = 1 .. L
  OBVIOUS
<1>2. ASSUME NEW n \in 1 .. 2 * L
      PROVE  (IF n % 2 = 1 THEN s[(n + 1) \div 2] ELSE t[n \div 2]) \in S
  <2>1. CASE n % 2 = 1
    <3>1. (n + 1) \div 2 \in 1 .. L
      BY <1>1, <2>1
    <3>2. QED
      BY <2>1, <3>1
  <2>2. CASE n % 2 # 1
    <3>1. n \div 2 \in 1 .. L
      BY <1>1, <2>2
    <3>2. QED
      BY <2>2, <3>1
  <2>3. QED
    BY <2>1, <2>2
<1>3. Alternate(s, t) \in [1 .. 2 * L -> S]
  BY <1>2 DEF Alternate
<1>4. QED
  BY <1>1, <1>3

LEMMA StepsType ==
    ASSUME NEW ids \in Seq(Ids), NEW kind \in Calculations
    PROVE  /\ Lookups(ids) \in Seq(Runnable) /\ Len(Lookups(ids)) = Len(ids)
           /\ Calculates(kind, ids) \in Seq(Runnable) /\ Len(Calculates(kind, ids)) = Len(ids)
           /\ LookupAndCalculate(kind, ids) \in Seq(Runnable)
<1>1. \A n \in 1 .. Len(ids) : ids[n] \in Ids
  OBVIOUS
<1>2. Lookups(ids) \in Seq(Runnable) /\ Len(Lookups(ids)) = Len(ids)
  BY <1>1, StepsRunnable DEF Lookups
<1>3. Calculates(kind, ids) \in Seq(Runnable) /\ Len(Calculates(kind, ids)) = Len(ids)
  BY <1>1, StepsRunnable DEF Calculates
<1>4. LookupAndCalculate(kind, ids) \in Seq(Runnable)
  BY <1>2, <1>3, AlternateType DEF LookupAndCalculate
<1>5. QED
  BY <1>2, <1>3, <1>4

\* Whatever the intent, the plan has runnable steps only.
LEMMA PlanType ==
    ASSUME NEW intent, NEW e \in Entities
    PROVE  build_plan(intent, e) \in Seq(Runnable)
<1>1. /\ e.orders \in Seq(Ids)
      /\ e.tickets \in Seq(Ids)
      /\ e.accounts \in Seq(Ids)
  BY DEF Entities, Ids
<1>2. <<Search>> \in Seq(Runnable)
  BY StepsRunnable
<1>3. /\ Lookups(e.orders) \in Seq(Runnable)
      /\ Lookups(e.tickets) \in Seq(Runnable)
      /\ Lookups(e.accounts) \in Seq(Runnable)
  BY <1>1, StepsType DEF Calculations
<1>4. Calculates("sla", e.tickets) \in Seq(Runnable)
  BY <1>1, StepsType DEF Calculations
<1>5. Alternate(Calculates("cancellation", e.orders), Calculates("service_credit", e.orders))
        \in Seq(Runnable)
  <2>1. /\ Calculates("cancellation", e.orders) \in Seq(Runnable)
        /\ Calculates("service_credit", e.orders) \in Seq(Runnable)
        /\ Len(Calculates("cancellation", e.orders)) = Len(Calculates("service_credit", e.orders))
    BY <1>1, StepsType DEF Calculations
  <2>2. QED
    BY <2>1, AlternateType
<1>6. \A kind \in Calculations :
         /\ LookupAndCalculate(kind, e.orders) \in Seq(Runnable)
         /\ LookupAndCalculate(kind, e.tickets) \in Seq(Runnable)
  BY <1>1, StepsType
<1> HIDE DEF Runnable
<1>7. \A s, t \in Seq(Runnable) : s \o t \in Seq(Runnable)
  BY ConcatProperties
<1>8. CASE intent \in {"cancellation", "service_credit"}
  BY <1>2, <1>6, <1>7, <1>8 DEF build_plan, Calculations
<1>9. CASE intent \in {"sla", "severity"}
  BY <1>2, <1>6, <1>7, <1>9 DEF build_plan, Calculations
<1>10. CASE intent \in {"known_issue", "informational"}
  BY <1>2, <1>10 DEF build_plan
<1>11. CASE intent = "order_investigation"
  BY <1>2, <1>3, <1>7, <1>11 DEF build_plan
<1>12. CASE intent = "ticket_investigation"
  BY <1>2, <1>3, <1>7, <1>12 DEF build_plan
<1>13. CASE intent = "account_investigation"
  BY <1>2, <1>3, <1>7, <1>13 DEF build_plan
<1>14. CASE intent = "multi_source"
  <2>1. build_plan(intent, e) =
           Lookups(e.orders) \o Lookups(e.tickets) \o <<Search>>
             \o Alternate(Calculates("cancellation", e.orders),
                          Calculates("service_credit", e.orders))
             \o Calculates("sla", e.tickets)
    BY <1>14 DEF build_plan
  <2>2. QED
    BY <1>2, <1>3, <1>4, <1>5, <1>7, <2>1
<1>15. CASE intent \notin {"cancellation", "service_credit", "sla", "severity", "known_issue",
                          "informational", "order_investigation", "ticket_investigation",
                          "account_investigation", "multi_source"}
  <2>1. build_plan(intent, e) = <<>>
    BY <1>15 DEF build_plan
  <2>2. QED
    BY <2>1
<1>16. QED
  BY <1>8, <1>9, <1>10, <1>11, <1>12, <1>13, <1>14, <1>15

-----------------------------------------------------------------------------
(* What a caller may not see does not show. *)

\* A token resolves in the database exactly when it does so in what the caller may see of it.
LEMMA MaskedResolves ==
    ASSUME NEW i \in Ids, owner \in Owners
    PROVE  Resolves(i, Masked, scope) <=> Resolves(i, owner, scope)
<1>1. Masked[i] = IF LookupError(i, owner, scope) = "none" THEN owner[i] ELSE Absent
  BY DEF Masked
<1>2. CASE LookupError(i, owner, scope) = "none"
  BY <1>1, <1>2 DEF Resolves, LookupError
<1>3. CASE LookupError(i, owner, scope) # "none"
  BY <1>1, <1>3 DEF Resolves, LookupError
<1>4. QED
  BY <1>2, <1>3

LEMMA MaskedMentions ==
    ASSUME owner \in Owners, NEW q \in Question, NEW table
    PROVE  Mentioned(q, Masked, scope, table) = Mentioned(q, owner, scope, table)
<1>1. \A n \in DOMAIN q.ids : q.ids[n] \in Ids
  BY DEF Question
<1>2. {n \in DOMAIN q.ids : q.ids[n] \in table /\ Resolves(q.ids[n], Masked, scope)}
        = {n \in DOMAIN q.ids : q.ids[n] \in table /\ Resolves(q.ids[n], owner, scope)}
  BY <1>1, MaskedResolves
<1>3. QED
  BY <1>2, Zenon DEF Mentioned

LEMMA MaskedNames ==
    ASSUME owner \in Owners, NEW q \in Question
    PROVE  match_account_names(q, Masked, scope) = match_account_names(q, owner, scope)
<1>1. q.names \subseteq Accounts /\ Accounts \subseteq Ids
  BY DEF Question, Ids
<1>2. \A a \in Accounts : allows_account(scope, a) =>
         (LookupError(a, owner, scope) = "none" <=> owner[a] # Absent)
  BY DEF LookupError
<1>3. \A a \in Accounts : allows_account(scope, a) => (Masked[a] # Absent <=> owner[a] # Absent)
  BY <1>1, <1>2 DEF Masked
<1>4. QED
  BY <1>1, <1>3 DEF match_account_names

LEMMA MaskedEntities ==
    ASSUME owner \in Owners, NEW q \in Question
    PROVE  resolve_entities(q, Masked, scope) = resolve_entities(q, owner, scope)
<1>1. (\E i \in Ids : Resolves(i, Masked, scope) /\ \E n \in DOMAIN q.ids : q.ids[n] = i)
        <=> \E i \in Ids : Resolves(i, owner, scope) /\ \E n \in DOMAIN q.ids : q.ids[n] = i
  BY MaskedResolves
<1> DEFINE named(db) ==
              IF \E i \in Ids : Resolves(i, db, scope) /\ \E n \in DOMAIN q.ids : q.ids[n] = i
              THEN {} ELSE match_account_names(q, db, scope)
<1>2. named(Masked) = named(owner)
  BY <1>1, MaskedNames
<1>3. \A db : resolve_entities(q, db, scope) =
         [orders |-> Mentioned(q, db, scope, Orders),
          tickets |-> Mentioned(q, db, scope, TicketIds),
          accounts |-> IF Cardinality(named(db)) = 1 THEN <<CHOOSE a \in named(db) : TRUE>>
                       ELSE Mentioned(q, db, scope, Accounts),
          ambiguous |-> Cardinality(named(db)) > 1]
  BY DEF resolve_entities
<1> HIDE DEF named
<1>4. \A table : Mentioned(q, Masked, scope, table) = Mentioned(q, owner, scope, table)
  BY MaskedMentions
<1>5. QED
  BY <1>2, <1>3, <1>4, Zenon

-----------------------------------------------------------------------------
(* What is collected *)

\* A failed tool contributes nothing; a calculation that succeeds comes with a finding and
\* with evidence, and documents come with their citations.
Collected ==
    {r \in ToolResult :
        /\ r.step \in Runnable
        /\ r.error # "none" => r.finding = NoFinding /\ r.docs = {} /\ r.refs = {}
        /\ r.error = "none" /\ r.step.tool = "calculate_support_outcome" =>
              r.finding \in Finding /\ r.refs # {}
        /\ r.docs # {} => r.refs # {}}

\* The budgets, and what they are kept with at each point of the request.
Budgets ==
    /\ Len(plan) <= MAX_TOOL_CALLS
    /\ Len(results) <= Len(plan)
    /\ pc = "received" => results = <<>>
    /\ pc = "attempt" =>
          /\ Len(results) < Len(plan)
          /\ iterations < MAX_ITERATIONS
          /\ attempt \in 1 .. MaxAttempts(Step.tool)
          /\ attempt = 1 => started <= MAX_WALL_CLOCK
    /\ iterations <= MAX_ITERATIONS + (IF Retryable = {} THEN 0 ELSE MAX_RETRIES)
    /\ pc \in {"received", "tools", "attempt", "evidence", "compose"} => llm_calls = 0
    /\ pc = "compose" => MAX_LLM_CALLS >= 1
    /\ pc = "repair" => llm_calls = 1 /\ MAX_LLM_CALLS >= 2
    /\ llm_calls <= MAX_LLM_CALLS

\* An answer carries the whole pack, which is not empty, and markers that were validated
\* against it.
Answer(markers, count) ==
    /\ result = WithPack(IF trust_state(results) = "ESCALATE" THEN "escalated" ELSE "completed",
                         markers, count)
    /\ validate_citations(markers, pack_refs(results))
    /\ Grounded(results, TRUE)

\* What the result shows, and what the request holds that is not shown yet.
Shown ==
    /\ pc # "done" =>
          /\ result = NoResult
          /\ \A n \in DOMAIN results : results[n].error # "not_authorized"
    /\ pc \in {"compose", "repair"} => Grounded(results, TRUE)
    /\ RefusalShowsNothing
    /\ answered => \E markers \in Answers, count \in {1, 2} : Answer(markers, count)
    /\ ~answered => result.answer = NoAnswer

LEMMA LookupErrors ==
    ASSUME NEW i, NEW db, NEW sc
    PROVE  LookupError(i, db, sc) \in {"none", "not_found", "not_authorized"}
BY DEF LookupError

LEMMA ToolErrors == ASSUME NEW step PROVE ToolError(step) \in {"none", "not_found", "not_authorized"}
BY LookupErrors DEF ToolError

\* Every calculation decides something: a trust state, and a review or not.
LEMMA DecisionsType ==
    ASSUME NEW kind \in Calculations
    PROVE  Decisions[kind] \subseteq Finding
<1>1. evaluate_cancellation \subseteq Finding
  BY DEF evaluate_cancellation, Decided, Finding, TrustStates
<1>2. evaluate_service_credit \subseteq Finding
  BY DEF evaluate_service_credit, Decided, Finding, TrustStates
<1>3. calculate_sla \subseteq Finding
  BY DEF calculate_sla, Decided, Finding, TrustStates
<1>4. classify_severity \subseteq Finding
  BY DEF classify_severity, Decided, Finding, TrustStates
<1>5. QED
  BY <1>1, <1>2, <1>3, <1>4 DEF Decisions, Calculations

\* A decision cites records and documents, and at least one of them.
LEMMA DecisionRefsType ==
    ASSUME NEW step \in Runnable, step.entity \in Ids, NEW refs \in DecisionRefs(step)
    PROVE  refs \subseteq Refs /\ refs # {}
<1>1. CASE step.calc = "severity"
  BY <1>1 DEF DecisionRefs, Refs
<1>2. CASE step.calc # "severity"
  <2>1. PICK ds \in SUBSET Docs : refs = {RecordRef(step.entity)} \cup {DocRef(d) : d \in ds}
    BY <1>2 DEF DecisionRefs, Governing
  <2>2. QED
    BY <2>1 DEF Refs
<1>3. QED
  BY <1>1, <1>2

\* What a tool returns when it succeeds.
LEMMA OutputsType ==
    ASSUME NEW step \in Runnable, NEW n \in Nat, NEW r \in Outputs(step, n)
    PROVE  r \in Collected /\ r.step = step /\ r.attempts = n
<1> DEFINE Ok(finding, docs, refs) ==
              [step |-> step, error |-> "none", attempts |-> n, finding |-> finding,
               docs |-> docs, refs |-> refs]
<1>1. step \in PlanStep
  BY DEF Runnable
<1>2. ASSUME NEW finding \in Finding \cup {NoFinding}, NEW docs \in SUBSET Docs,
             NEW refs \in SUBSET Refs,
             step.tool = "calculate_support_outcome" => finding \in Finding /\ refs # {},
             docs # {} => refs # {}
      PROVE  Ok(finding, docs, refs) \in Collected
  BY <1>1, <1>2 DEF Collected, ToolResult
<1>3. CASE step.tool = "lookup_structured_data"
  <2>1. r = Ok(NoFinding, {}, {RecordRef(step.entity)})
    BY <1>3 DEF Outputs
  <2>2. RecordRef(step.entity) \in Refs
    BY <1>3 DEF Runnable, Refs, Search
  <2>3. QED
    BY <1>2, <1>3, <2>1, <2>2
<1>4. CASE step.tool = "search_documents"
  <2>1. PICK ds \in SUBSET Docs : r = Ok(NoFinding, ds, {DocRef(d) : d \in ds})
    BY <1>4 DEF Outputs, Searchable
  <2>2. {DocRef(d) : d \in ds} \subseteq Refs /\ (ds # {} => {DocRef(d) : d \in ds} # {})
    BY DEF Refs
  <2>3. QED
    BY <1>2, <1>4, <2>1, <2>2
<1>5. CASE step.tool \notin {"lookup_structured_data", "search_documents"}
  <2>1. PICK f \in Decisions[step.calc], refs \in DecisionRefs(step) : r = Ok(f, {}, refs)
    BY <1>5 DEF Outputs
  <2>2. step.calc \in Calculations /\ step.entity \in Ids
    BY <1>5 DEF Runnable, Search
  <2>3. f \in Finding /\ refs \subseteq Refs /\ refs # {}
    BY <2>2, DecisionsType, DecisionRefsType
  <2>4. QED
    BY <1>2, <2>1, <2>3
<1>6. QED
  BY <1>3, <1>4, <1>5

\* What a tool returns, whether it succeeds, fails or comes too late.
LEMMA FinishedType ==
    ASSUME NEW step \in Runnable, NEW n \in Nat, NEW r \in Finished(step, n)
    PROVE  r \in Collected /\ r.step = step /\ r.attempts = n
<1>1. ASSUME NEW error \in Errors
      PROVE  /\ Fail(step, error, n) \in Collected
             /\ Fail(step, error, n).step = step
             /\ Fail(step, error, n).attempts = n
  BY <1>1 DEF Fail, Collected, ToolResult, Runnable, Errors
<1>2. Raised(step) \subseteq Errors
  BY ToolErrors DEF Raised, Errors
<1>3. \/ \E error \in Errors : r = Fail(step, error, n)
      \/ r \in Outputs(step, n)
  BY <1>2 DEF Finished, Errors
<1>4. QED
  BY <1>1, <1>3, OutputsType

-----------------------------------------------------------------------------
(* The trust state of what was collected *)

\* Of some trust states one is the worst.
LEMMA WorstExists ==
    ASSUME NEW trusts \in SUBSET TrustStates, trusts # {}
    PROVE  \E t \in trusts : \A u \in trusts : Rank[u] <= Rank[t]
<1>1. CASE "ESCALATE" \in trusts
  BY <1>1 DEF TrustStates, Rank
<1>2. CASE "ESCALATE" \notin trusts /\ "UNCERTAIN" \in trusts
  BY <1>2 DEF TrustStates, Rank
<1>3. CASE trusts \subseteq {"CONFIDENT", "CONDITIONAL"} /\ "CONDITIONAL" \in trusts
  BY <1>3 DEF TrustStates, Rank
<1>4. CASE trusts = {"CONFIDENT"}
  BY <1>4 DEF TrustStates, Rank
<1>5. QED
  BY <1>1, <1>2, <1>3, <1>4 DEF TrustStates

LEMMA TrustOfPack ==
    ASSUME NEW rs \in Seq(Collected)
    PROVE  /\ trust_state(rs) \in TrustStates
           /\ \A n \in Calculated(rs) : Rank[rs[n].finding.trust] <= Rank[trust_state(rs)]
           /\ Calculated(rs) = {} => trust_state(rs) # "CONFIDENT"
           /\ trust_state(rs) = "ESCALATE"
                <=> \E n \in Calculated(rs) : rs[n].finding.trust = "ESCALATE"
<1> DEFINE trusts == pack_trusts(rs)
<1>1. \A n \in Calculated(rs) : rs[n].finding.trust \in TrustStates
  BY DEF Calculated, Collected, Finding
<1>2. trusts \in SUBSET TrustStates /\ \A n \in Calculated(rs) : rs[n].finding.trust \in trusts
  BY <1>1 DEF pack_trusts
<1>3. \A t \in trusts : \E n \in Calculated(rs) : t = rs[n].finding.trust
  BY DEF pack_trusts
<1>4. trust_state(rs) = enforce_trust_gate(trusts, pack_docs(rs) # {})
  BY DEF trust_state
<1> HIDE DEF trusts
<1>5. CASE trusts = {}
  <2>1. Calculated(rs) = {} /\ trust_state(rs) \in {"CONDITIONAL", "UNCERTAIN"}
    BY <1>2, <1>4, <1>5 DEF enforce_trust_gate
  <2>2. QED
    BY <2>1 DEF TrustStates
<1>6. CASE trusts # {}
  <2>1. trust_state(rs) = CHOOSE t \in trusts : \A u \in trusts : Rank[u] <= Rank[t]
    BY <1>4, <1>6 DEF enforce_trust_gate
  <2>2. trust_state(rs) \in trusts /\ \A u \in trusts : Rank[u] <= Rank[trust_state(rs)]
    BY <1>2, <1>6, <2>1, WorstExists
  <2>3. trust_state(rs) \in TrustStates /\ Calculated(rs) # {}
    BY <1>2, <1>3, <1>6, <2>2
  <2>4. "ESCALATE" \in trusts => trust_state(rs) = "ESCALATE"
    BY <2>2, <2>3 DEF TrustStates, Rank
  <2>5. QED
    BY <1>2, <1>3, <2>2, <2>3, <2>4
<1>7. QED
  BY <1>5, <1>6

LEMMA PackType ==
    ASSUME NEW rs \in Seq(Collected)
    PROVE  /\ pack_refs(rs) \subseteq Refs
           /\ pack_docs(rs) \subseteq Docs
           /\ pack_review(rs) \in BOOLEAN
           /\ Grounded(rs, TRUE) => pack_refs(rs) # {}
           /\ \A ref \in pack_refs(rs) :
                 \E n \in DOMAIN rs : rs[n].error = "none" /\ ref \in rs[n].refs
<1>1. \A n \in DOMAIN rs :
         /\ rs[n].refs \subseteq Refs
         /\ rs[n].docs \subseteq Docs
         /\ rs[n].error # "none" => rs[n].refs = {}
         /\ rs[n].docs # {} => rs[n].refs # {}
         /\ n \in Calculated(rs) => rs[n].refs # {}
  BY DEF Collected, ToolResult, Calculated
<1>2. Calculated(rs) \subseteq DOMAIN rs
  BY DEF Calculated
<1>3. pack_refs(rs) \subseteq Refs /\ pack_docs(rs) \subseteq Docs
  BY <1>1 DEF pack_refs, pack_docs
<1>4. Grounded(rs, TRUE) => pack_refs(rs) # {}
  <2>1. SUFFICES ASSUME Grounded(rs, TRUE) PROVE \E n \in DOMAIN rs : rs[n].refs # {}
    BY DEF pack_refs
  <2>2. CASE pack_results(rs)
    BY <1>1, <1>2, <2>2 DEF pack_results
  <2>3. CASE pack_docs(rs) # {}
    BY <1>1, <2>3 DEF pack_docs
  <2>4. QED
    BY <2>1, <2>2, <2>3 DEF Grounded
<1>5. pack_review(rs) \in BOOLEAN
  BY DEF pack_review
<1>6. \A ref \in pack_refs(rs) :
         \E n \in DOMAIN rs : rs[n].error = "none" /\ ref \in rs[n].refs
  BY <1>1 DEF pack_refs
<1>7. QED
  BY <1>3, <1>4, <1>5, <1>6

-----------------------------------------------------------------------------
(* Types *)

Typing ==
    /\ TypeOK
    /\ plan \in Seq(Runnable)
    /\ results \in Seq(Collected)

LEMMA RunnableIsStep == Runnable \subseteq PlanStep /\ Collected \subseteq ToolResult
BY DEF Runnable, Collected

LEMMA SeqMonotone ==
    ASSUME NEW S, NEW T, S \subseteq T, NEW s \in Seq(S)
    PROVE  s \in Seq(T)
OBVIOUS

Ended == pc' = "done" /\ result' \in AgentRunResult

LEMMA NoResultType == NoResult \in AgentRunResult
BY DEF NoResult, AgentRunResult

LEMMA TerminalType ==
    ASSUME NEW status \in Statuses \cup {"http_500"}, NEW n \in Nat, Terminal(status, n)
    PROVE  Ended
<1>1. [NoResult EXCEPT !.status = status, !.tool_calls = n] \in AgentRunResult
  BY DEF NoResult, AgentRunResult
<1>2. QED
  BY <1>1, Zenon DEF Terminal, Return, Ended

LEMMA FailedType ==
    ASSUME NEW trust \in TrustStates, NEW n \in Nat,
           Return([NoResult EXCEPT !.status = "failed", !.trust = trust, !.tool_calls = n])
    PROVE  Ended
<1>1. [NoResult EXCEPT !.status = "failed", !.trust = trust, !.tool_calls = n] \in AgentRunResult
  BY DEF NoResult, AgentRunResult, Statuses
<1>2. QED
  BY <1>1, Zenon DEF Return, Ended

LEMMA WithPackType ==
    ASSUME results \in Seq(Collected), NEW status \in Statuses,
           NEW answer \in Answers \cup {NoAnswer}, NEW count \in Nat
    PROVE  WithPack(status, answer, count) \in AgentRunResult
<1>1. trust_state(results) \in TrustStates
  BY TrustOfPack
<1>2. pack_review(results) \in BOOLEAN /\ pack_refs(results) \in SUBSET Refs
  BY PackType
<1>3. Len(results) \in Nat
  BY LenProperties
<1>4. QED
  BY <1>1, <1>2, <1>3 DEF WithPack, AgentRunResult

LEMMA AnsweredType ==
    ASSUME results \in Seq(Collected), NEW answer \in Answers, NEW count \in Nat,
           Answered(answer, count)
    PROVE  Ended
<1>1. /\ WithPack("escalated", answer, count) \in AgentRunResult
      /\ WithPack("completed", answer, count) \in AgentRunResult
  BY WithPackType DEF Statuses
<1>2. QED
  BY <1>1 DEF Answered, Return, Ended

LEMMA PlanOfQuestion ==
    ASSUME NEW q \in Question, NEW db, NEW sc
    PROVE  LET e == resolve_entities(q, db, sc)
           IN  build_plan(resolve_intent(q, e), e) \in Seq(Runnable)
BY EntitiesType, PlanType

LEMMA StepIsRunnable ==
    ASSUME Typing, Len(results) < Len(plan)
    PROVE  Step \in Runnable
BY DEF Typing, Step

LEMMA InitTyping == Init => Typing
BY AgentConstants, NoResultType DEF Init, Typing, TypeOK, ControlPoints

LEMMA UnderstandTyping == Typing /\ Understand => Typing'
<1> SUFFICES ASSUME Typing, Understand PROVE Typing'
  OBVIOUS
<1> DEFINE e == resolve_entities(question, owner, scope)
           p == build_plan(resolve_intent(question, e), e)
           exit == PlanningExit(question, e, p, scope)
<1>1. question \in Question
  BY AgentConstants DEF Typing, TypeOK
<1>2. p \in Seq(Runnable)
  BY <1>1, PlanOfQuestion
<1>3. exit # "none" => exit \in Statuses
  BY DEF PlanningExit, Statuses
<1>4. plan' \in {plan, p}
  BY DEF Understand
<1>5. plan' \in Seq(Runnable) /\ plan' \in Seq(PlanStep)
  BY <1>2, <1>4, RunnableIsStep, SeqMonotone DEF Typing, TypeOK
<1>6. /\ \/ exit # "none" /\ Terminal(exit, 0)
         \/ Terminal("http_500", 0)
         \/ pc' = "tools" /\ UNCHANGED result
      /\ UNCHANGED <<envVars, inputVars, results, iterations, attempt, started, draft, llm_calls>>
  BY DEF Understand
<1> HIDE DEF exit, p, e
<1>7. pc' \in ControlPoints /\ result' \in AgentRunResult
  <2>1. CASE \E status \in Statuses \cup {"http_500"} : Terminal(status, 0)
    BY <2>1, TerminalType DEF Ended, ControlPoints
  <2>2. CASE pc' = "tools" /\ UNCHANGED result
    BY <2>2 DEF Typing, TypeOK, ControlPoints
  <2>3. QED
    BY <1>3, <1>6, <2>1, <2>2
<1>8. QED
  BY <1>5, <1>6, <1>7 DEF Typing, TypeOK, envVars, inputVars

LEMMA ToolTyping ==
    ASSUME Typing, pc = "attempt" => Len(results) < Len(plan), execute_tool
    PROVE  Typing'
<1>1. pc = "attempt" /\ Step \in Runnable /\ attempt \in Nat
  BY StepIsRunnable DEF execute_tool, Typing, TypeOK
<1>2. PICK r \in Finished(Step, attempt) :
         \/ /\ attempt' = attempt + 1
            /\ started' = elapsed
            /\ UNCHANGED <<results, iterations, pc, result>>
         \/ /\ Collect(r)
            /\ UNCHANGED <<attempt, started>>
  BY DEF execute_tool
<1>3. r \in Collected /\ r.attempts = attempt
  BY <1>1, <1>2, FinishedType
<1>4. UNCHANGED <<envVars, inputVars, plan, draft, llm_calls>>
  BY DEF execute_tool
<1>5. CASE /\ attempt' = attempt + 1
           /\ started' = elapsed
           /\ UNCHANGED <<results, iterations, pc, result>>
  BY <1>1, <1>4, <1>5 DEF Typing, TypeOK, envVars, inputVars
<1>6. CASE Collect(r) /\ UNCHANGED <<attempt, started>>
  <2>1. iterations' \in Nat
    BY <1>1, <1>3, <1>6 DEF Collect, Typing, TypeOK
  <2>2. results' \in Seq(Collected) /\ results' \in Seq(ToolResult)
    <3>1. results' = Append(results, r) /\ results \in Seq(Collected)
      BY <1>6 DEF Collect, Typing
    <3>2. results' \in Seq(Collected)
      BY <1>3, <3>1, AppendProperties
    <3>3. QED
      BY <3>2, RunnableIsStep, SeqMonotone
  <2>3. pc' \in ControlPoints /\ result' \in AgentRunResult
    <3>1. Len(results) + 1 \in Nat /\ "failed" \in Statuses
      BY LenProperties DEF Typing, Statuses
    <3>2. CASE Terminal("failed", Len(results) + 1)
      BY <3>1, <3>2, TerminalType DEF Ended, ControlPoints
    <3>3. CASE pc' = "tools" /\ UNCHANGED result
      BY <3>3 DEF Typing, TypeOK, ControlPoints
    <3>4. QED
      BY <1>6, <3>2, <3>3 DEF Collect
  <2>4. QED
    BY <1>4, <1>6, <2>1, <2>2, <2>3 DEF Typing, TypeOK, envVars, inputVars
<1>7. QED
  BY <1>2, <1>5, <1>6

\* Steps that only return a result or move on.
LEMMA ReturnTyping ==
    ASSUME Typing,
           pc' \in ControlPoints, result' \in AgentRunResult,
           attempt' \in Nat, started' \in Nat, draft' \in Answers \cup {NoAnswer},
           llm_calls' \in Nat,
           UNCHANGED <<envVars, inputVars, plan, results, iterations>>
    PROVE  Typing'
BY DEF Typing, TypeOK, envVars, inputVars

LEMMA TypingStep ==
    ASSUME Typing, pc = "attempt" => Len(results) < Len(plan), [Next]_vars
    PROVE  Typing'
<1> USE DEF ControlPoints, Statuses
<1>0. /\ Len(results) \in Nat
      /\ trust_state(results) \in TrustStates
      /\ elapsed \in Nat /\ attempt \in Nat /\ started \in Nat /\ llm_calls \in Nat
      /\ pc \in ControlPoints /\ result \in AgentRunResult /\ draft \in Answers \cup {NoAnswer}
      /\ results \in Seq(Collected)
  BY TrustOfPack DEF Typing, TypeOK
<1>1. CASE Understand
  BY <1>1, UnderstandTyping
<1>2. CASE StartTool
  <2>1. \/ Terminal("failed", Len(results)) /\ UNCHANGED <<attempt, started>>
        \/ pc' = "attempt" /\ attempt' = 1 /\ started' = elapsed /\ UNCHANGED result
    BY <1>2 DEF StartTool
  <2>2. Terminal("failed", Len(results)) => Ended
    BY <1>0, TerminalType
  <2>3. UNCHANGED <<envVars, inputVars, plan, results, iterations, draft, llm_calls>>
    BY <1>2 DEF StartTool
  <2>4. QED
    BY <1>0, <2>1, <2>2, <2>3, ReturnTyping DEF Ended
<1>3. CASE LoopEnds
  BY <1>0, <1>3, ReturnTyping DEF LoopEnds, toolVars
<1>4. CASE execute_tool
  BY <1>4, ToolTyping
<1>5. CASE Gates
  <2>1. \/ Terminal("insufficient_evidence", Len(results))
        \/ Return([NoResult EXCEPT !.status = "failed", !.trust = trust_state(results),
                                   !.tool_calls = Len(results)])
        \/ pc' = "compose" /\ UNCHANGED result
    BY <1>5 DEF Gates
  <2>2. \/ Ended
        \/ pc' = "compose" /\ UNCHANGED result
    BY <1>0, <2>1, TerminalType, FailedType, Zenon
  <2>3. UNCHANGED <<envVars, inputVars, toolVars, draft, llm_calls>>
    BY <1>5 DEF Gates
  <2>4. QED
    BY <1>0, <2>2, <2>3, ReturnTyping DEF Ended, toolVars
<1>6. CASE ComposeFails
  <2>1. Ended
    BY <1>0, <1>6, FailedType, Zenon DEF ComposeFails
  <2>2. llm_calls' = llm_calls + 1 /\ UNCHANGED <<envVars, inputVars, toolVars, draft>>
    BY <1>6 DEF ComposeFails
  <2>3. QED
    BY <1>0, <2>1, <2>2, ReturnTyping DEF Ended, toolVars
<1>7. CASE compose_response
  <2>1. PICK markers \in Answers :
           \/ Answered(markers, 1) /\ UNCHANGED draft
           \/ Return(WithPack("evidence_validation_failed", NoAnswer, 1)) /\ UNCHANGED draft
           \/ pc' = "repair" /\ draft' = markers /\ UNCHANGED result
    BY <1>7 DEF compose_response
  <2>2. Answered(markers, 1) => Ended
    BY <1>0, AnsweredType
  <2>3. Return(WithPack("evidence_validation_failed", NoAnswer, 1)) => Ended
    BY <1>0, WithPackType DEF Return, Ended
  <2>4. llm_calls' = llm_calls + 1 /\ UNCHANGED <<envVars, inputVars, toolVars>>
    BY <1>7 DEF compose_response
  <2>5. QED
    BY <1>0, <2>1, <2>2, <2>3, <2>4, ReturnTyping DEF Ended, toolVars
<1>8. CASE repair_citations
  <2>1. PICK markers \in Answers :
           \/ Answered(markers, 2)
           \/ Return(WithPack("evidence_validation_failed", NoAnswer, 2))
    BY <1>8 DEF repair_citations
  <2>2. Answered(markers, 2) => Ended
    BY <1>0, AnsweredType
  <2>3. Return(WithPack("evidence_validation_failed", NoAnswer, 2)) => Ended
    BY <1>0, WithPackType DEF Return, Ended
  <2>4. llm_calls' = llm_calls + 1 /\ UNCHANGED <<envVars, inputVars, toolVars, draft>>
    BY <1>8 DEF repair_citations
  <2>5. QED
    BY <1>0, <2>1, <2>2, <2>3, <2>4, ReturnTyping DEF Ended, toolVars
<1>9. CASE RepairFails
  <2>1. Ended
    BY <1>0, <1>9, WithPackType DEF RepairFails, Return, Ended
  <2>2. llm_calls' = llm_calls + 1 /\ UNCHANGED <<envVars, inputVars, toolVars, draft>>
    BY <1>9 DEF RepairFails
  <2>3. QED
    BY <1>0, <2>1, <2>2, ReturnTyping DEF Ended, toolVars
<1>10. CASE Tick
  BY <1>10 DEF Tick, Typing, TypeOK, inputVars, toolVars
<1>11. CASE RecordChange
  BY <1>11 DEF RecordChange, Typing, TypeOK, inputVars, toolVars
<1>12. CASE UNCHANGED vars
  BY <1>12 DEF vars, Typing, TypeOK
<1>13. QED
  BY <1>1, <1>2, <1>3, <1>4, <1>5, <1>6, <1>7, <1>8, <1>9, <1>10, <1>11, <1>12
  DEF Next, Serve, Answering

-----------------------------------------------------------------------------
(* Budgets *)

LEMMA AttemptsBound ==
    ASSUME NEW tool
    PROVE  /\ MaxAttempts(tool) \in Nat \ {0}
           /\ MaxAttempts(tool) <= 1 + (IF Retryable = {} THEN 0 ELSE MAX_RETRIES)
BY AgentConstants DEF MaxAttempts

LEMMA InitBudgets == Init => Budgets
BY AgentConstants DEF Init, Budgets

LEMMA UnderstandBudgets ==
    ASSUME Typing, Budgets, Understand
    PROVE  Budgets'
<1> DEFINE e == resolve_entities(question, owner, scope)
           p == build_plan(resolve_intent(question, e), e)
           exit == PlanningExit(question, e, p, scope)
<1>1. p \in Seq(Runnable)
  BY AgentConstants, PlanOfQuestion DEF Typing, TypeOK
<1>2. exit = "none" => ~(Len(p) > MAX_TOOL_CALLS)
  <2> HIDE DEF p, e
  <2>1. QED
    BY DEF PlanningExit
<1>3. /\ \/ pc' = "done" /\ UNCHANGED plan
         \/ pc' = "tools" /\ plan' = p /\ exit = "none"
      /\ pc = "received"
      /\ UNCHANGED <<results, iterations, attempt, started, llm_calls>>
  BY DEF Understand, Terminal, Return
<1> HIDE DEF exit, p, e
<1>4. Len(plan') <= MAX_TOOL_CALLS
  BY <1>1, <1>2, <1>3, LenProperties, AgentConstants DEF Budgets
<1>5. Len(results') <= Len(plan')
  <2>1. plan' \in Seq(Runnable)
    BY <1>1, <1>3 DEF Typing
  <2>2. results' = <<>> /\ Len(plan') \in Nat
    BY <1>3, <2>1, LenProperties DEF Budgets
  <2>3. QED
    BY <2>2
<1>6. QED
  BY <1>3, <1>4, <1>5 DEF Budgets

LEMMA StartBudgets ==
    ASSUME Typing, Budgets, StartTool
    PROVE  Budgets'
<1>1. /\ pc = "tools"
      /\ Len(results) < Len(plan)
      /\ \/ pc' = "done"
         \/ /\ ~(elapsed > MAX_WALL_CLOCK) /\ ~(iterations >= MAX_ITERATIONS)
            /\ pc' = "attempt" /\ attempt' = 1 /\ started' = elapsed
      /\ UNCHANGED <<plan, results, iterations, llm_calls>>
  BY DEF StartTool, Terminal, Return
<1>2. elapsed \in Nat /\ iterations \in Nat /\ MAX_WALL_CLOCK \in Nat /\ MAX_ITERATIONS \in Nat
  BY AgentConstants DEF Typing, TypeOK
<1>3. 1 \in 1 .. MaxAttempts(Step'.tool)
  BY AttemptsBound
<1>4. QED
  BY <1>1, <1>2, <1>3, AttemptsBound DEF Budgets, MaxAttempts

LEMMA ToolBudgets ==
    ASSUME Typing, Budgets, execute_tool
    PROVE  Budgets'
<1>1. /\ pc = "attempt" /\ Step \in Runnable /\ Len(results) < Len(plan)
      /\ attempt \in 1 .. MaxAttempts(Step.tool) /\ iterations < MAX_ITERATIONS
  BY StepIsRunnable DEF execute_tool, Budgets
<1>2. /\ attempt \in Nat /\ iterations \in Nat /\ llm_calls \in Nat
      /\ Len(results) \in Nat /\ Len(plan) \in Nat /\ results \in Seq(Collected)
      /\ MAX_ITERATIONS \in Nat /\ MAX_RETRIES \in Nat
  BY LenProperties, AgentConstants DEF Typing, TypeOK
<1>3. PICK r \in Finished(Step, attempt) :
         \/ /\ Retries(r)
            /\ attempt' = attempt + 1
            /\ started' = elapsed
            /\ UNCHANGED <<results, iterations, pc, result>>
         \/ /\ Collect(r)
            /\ UNCHANGED <<attempt, started>>
  BY DEF execute_tool
<1>4. r.step = Step /\ r.attempts = attempt
  BY <1>1, <1>2, <1>3, FinishedType
<1>5. UNCHANGED <<plan, llm_calls>>
  BY DEF execute_tool
<1>6. CASE /\ Retries(r)
           /\ attempt' = attempt + 1
           /\ started' = elapsed
           /\ UNCHANGED <<results, iterations, pc, result>>
  <2>1. attempt < MaxAttempts(Step.tool)
    BY <1>4, <1>6 DEF Retries
  <2>2. Step' = Step
    BY <1>5, <1>6 DEF Step
  <2>3. attempt' \in 1 .. MaxAttempts(Step'.tool) /\ attempt' # 1
    BY <1>2, <1>6, <1>1, <2>1, <2>2, AttemptsBound
  <2>4. QED
    BY <1>1, <1>5, <1>6, <2>3 DEF Budgets, MaxAttempts
<1>7. CASE Collect(r) /\ UNCHANGED <<attempt, started>>
  <2>1. /\ iterations' = iterations + attempt
        /\ pc' \in {"tools", "done"}
        /\ results' = Append(results, r)
    BY <1>4, <1>7 DEF Collect, Terminal, Return
  <2>2. iterations' <= MAX_ITERATIONS + (IF Retryable = {} THEN 0 ELSE MAX_RETRIES)
    BY <1>1, <1>2, <2>1, AttemptsBound
  <2>3. Len(results') = Len(results) + 1
    BY <1>2, <2>1
  <2>4. QED
    BY <1>1, <1>2, <1>5, <2>1, <2>2, <2>3 DEF Budgets
<1>8. QED
  BY <1>3, <1>6, <1>7

LEMMA BudgetsStep ==
    ASSUME Typing, Budgets, [Next]_vars
    PROVE  Budgets'
<1>0. llm_calls \in Nat /\ MAX_LLM_CALLS \in Nat
  BY AgentConstants DEF Typing, TypeOK
<1>1. CASE Understand
  BY <1>1, UnderstandBudgets
<1>2. CASE StartTool
  BY <1>2, StartBudgets
<1>3. CASE LoopEnds
  BY <1>3 DEF LoopEnds, toolVars, Budgets
<1>4. CASE execute_tool
  BY <1>4, ToolBudgets
<1>5. CASE Gates
  <2>1. /\ pc = "evidence" /\ (pc' = "done" \/ (pc' = "compose" /\ MAX_LLM_CALLS >= 1))
        /\ UNCHANGED <<plan, results, iterations, llm_calls>>
    BY <1>5 DEF Gates, toolVars, Terminal, Return
  <2>2. QED
    BY <1>5, <2>1 DEF Budgets
<1>6. CASE ComposeFails
  <2>1. /\ pc = "compose" /\ pc' = "done" /\ llm_calls' = llm_calls + 1
        /\ UNCHANGED <<plan, results, iterations>>
    BY <1>6 DEF ComposeFails, toolVars, Return
  <2>2. QED
    BY <1>0, <2>1 DEF Budgets
<1>7. CASE compose_response
  <2>1. /\ pc = "compose" /\ (pc' = "done" \/ (pc' = "repair" /\ MAX_LLM_CALLS >= 2))
        /\ llm_calls' = llm_calls + 1
        /\ UNCHANGED <<plan, results, iterations>>
    BY <1>7 DEF compose_response, toolVars, Answered, Return
  <2>2. QED
    BY <1>0, <2>1 DEF Budgets
<1>8. CASE repair_citations \/ RepairFails
  <2>1. /\ pc = "repair" /\ pc' = "done" /\ llm_calls' = llm_calls + 1
        /\ UNCHANGED <<plan, results, iterations>>
    BY <1>8 DEF repair_citations, RepairFails, toolVars, Answered, Return
  <2>2. QED
    BY <1>0, <2>1 DEF Budgets
<1>9. CASE Tick \/ RecordChange \/ UNCHANGED vars
  <2>1. UNCHANGED <<pc, toolVars, llm_calls>>
    BY <1>9 DEF Tick, RecordChange, vars, toolVars
  <2>2. Step' = Step
    BY <2>1 DEF toolVars, Step
  <2>3. QED
    BY <2>1, <2>2 DEF toolVars, Budgets, MaxAttempts
<1>10. QED
  BY <1>1, <1>2, <1>3, <1>4, <1>5, <1>6, <1>7, <1>8, <1>9 DEF Next, Serve, Answering

-----------------------------------------------------------------------------
(* What is shown *)

NoRefusal(rs) == \A n \in DOMAIN rs : rs[n].error # "not_authorized"

LEMMA NotYetShown ==
    ASSUME pc' # "done", result' = NoResult, NoRefusal(results'),
           pc' \in {"compose", "repair"} => Grounded(results', TRUE)
    PROVE  Shown'
BY DEF NoRefusal, NoResult, Shown, answered, RefusalShowsNothing

LEMMA NoAnswerShown ==
    ASSUME pc' = "done", result'.status \notin {"completed", "escalated"},
           result'.answer = NoAnswer,
           \/ NoRefusal(results')
           \/ result'.status = "failed" /\ result'.refs = {} /\ result'.trust = "none"
    PROVE  Shown'
BY DEF NoRefusal, Shown, answered, RefusalShowsNothing

LEMMA AnswerShown ==
    ASSUME UNCHANGED results, NoRefusal(results), NEW markers \in Answers, NEW count \in {1, 2},
           Answered(markers, count), validate_citations(markers, pack_refs(results)),
           Grounded(results, TRUE)
    PROVE  Shown'
<1>1. /\ pc' = "done"
      /\ result' = WithPack(IF trust_state(results) = "ESCALATE" THEN "escalated"
                            ELSE "completed", markers, count)
  BY DEF Answered, Return
<1>2. result'.status \in {"completed", "escalated"}
  BY <1>1 DEF WithPack
<1>3. Answer(markers, count)'
  BY <1>1 DEF Answer, WithPack, trust_state, pack_refs, pack_docs, pack_review, pack_trusts,
              pack_results, Calculated, Grounded
<1>4. QED
  BY <1>1, <1>2, <1>3 DEF Shown, answered, RefusalShowsNothing, NoRefusal

LEMMA TerminalFields ==
    ASSUME NEW status, NEW n, Terminal(status, n)
    PROVE  /\ pc' = "done"
           /\ result'.status = status
           /\ result'.answer = NoAnswer /\ result'.refs = {} /\ result'.trust = "none"
BY DEF Terminal, Return, NoResult

LEMMA WithPackFields ==
    ASSUME NEW status, NEW answer, NEW count, Return(WithPack(status, answer, count))
    PROVE  pc' = "done" /\ result'.status = status /\ result'.answer = answer
BY DEF Return, WithPack

LEMMA InitShown == Init => Shown
BY DEF Init, Shown, NoResult, answered, RefusalShowsNothing

LEMMA ToolShown ==
    ASSUME Typing, Budgets, Shown, execute_tool
    PROVE  Shown'
<1>1. /\ pc = "attempt" /\ Step \in Runnable /\ attempt \in Nat
      /\ result = NoResult /\ NoRefusal(results) /\ results \in Seq(Collected)
  BY StepIsRunnable DEF execute_tool, Budgets, Typing, TypeOK, Shown, NoRefusal
<1>2. PICK r \in Finished(Step, attempt) :
         \/ UNCHANGED <<results, pc, result>>
         \/ Collect(r)
  BY DEF execute_tool
<1>3. CASE UNCHANGED <<results, pc, result>>
  BY <1>1, <1>3, NotYetShown
<1>4. CASE Collect(r) /\ r.error = "not_authorized"
  <2>1. Terminal("failed", Len(results) + 1)
    BY <1>4 DEF Collect
  <2>2. QED
    BY <2>1, TerminalFields, NoAnswerShown
<1>5. CASE Collect(r) /\ r.error # "not_authorized"
  <2>1. pc' = "tools" /\ result' = NoResult /\ results' = Append(results, r)
    BY <1>1, <1>5 DEF Collect
  <2>2. r \in Collected
    BY <1>1, FinishedType
  <2>3. NoRefusal(results')
    <3>1. SUFFICES ASSUME NEW n \in DOMAIN results' PROVE results'[n].error # "not_authorized"
      BY DEF NoRefusal
    <3>2. n \in DOMAIN results \/ results'[n] = r
      BY <1>1, <2>1, <2>2, AppendProperties
    <3>3. n \in DOMAIN results => results'[n] = results[n]
      BY <1>1, <2>1, <2>2, AppendProperties
    <3>4. QED
      BY <1>1, <1>5, <3>2, <3>3 DEF NoRefusal
  <2>4. QED
    BY <2>1, <2>3, NotYetShown
<1>6. QED
  BY <1>2, <1>3, <1>4, <1>5

LEMMA ShownStep ==
    ASSUME Typing, Budgets, Shown, [Next]_vars
    PROVE  Shown'
<1>0. pc # "done" => result = NoResult /\ NoRefusal(results)
  BY DEF Shown, NoRefusal
<1>1. CASE Understand
  <2>1. PICK exit \in {"needs_clarification", "insufficient_evidence", "failed", "http_500", "none"} :
           \/ Terminal(exit, 0) /\ exit # "none"
           \/ pc' = "tools" /\ UNCHANGED result
    <3>1. PlanningExit(question, resolve_entities(question, owner, scope),
                       build_plan(resolve_intent(question, resolve_entities(question, owner, scope)),
                                  resolve_entities(question, owner, scope)), scope)
             \in {"needs_clarification", "insufficient_evidence", "failed", "none"}
      BY DEF PlanningExit
    <3>2. QED
      BY <1>1, <3>1, Zenon DEF Understand
  <2>2. pc = "received" /\ UNCHANGED results
    BY <1>1 DEF Understand
  <2>3. CASE Terminal(exit, 0) /\ exit # "none"
    BY <1>0, <2>1, <2>2, <2>3, TerminalFields, NoAnswerShown
  <2>4. CASE pc' = "tools" /\ UNCHANGED result
    BY <1>0, <2>2, <2>4, NotYetShown
  <2>5. QED
    BY <2>1, <2>3, <2>4
<1>2. CASE StartTool
  <2>1. /\ pc = "tools" /\ UNCHANGED results
        /\ Terminal("failed", Len(results)) \/ (pc' = "attempt" /\ UNCHANGED result)
    BY <1>2 DEF StartTool
  <2>2. CASE Terminal("failed", Len(results))
    BY <1>0, <2>1, <2>2, TerminalFields, NoAnswerShown
  <2>3. CASE pc' = "attempt" /\ UNCHANGED result
    BY <1>0, <2>1, <2>3, NotYetShown
  <2>4. QED
    BY <2>1, <2>2, <2>3
<1>3. CASE LoopEnds
  BY <1>0, <1>3, NotYetShown DEF LoopEnds, toolVars
<1>4. CASE execute_tool
  BY <1>4, ToolShown
<1>5. CASE Gates
  <2>1. PICK sufficient \in BOOLEAN :
           \/ Terminal("insufficient_evidence", Len(results))
           \/ Return([NoResult EXCEPT !.status = "failed", !.trust = trust_state(results),
                                      !.tool_calls = Len(results)])
           \/ Grounded(results, sufficient) /\ pc' = "compose" /\ UNCHANGED result
    BY <1>5 DEF Gates
  <2>2. pc = "evidence" /\ UNCHANGED results
    BY <1>5 DEF Gates, toolVars
  <2>3. CASE Terminal("insufficient_evidence", Len(results))
    BY <1>0, <2>2, <2>3, TerminalFields, NoAnswerShown
  <2>4. CASE Return([NoResult EXCEPT !.status = "failed", !.trust = trust_state(results),
                                     !.tool_calls = Len(results)])
    <3>1. pc' = "done" /\ result'.status = "failed" /\ result'.answer = NoAnswer
      BY <2>4 DEF Return, NoResult
    <3>2. QED
      BY <1>0, <2>2, <3>1, NoAnswerShown
  <2>5. CASE Grounded(results, sufficient) /\ pc' = "compose" /\ UNCHANGED result
    <3>1. Grounded(results', TRUE)
      BY <2>2, <2>5 DEF Grounded, pack_results, pack_docs, Calculated
    <3>2. QED
      BY <1>0, <2>2, <2>5, <3>1, NotYetShown
  <2>6. QED
    BY <2>1, <2>3, <2>4, <2>5
<1>6. CASE ComposeFails
  <2>1. pc' = "done" /\ result'.status = "failed" /\ result'.answer = NoAnswer
    BY <1>6 DEF ComposeFails, Return, NoResult
  <2>2. pc = "compose" /\ UNCHANGED results
    BY <1>6 DEF ComposeFails, toolVars
  <2>3. QED
    BY <1>0, <2>1, <2>2, NoAnswerShown
<1>7. CASE compose_response
  <2>1. PICK markers \in Answers :
           \/ validate_citations(markers, pack_refs(results)) /\ Answered(markers, 1)
           \/ Return(WithPack("evidence_validation_failed", NoAnswer, 1))
           \/ pc' = "repair" /\ UNCHANGED result
    BY <1>7 DEF compose_response
  <2>2. pc = "compose" /\ UNCHANGED results /\ Grounded(results, TRUE)
    BY <1>7 DEF compose_response, toolVars, Shown
  <2>3. CASE validate_citations(markers, pack_refs(results)) /\ Answered(markers, 1)
    BY <1>0, <2>2, <2>3, AnswerShown
  <2>4. CASE Return(WithPack("evidence_validation_failed", NoAnswer, 1))
    BY <1>0, <2>2, <2>4, WithPackFields, NoAnswerShown
  <2>5. CASE pc' = "repair" /\ UNCHANGED result
    <3>1. Grounded(results', TRUE)
      BY <2>2 DEF Grounded, pack_results, pack_docs, Calculated
    <3>2. QED
      BY <1>0, <2>2, <2>5, <3>1, NotYetShown
  <2>6. QED
    BY <2>1, <2>3, <2>4, <2>5
<1>8. CASE repair_citations
  <2>1. PICK markers \in Answers :
           \/ validate_citations(markers, pack_refs(results)) /\ Answered(markers, 2)
           \/ Return(WithPack("evidence_validation_failed", NoAnswer, 2))
    BY <1>8 DEF repair_citations
  <2>2. pc = "repair" /\ UNCHANGED results /\ Grounded(results, TRUE)
    BY <1>8 DEF repair_citations, toolVars, Shown
  <2>3. CASE validate_citations(markers, pack_refs(results)) /\ Answered(markers, 2)
    BY <1>0, <2>2, <2>3, AnswerShown
  <2>4. CASE Return(WithPack("evidence_validation_failed", NoAnswer, 2))
    BY <1>0, <2>2, <2>4, WithPackFields, NoAnswerShown
  <2>5. QED
    BY <2>1, <2>3, <2>4
<1>9. CASE RepairFails
  <2>1. pc = "repair" /\ UNCHANGED results /\ Return(WithPack("failed", NoAnswer, 1))
    BY <1>9 DEF RepairFails, toolVars
  <2>2. QED
    BY <1>0, <2>1, WithPackFields, NoAnswerShown
<1>10. CASE Tick \/ RecordChange \/ UNCHANGED vars
  <2>1. UNCHANGED <<pc, results, result>>
    BY <1>10 DEF Tick, RecordChange, vars, toolVars
  <2>2. ASSUME NEW markers, NEW count, Answer(markers, count)
        PROVE  Answer(markers, count)'
    BY <2>1, <2>2 DEF Answer, WithPack, trust_state, pack_refs, pack_docs, pack_review,
                      pack_trusts, pack_results, Calculated, Grounded
  <2>3. Grounded(results, TRUE) => Grounded(results', TRUE)
    BY <2>1 DEF pack_docs, pack_results, Calculated, Grounded
  <2>4. QED
    BY <2>1, <2>2, <2>3 DEF Shown, answered, RefusalShowsNothing
<1>11. QED
  BY <1>1, <1>2, <1>3, <1>4, <1>5, <1>6, <1>7, <1>8, <1>9, <1>10 DEF Next, Serve, Answering

-----------------------------------------------------------------------------
(* The invariant and what follows from it *)

AgentInv == Typing /\ Budgets /\ Shown

LEMMA AgentInit == Init => AgentInv
BY InitTyping, InitBudgets, InitShown DEF AgentInv

LEMMA AgentStep == AgentInv /\ [Next]_vars => AgentInv'
<1>1. Budgets => (pc = "attempt" => Len(results) < Len(plan))
  BY DEF Budgets
<1>2. QED
  BY <1>1, TypingStep, BudgetsStep, ShownStep DEF AgentInv

LEMMA AgentInvariant == Spec => []AgentInv
BY AgentInit, AgentStep, PTL DEF Spec

\* The state of a request keeps its types: every step of a plan is one that a tool has, and what
\* is collected and returned is of the shape run_agent's callers read (TypeOK).
THEOREM TypesAreKept == Spec => []TypeOK
<1>1. AgentInv => TypeOK
  BY DEF AgentInv, Typing
<1>2. QED
  BY <1>1, AgentInvariant, PTL

\* However tools time out and are retried and whatever the LLM writes, the number of tools, of
\* LLM calls and of attempts stays within its budget, and no tool starts once the wall clock is
\* spent (AgentBudget).
THEOREM BudgetsAreKept == Spec => []BudgetsKept
<1>1. AgentInv => BudgetsKept
  <2>1. SUFFICES ASSUME AgentInv PROVE BudgetsKept
    OBVIOUS
  <2>2. Len(results) \in Nat /\ Len(plan) \in Nat /\ MAX_TOOL_CALLS \in Nat
    BY <2>1, LenProperties, AgentConstants DEF AgentInv, Typing
  <2>3. QED
    BY <2>1, <2>2 DEF AgentInv, Budgets, BudgetsKept
<1>2. QED
  BY <1>1, AgentInvariant, PTL

\* Once a tool was refused a record, the request has failed and shows nothing (execute_tool).
THEOREM RefusalsShowNothing == Spec => []RefusalShowsNothing
<1>1. AgentInv => RefusalShowsNothing
  BY DEF AgentInv, Shown
<1>2. QED
  BY <1>1, AgentInvariant, PTL

\* The trust state, the review flag and the status of an answer are those of the worst
\* calculation that contributed to it (enforce_trust_gate).
THEOREM WorstFindingDecides == Spec => []WorstFindingShows
<1>1. ASSUME AgentInv, answered PROVE WorstFindingShows
  <2>1. PICK markers \in Answers, count \in {1, 2} : Answer(markers, count)
    BY <1>1 DEF AgentInv, Shown
  <2>2. /\ result.trust = trust_state(results)
        /\ result.review = pack_review(results)
        /\ result.status = IF trust_state(results) = "ESCALATE" THEN "escalated" ELSE "completed"
    BY <2>1 DEF Answer, WithPack
  <2>3. /\ \A n \in Calculated(results) :
              Rank[results[n].finding.trust] <= Rank[trust_state(results)]
        /\ Calculated(results) = {} => trust_state(results) # "CONFIDENT"
        /\ trust_state(results) = "ESCALATE"
             <=> \E n \in Calculated(results) : results[n].finding.trust = "ESCALATE"
    BY <1>1, TrustOfPack DEF AgentInv, Typing
  <2>4. QED
    BY <2>2, <2>3 DEF WorstFindingShows, pack_review
<1>2. AgentInv => WorstFindingShows
  BY <1>1 DEF WorstFindingShows
<1>3. QED
  BY <1>2, AgentInvariant, PTL

\* An answer shows evidence from successful tools, names only sources of that evidence, also
\* after a repair, and a request that is not answered carries no text (validate_citations).
THEOREM AnswersGrounded == Spec => []AnswersAreGrounded
<1>1. ASSUME AgentInv, answered
      PROVE  /\ result.refs # {}
             /\ \A m \in result.answer : \E ref \in result.refs : ref[1] = m[1]
             /\ \A ref \in result.refs :
                   \E n \in DOMAIN results : results[n].error = "none" /\ ref \in results[n].refs
  <2>1. PICK markers \in Answers, count \in {1, 2} : Answer(markers, count)
    BY <1>1 DEF AgentInv, Shown
  <2>2. result.refs = pack_refs(results) /\ result.answer = markers
    BY <2>1 DEF Answer, WithPack
  <2>3. \A m \in markers : \E ref \in pack_refs(results) : ref[1] = m[1]
    BY <2>1 DEF Answer, validate_citations
  <2>4. /\ pack_refs(results) # {}
        /\ \A ref \in pack_refs(results) :
              \E n \in DOMAIN results : results[n].error = "none" /\ ref \in results[n].refs
    BY <1>1, <2>1, PackType DEF AgentInv, Typing, Answer
  <2>5. QED
    BY <2>2, <2>3, <2>4
<1>2. AgentInv /\ ~answered => result.answer = NoAnswer
  BY DEF AgentInv, Shown
<1>3. AgentInv => AnswersAreGrounded
  BY <1>1, <1>2 DEF AnswersAreGrounded
<1>4. QED
  BY <1>3, AgentInvariant, PTL

\* A question is understood as if the records that the caller may not see did not exist, whatever
\* they are: neither the plan nor an early exit tells (resolve_entities).
THEOREM HiddenRecordsDoNotMatter == Spec => []HiddenRecordsDoNotShow
<1>1. ASSUME AgentInv PROVE Understood(owner) = Understood(Masked)
  <2>1. owner \in Owners /\ question \in Question
    BY <1>1, AgentConstants DEF AgentInv, Typing, TypeOK
  <2>2. resolve_entities(question, Masked, scope) = resolve_entities(question, owner, scope)
    BY <2>1, MaskedEntities
  <2>3. QED
    BY <2>2, Zenon DEF Understood
<1>2. AgentInv => HiddenRecordsDoNotShow
  BY <1>1 DEF HiddenRecordsDoNotShow
<1>3. QED
  BY <1>2, AgentInvariant, PTL

=============================================================================
