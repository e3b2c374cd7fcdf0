------------------------------- MODULE Agent -------------------------------
(***************************************************************************)
(* One POST /api/chat request: run_agent (app/agent/orchestrator.py) with  *)
(* the tool protocol it uses (registry.py, tools.py), the evidence pack,   *)
(* the sufficiency and trust gates, the composing and repairing LLM calls  *)
(* and the citation check. Requests share no mutable state, so one request *)
(* stands for all; around it time passes and records change in the         *)
(* database it reads.                                                      *)
(***************************************************************************)
EXTENDS Planning

CONSTANTS
    Questions,              \* the questions asked
    CallerScopes,           \* the scopes callers have
    InitOwners,             \* the databases to start from
    Docs,                   \* documents of the search index
    DocScope,               \* document -> its account, or Absent for a global one
    Answers,                \* what an LLM may write: sets of citation markers
    NoAnswer,               \* answer=None
    Retryable,              \* tools whose ToolSpec says retryable (none today)
    MAX_RETRIES,
    TOOL_TIMEOUT,           \* timeout_seconds: one value for the 5 s and the 10 s tools
    MAX_WALL_CLOCK,
    MAX_TOOL_CALLS, MAX_ITERATIONS, MAX_LLM_CALLS,
    MaxElapsed,             \* bound: how far the wall clock runs
    MaxChanges              \* bound: how often the database changes

\* All structured records are cited as SRC-07 with the record as locator;
\* a document is cited under its own id.
RecordRef(i) == <<"SRC-07", i>>
DocRef(d) == <<d, d>>
Refs == {RecordRef(i) : i \in Ids} \cup {DocRef(d) : d \in Docs}

ASSUME AgentConstants ==
    /\ Questions \subseteq Question
    /\ CallerScopes \subseteq Scopes
    /\ InitOwners \subseteq Owners
    /\ DocScope \in [Docs -> Accounts \cup {Absent}]
    /\ "SRC-07" \notin Docs
    /\ NoAnswer \notin Answers
    /\ \A markers \in Answers : \A m \in markers : m = <<m[1], m[2]>>
    /\ Retryable \subseteq Tools
    /\ MAX_RETRIES \in Nat
    /\ TOOL_TIMEOUT \in Nat
    /\ MAX_WALL_CLOCK \in Nat
    /\ MAX_TOOL_CALLS \in Nat
    /\ MAX_ITERATIONS \in Nat
    /\ MAX_LLM_CALLS \in Nat
    /\ MaxElapsed \in Nat
    /\ MaxChanges \in Nat

TrustStates == {"CONFIDENT", "CONDITIONAL", "UNCERTAIN", "ESCALATE"}
Rank == [CONFIDENT |-> 0, CONDITIONAL |-> 1, UNCERTAIN |-> 2, ESCALATE |-> 3]

Errors == {"not_found", "not_authorized", "invalid_arguments", "timeout", "internal"}

\* ToolResult: error "none" is success; finding is what a calculation returned.
Finding == [result: BOOLEAN, trust: TrustStates, review: BOOLEAN]
NoFinding == [result |-> FALSE, trust |-> "none", review |-> FALSE]
ToolResult ==
    [step: PlanStep, error: Errors \cup {"none"}, attempts: Nat, finding: Finding \cup {NoFinding},
     docs: SUBSET Docs, refs: SUBSET Refs]

Statuses ==
    {"completed", "needs_clarification", "insufficient_evidence", "escalated", "failed",
     "evidence_validation_failed"}

\* Status http_500 stands for an exception that leaves run_agent.
AgentRunResult ==
    [status: Statuses \cup {"none", "http_500"}, trust: TrustStates \cup {"none"}, review: BOOLEAN,
     refs: SUBSET Refs, answer: Answers \cup {NoAnswer}, tool_calls: Nat, llm_calls: Nat]

ControlPoints == {"received", "tools", "attempt", "evidence", "compose", "repair", "done"}

VARIABLES
    owner,       \* the database: id -> account, or Absent
    changes,     \* how often it has changed
    elapsed,     \* time.perf_counter() - start
    question, scope,
    pc,
    plan,
    results,     \* tool_results
    iterations,
    attempt,     \* the running attempt of the current tool
    started,     \* when that attempt started
    draft,       \* the composed answer that failed validation
    llm_calls,   \* history: LLM calls really made
    result       \* the AgentRunResult returned

vars == <<owner, changes, elapsed, question, scope, pc, plan, results, iterations, attempt,
          started, draft, llm_calls, result>>
inputVars == <<question, scope>>
envVars == <<owner, changes, elapsed>>
toolVars == <<plan, results, iterations, attempt, started>>

NoResult ==
    [status |-> "none", trust |-> "none", review |-> FALSE, refs |-> {}, answer |-> NoAnswer,
     tool_calls |-> 0, llm_calls |-> 0]

\* Every variable has the type its comment gives it.
TypeOK ==
    /\ owner \in Owners
    /\ changes \in Nat
    /\ elapsed \in Nat
    /\ question \in Questions
    /\ scope \in CallerScopes
    /\ pc \in ControlPoints
    /\ plan \in Seq(PlanStep)
    /\ results \in Seq(ToolResult)
    /\ iterations \in Nat
    /\ attempt \in Nat
    /\ started \in Nat
    /\ draft \in Answers \cup {NoAnswer}
    /\ llm_calls \in Nat
    /\ result \in AgentRunResult

Init ==
    /\ owner \in InitOwners
    /\ changes = 0
    /\ elapsed = 0
    /\ question \in Questions
    /\ scope \in CallerScopes
    /\ pc = "received"
    /\ plan = <<>>
    /\ results = <<>>
    /\ iterations = 0
    /\ attempt = 0
    /\ started = 0
    /\ draft = NoAnswer
    /\ llm_calls = 0
    /\ result = NoResult

\* run_agent returns r.
Return(r) ==
    /\ pc' = "done"
    /\ result' = r

\* _terminal with only a status: no trust state, review flag, citations or answer.
Terminal(status, tool_calls) ==
    Return([NoResult EXCEPT !.status = status, !.tool_calls = tool_calls])

-----------------------------------------------------------------------------
(* Understanding the question: up to the plan nothing is executed. *)

\* The early exits, in their order; "none" if the plan is executed.
PlanningExit(q, e, p, accounts) ==
    CASE e.ambiguous \/ needs_account_clarification(q, e, accounts) -> "needs_clarification"
      [] resolve_intent(q, e) = "unsupported" -> "insufficient_evidence"
      [] p = <<>> -> "insufficient_evidence"
      [] Len(p) > MAX_TOOL_CALLS -> "failed"
      [] OTHER -> "none"

\* A database error in the lookups of resolve_entities is not caught.
Understand ==
    LET e == resolve_entities(question, owner, scope)
        p == build_plan(resolve_intent(question, e), e)
        exit == PlanningExit(question, e, p, scope) IN
    /\ pc = "received"
    /\ \/ exit # "none" /\ Terminal(exit, 0) /\ UNCHANGED plan
       \/ Terminal("http_500", 0) /\ UNCHANGED plan
       \/ exit = "none" /\ pc' = "tools" /\ plan' = p /\ UNCHANGED result
    /\ UNCHANGED <<envVars, inputVars, results, iterations, attempt, started, draft, llm_calls>>

-----------------------------------------------------------------------------
(* The tool loop *)

Step == plan[Len(results) + 1]

\* Before every tool the wall clock and the iteration budget are checked.
StartTool ==
    LET spent == elapsed > MAX_WALL_CLOCK \/ iterations >= MAX_ITERATIONS IN
    /\ pc = "tools"
    /\ Len(results) < Len(plan)
    /\ \/ spent /\ Terminal("failed", Len(results)) /\ UNCHANGED <<attempt, started>>
       \/ ~spent /\ pc' = "attempt" /\ attempt' = 1 /\ started' = elapsed /\ UNCHANGED result
    /\ UNCHANGED <<envVars, inputVars, plan, results, iterations, draft, llm_calls>>

LoopEnds ==
    /\ pc = "tools"
    /\ Len(results) = Len(plan)
    /\ pc' = "evidence"
    /\ UNCHANGED <<envVars, inputVars, toolVars, draft, llm_calls, result>>

\* Search results are restricted to global documents and the caller's accounts.
Searchable == {d \in Docs : DocScope[d] = Absent \/ allows_account(scope, DocScope[d])}

\* What the domain services can decide: whether there is a result, its trust
\* state and whether a human must look at it.
Decided(trust, reviews) == [result: {TRUE}, trust: {trust}, review: reviews]

\* Mutant: an escalated cancellation comes without its trust state.
evaluate_cancellation_NoTrust == Decided("CONFIDENT", {FALSE}) \cup Decided("none", {TRUE})

evaluate_cancellation == Decided("CONFIDENT", {FALSE}) \cup Decided("ESCALATE", {TRUE})

evaluate_service_credit ==
    Decided("CONFIDENT", {FALSE}) \cup Decided("CONDITIONAL", {FALSE})
      \cup Decided("ESCALATE", {TRUE})

calculate_sla ==
    Decided("CONFIDENT", BOOLEAN) \cup Decided("CONDITIONAL", BOOLEAN)
      \cup [result: {FALSE}, trust: {"UNCERTAIN"}, review: {TRUE}]

classify_severity == Decided("CONFIDENT", {FALSE}) \cup Decided("UNCERTAIN", {TRUE})

Decisions ==
    [cancellation |-> evaluate_cancellation, service_credit |-> evaluate_service_credit,
     sla |-> calculate_sla, severity |-> classify_severity]

\* The clauses that can govern a record: policies and its account's agreement.
Governing(i) == {d \in Docs : DocScope[d] = Absent \/ DocScope[d] = owner[i]}

\* A severity cites the policy; the others cite the record and at most one
\* clause, and an SLA the clause of its severity too.
DecisionRefs(step) ==
    IF step.calc = "severity" THEN {{DocRef(d)} : d \in {d \in Docs : DocScope[d] = Absent}}
    ELSE {{RecordRef(step.entity)} \cup {DocRef(d) : d \in ds} :
            ds \in {ds \in SUBSET Governing(step.entity) :
                       Cardinality(ds) <= IF step.calc = "sla" THEN 2 ELSE 1}}

\* The successful results of a tool; n is the attempt.
Outputs(step, n) ==
    LET Ok(finding, docs, refs) ==
            [step |-> step, error |-> "none", attempts |-> n, finding |-> finding,
             docs |-> docs, refs |-> refs] IN
    CASE step.tool = "lookup_structured_data" -> {Ok(NoFinding, {}, {RecordRef(step.entity)})}
      [] step.tool = "search_documents" ->
            {Ok(NoFinding, ds, {DocRef(d) : d \in ds}) : ds \in SUBSET Searchable}
      [] OTHER -> {Ok(f, {}, refs) : f \in Decisions[step.calc], refs \in DecisionRefs(step)}

Fail(step, error, n) ==
    [step |-> step, error |-> error, attempts |-> n, finding |-> NoFinding, docs |-> {},
     refs |-> {}]

\* The exception of the lookups inside a tool: the record and, for an SLA, its
\* account. A search looks nothing up.
ToolError(step) ==
    LET error == LookupError(step.entity, owner, scope) IN
    CASE step.entity = Absent -> "none"
      [] step.entity # Absent /\ error = "none" /\ step.calc = "sla" ->
            LookupError(owner[step.entity], owner, scope)
      [] OTHER -> error

\* Besides, a tool can raise what no lookup explains: a query without terms, a
\* row that does not validate, no clause that applies, a database error; a
\* calculation also the absence of the agreement's source.
Raised(step) ==
    ({ToolError(step)} \ {"none"}) \cup {"invalid_arguments", "internal"}
      \cup {e \in {"not_found"} : step.tool = "calculate_support_outcome"}

\* How a dispatch can end. A result that comes late is thrown away.
Finished(step, n) ==
    {Fail(step, error, n) : error \in Raised(step)}
    \cup (IF ToolError(step) # "none" THEN {}
          ELSE IF elapsed > started + TOOL_TIMEOUT THEN {Fail(step, "timeout", n)}
          ELSE Outputs(step, n))

\* Mutant: retries without a bound.
MaxAttempts_Forever(tool) == MAX_RETRIES + 1 + attempt

MaxAttempts(tool) == IF tool \in Retryable THEN MAX_RETRIES + 1 ELSE 1

\* The loop of execute_tool goes round again only after a timeout.
Retries(r) == r.error = "timeout" /\ r.attempts < MaxAttempts(r.step.tool)

\* Mutant: a refused lookup is skipped like any other failure.
Collect_Skip(r) ==
    /\ iterations' = iterations + r.attempts
    /\ results' = Append(results, r)
    /\ pc' = "tools"
    /\ UNCHANGED result

\* After a tool: a refused lookup ends the request with nothing shown.
Collect(r) ==
    /\ iterations' = iterations + r.attempts
    /\ results' = Append(results, r)
    /\ \/ r.error = "not_authorized" /\ Terminal("failed", Len(results) + 1)
       \/ r.error # "not_authorized" /\ pc' = "tools" /\ UNCHANGED result

execute_tool ==
    /\ pc = "attempt"
    /\ \E r \in Finished(Step, attempt) :
          \/ /\ Retries(r)
             /\ attempt' = attempt + 1
             /\ started' = elapsed
             /\ UNCHANGED <<results, iterations, pc, result>>
          \/ /\ ~Retries(r)
             /\ Collect(r)
             /\ UNCHANGED <<attempt, started>>
    /\ UNCHANGED <<envVars, inputVars, plan, draft, llm_calls>>

-----------------------------------------------------------------------------
(* build_evidence_pack: only successful tools contribute. *)

Calculated(rs) ==
    {n \in DOMAIN rs : rs[n].error = "none" /\ rs[n].step.tool = "calculate_support_outcome"}

pack_refs(rs) == UNION {rs[n].refs : n \in DOMAIN rs}
pack_docs(rs) == UNION {rs[n].docs : n \in DOMAIN rs}
pack_results(rs) == \E n \in Calculated(rs) : rs[n].finding.result
pack_trusts(rs) == {rs[n].finding.trust : n \in Calculated(rs)}
pack_review(rs) == \E n \in Calculated(rs) : rs[n].finding.review

\* Mutant: the most certain calculation decides.
enforce_trust_gate_Best(trusts, has_docs) ==
    CASE trusts # {} -> CHOOSE t \in trusts : \A u \in trusts : Rank[t] <= Rank[u]
      [] trusts = {} /\ has_docs -> "CONDITIONAL"
      [] OTHER -> "UNCERTAIN"

enforce_trust_gate(trusts, has_docs) ==
    CASE trusts # {} -> CHOOSE t \in trusts : \A u \in trusts : Rank[u] <= Rank[t]
      [] trusts = {} /\ has_docs -> "CONDITIONAL"
      [] OTHER -> "UNCERTAIN"

trust_state(rs) == enforce_trust_gate(pack_trusts(rs), pack_docs(rs) # {})

\* The gates before the first LLM call. Whether document evidence suffices,
\* and whether the prompt fits the context and cost budgets, depends on texts
\* that the model leaves out; without documents it never suffices.
Grounded(rs, sufficient) == pack_results(rs) \/ (sufficient /\ pack_docs(rs) # {})

Gates ==
    /\ pc = "evidence"
    /\ \E sufficient, fits \in BOOLEAN :
          LET failed == [NoResult EXCEPT !.status = "failed", !.trust = trust_state(results),
                                         !.tool_calls = Len(results)] IN
          \/ ~Grounded(results, sufficient) /\ Terminal("insufficient_evidence", Len(results))
          \/ /\ Grounded(results, sufficient)
             /\ MAX_LLM_CALLS < 1 \/ ~fits
             /\ Return(failed)
          \/ /\ Grounded(results, sufficient)
             /\ MAX_LLM_CALLS >= 1 /\ fits
             /\ pc' = "compose"
             /\ UNCHANGED result
    /\ UNCHANGED <<envVars, inputVars, toolVars, draft, llm_calls>>

-----------------------------------------------------------------------------
(* The LLM writes the answer *)

\* A marker counts when its key or just its source is in the evidence.
validate_citations(markers, refs) ==
    \A m \in markers : m \in refs \/ \E ref \in refs : ref[1] = m[1]

\* Results after the first LLM call carry the whole pack. count is the number
\* of LLM calls that returned.
WithPack(status, answer, count) ==
    [status |-> status, trust |-> trust_state(results), review |-> pack_review(results),
     refs |-> pack_refs(results), answer |-> answer, tool_calls |-> Len(results),
     llm_calls |-> count]

Answered(answer, count) ==
    Return(WithPack(IF trust_state(results) = "ESCALATE" THEN "escalated" ELSE "completed",
                    answer, count))

\* The provider raised: the terminal result keeps the trust state only.
ComposeFails ==
    /\ pc = "compose"
    /\ llm_calls' = llm_calls + 1
    /\ Return([NoResult EXCEPT !.status = "failed", !.trust = trust_state(results),
                               !.tool_calls = Len(results)])
    /\ UNCHANGED <<envVars, inputVars, toolVars, draft>>

compose_response ==
    /\ pc = "compose"
    /\ llm_calls' = llm_calls + 1
    /\ \E markers \in Answers :
          LET valid == validate_citations(markers, pack_refs(results)) IN
          \/ valid /\ Answered(markers, 1) /\ UNCHANGED draft
          \/ /\ ~valid /\ MAX_LLM_CALLS < 2
             /\ Return(WithPack("evidence_validation_failed", NoAnswer, 1))
             /\ UNCHANGED draft
          \/ ~valid /\ MAX_LLM_CALLS >= 2 /\ pc' = "repair" /\ draft' = markers /\ UNCHANGED result
    /\ UNCHANGED <<envVars, inputVars, toolVars>>

RepairFails ==
    /\ pc = "repair"
    /\ llm_calls' = llm_calls + 1
    /\ Return(WithPack("failed", NoAnswer, 1))
    /\ UNCHANGED <<envVars, inputVars, toolVars, draft>>

\* Mutant: the repaired answer is not validated again.
repair_citations_Trusting ==
    /\ pc = "repair"
    /\ llm_calls' = llm_calls + 1
    /\ \E markers \in Answers : Answered(markers, 2)
    /\ UNCHANGED <<envVars, inputVars, toolVars, draft>>

\* Mutant: the repair is repeated until the answer is valid.
repair_citations_UntilValid ==
    /\ pc = "repair"
    /\ \E markers \in Answers :
          LET valid == validate_citations(markers, pack_refs(results)) IN
          \/ valid /\ Answered(markers, 2) /\ UNCHANGED draft
          \/ ~valid /\ draft' = markers /\ UNCHANGED <<pc, result>>
    /\ UNCHANGED <<envVars, inputVars, toolVars, llm_calls>>

repair_citations ==
    /\ pc = "repair"
    /\ llm_calls' = llm_calls + 1
    /\ \E markers \in Answers :
          LET valid == validate_citations(markers, pack_refs(results)) IN
          \/ valid /\ Answered(markers, 2)
          \/ ~valid /\ Return(WithPack("evidence_validation_failed", NoAnswer, 2))
    /\ UNCHANGED <<envVars, inputVars, toolVars, draft>>

-----------------------------------------------------------------------------
(* Around the request *)

\* The wall clock runs while the request is being served.
Tick ==
    /\ pc # "done"
    /\ elapsed < MaxElapsed
    /\ elapsed' = elapsed + 1
    /\ UNCHANGED <<owner, changes, inputVars, pc, toolVars, draft, llm_calls, result>>

\* Somebody else deletes a record, restores it or moves it to another account.
RecordChange ==
    /\ pc # "done"
    /\ changes < MaxChanges
    /\ changes' = changes + 1
    /\ \E i \in Ids, a \in Accounts \cup {Absent} :
          /\ a # owner[i]
          /\ owner' = [owner EXCEPT ![i] = a]
    /\ owner' \in Owners
    /\ UNCHANGED <<elapsed, inputVars, pc, toolVars, draft, llm_calls, result>>

Serve ==
    Understand \/ StartTool \/ LoopEnds \/ execute_tool \/ Gates \/ compose_response
      \/ ComposeFails \/ repair_citations \/ RepairFails

Answering == pc = "done" /\ UNCHANGED vars

Next == Serve \/ Tick \/ RecordChange \/ Answering

\* The handler's thread keeps running and every LLM call returns or raises
\* (the providers set a timeout on each).
Spec == Init /\ [][Next]_vars /\ WF_vars(Serve)

=============================================================================
