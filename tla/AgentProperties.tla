-------------------------- MODULE AgentProperties --------------------------
(***************************************************************************)
(* What makes the agent correct, and what a comment promises of it.        *)
(***************************************************************************)
EXTENDS Agent

answered == result.status \in {"completed", "escalated"}

\* Whatever mixture of calculations succeeded, failed or timed out, an answer's
\* trust state is at least as cautious as every calculation that contributed,
\* never CONFIDENT without one, and a review that any of them asked for is
\* flagged; the status is "escalated" exactly when one of them escalates
\* (enforce_trust_gate, build_evidence_pack).
WorstFindingShows ==
    answered =>
        /\ \A n \in Calculated(results) : Rank[results[n].finding.trust] <= Rank[result.trust]
        /\ Calculated(results) = {} => result.trust # "CONFIDENT"
        /\ result.review <=> \E n \in Calculated(results) : results[n].finding.review
        /\ result.status = "escalated"
             <=> \E n \in Calculated(results) : results[n].finding.trust = "ESCALATE"

\* An answer shows evidence, every marker in its text names a source of that
\* evidence, also after a repair, and the evidence comes from successful tools
\* of the plan; a request that is not answered carries no text
\* (validate_citations, build_evidence_pack).
AnswersAreGrounded ==
    /\ answered =>
          /\ result.refs # {}
          /\ \A m \in result.answer : \E ref \in result.refs : ref[1] = m[1]
          /\ \A ref \in result.refs :
                \E n \in DOMAIN results : results[n].error = "none" /\ ref \in results[n].refs
    /\ ~answered => result.answer = NoAnswer

\* A record that moves out of the caller's sight between resolve_entities and
\* a tool ends the request: nothing gathered before or after is shown.
RefusalShowsNothing ==
    (\E n \in DOMAIN results : results[n].error = "not_authorized") =>
        result.status = "failed" /\ result.refs = {} /\ result.trust = "none"

\* The database without what the caller may not see.
Masked == [i \in Ids |-> IF LookupError(i, owner, scope) = "none" THEN owner[i] ELSE Absent]
Understood(db) ==
    LET e == resolve_entities(question, db, scope)
        p == build_plan(resolve_intent(question, e), e) IN
    <<p, PlanningExit(question, e, p, scope)>>

\* The plan and the early exits are the same as if the records that the caller
\* may not see did not exist: a request does not tell whether they do
\* (orchestrator.py: "rather than leaking whether the record exists").
HiddenRecordsDoNotShow == pc = "received" => Understood(owner) = Understood(Masked)

\* However tools time out and are retried, at most MAX_TOOL_CALLS tools and
\* MAX_LLM_CALLS LLM calls run, no tool starts once the wall clock is spent, and the
\* attempts exceed MAX_ITERATIONS only by the retries of the tool that was
\* running (AgentBudget).
BudgetsKept ==
    /\ pc = "attempt" /\ attempt = 1 => started <= MAX_WALL_CLOCK
    /\ Len(results) <= MAX_TOOL_CALLS
    /\ llm_calls <= MAX_LLM_CALLS
    /\ iterations <= MAX_ITERATIONS + (IF Retryable = {} THEN 0 ELSE MAX_RETRIES)

\* Every request is answered, refused or failed in the end.
RequestEnds == <>(pc = "done")

-----------------------------------------------------------------------------
(* What a comment of the code says, and the code does not do. *)

\* citations.py: a citation that corresponds to nothing collected is reported.
CitedWasCollected == answered => result.answer \subseteq result.refs

=============================================================================
