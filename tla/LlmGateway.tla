----------------------------- MODULE LlmGateway -----------------------------
(***************************************************************************)
(* The LLM gateway of one chat request (app/llm/gateway.py): an ordered    *)
(* list of candidates, tried in turn, over providers that retry by         *)
(* themselves (app/llm/anthropic_provider.py). run_agent calls complete()  *)
(* once to compose an answer and at most once more to repair it, on the    *)
(* same gateway object.                                                    *)
(*                                                                         *)
(* What a call to the API does is free: it answers, fails in a way that    *)
(* may go away, or fails for good. Texts, token counts and delays are left *)
(* out; that an answer has to be priced before it is returned is not.      *)
(***************************************************************************)
EXTENDS Naturals, Sequences

CONSTANTS
    Models,
    CandidateLists, \* the lists of (provider, model) pairs a gateway is built with
    Priced,         \* the models with an entry in pricing.json
    max_retries,    \* LLMRequest.max_retries
    MaxCompletes    \* bound: how often complete() is called

Candidate == [provider: {"anthropic", "mock"}, model: Models]

\* An empty list of candidates is refused by the constructor.
ASSUME GatewayConstants ==
    /\ CandidateLists \subseteq Seq(Candidate) \ {<<>>}
    /\ Priced \subseteq Models
    /\ max_retries \in Nat
    /\ MaxCompletes \in Nat

\* type(exc).__name__ in RETRYABLE_EXCEPTION_NAMES
Failures == {"transient", "permanent"}
is_retryable_provider_error(exc) == exc = "transient"

VARIABLES
    candidates, \* self._candidates
    pc,         \* where complete() is
    index,      \* the candidate the loop is at
    attempt,    \* the attempt of the provider's own loop
    attempts,   \* the local list of ProviderAttempts
    last_run,
    reply,      \* what complete() returned or raised
    completes,  \* how often complete() was called
    sent,       \* history: API calls per candidate in this complete()
    produced    \* history: the API produced an answer in this complete()

vars ==
    <<candidates, pc, index, attempt, attempts, last_run, reply, completes, sent, produced>>

Indices == 1 .. Len(candidates)

ProviderAttempt == [candidate: Indices, success: BOOLEAN, retryable: BOOLEAN]

\* NoRun is last_run = None.
NoRun == [provider_attempts |-> <<>>, fallback_used |-> FALSE, fallback_reason |-> 0]

\* fallback_reason is the error of an attempt, as the attempt's candidate.
GatewayRunInfo ==
    [provider_attempts: Seq(ProviderAttempt), fallback_used: BOOLEAN,
     fallback_reason: Indices \cup {0}]

Replies == {"none", "answer", "NonRetryableProviderError", "AllProvidersFailedError"}

\* Every variable has the type its comment gives it.
TypeOK ==
    /\ candidates \in CandidateLists
    /\ pc \in {"idle", "candidate", "create", "price"}
    /\ index \in 1 .. Len(candidates) + 1
    /\ attempt \in Nat
    /\ attempts \in Seq(ProviderAttempt)
    /\ last_run \in GatewayRunInfo
    /\ reply \in Replies
    /\ completes \in Nat
    /\ sent \in [Indices -> Nat]
    /\ produced \in BOOLEAN

Init ==
    /\ candidates \in CandidateLists
    /\ pc = "idle"
    /\ index = 1
    /\ attempt = 0
    /\ attempts = <<>>
    /\ last_run = NoRun
    /\ reply = "none"
    /\ completes = 0
    /\ sent = [k \in Indices |-> 0]
    /\ produced = FALSE

-----------------------------------------------------------------------------
(* ParcelPilotLLMGateway.complete *)

complete ==
    /\ pc = "idle"
    /\ completes < MaxCompletes
    /\ completes' = completes + 1
    /\ pc' = "candidate"
    /\ index' = 1
    /\ attempts' = <<>>
    /\ reply' = "none"
    /\ sent' = [k \in Indices |-> 0]
    /\ produced' = FALSE
    /\ UNCHANGED <<candidates, attempt, last_run>>

Attempted(success, retryable) ==
    Append(attempts, [candidate |-> index, success |-> success, retryable |-> retryable])

\* complete() ends with run as its record.
Ends(answer, run) ==
    /\ pc' = "idle"
    /\ reply' = answer
    /\ last_run' = run
    /\ attempts' = run.provider_attempts

\* Mutant: the first candidate is not told from the second.
fallback_used_OffByOne(k) == k > 2

\* enumerate counts from 0, index from 1.
fallback_used(k) == k > 1

Succeeds ==
    Ends("answer",
         [provider_attempts |-> Attempted(TRUE, FALSE),
          fallback_used |-> fallback_used(index),
          fallback_reason |-> IF fallback_used(index) THEN attempts[1].candidate ELSE 0])
      /\ UNCHANGED index

\* Mutant: any failure moves on to the next candidate.
ProviderRaises_Always(exc) ==
    /\ pc' = "candidate"
    /\ index' = index + 1
    /\ attempts' = Attempted(FALSE, is_retryable_provider_error(exc))
    /\ UNCHANGED <<reply, last_run>>

\* The except branch: fall over on a transient failure, stop on any other.
ProviderRaises(exc) ==
    LET tried == Attempted(FALSE, is_retryable_provider_error(exc)) IN
    \/ /\ is_retryable_provider_error(exc)
       /\ pc' = "candidate"
       /\ index' = index + 1
       /\ attempts' = tried
       /\ UNCHANGED <<reply, last_run>>
    \/ /\ ~is_retryable_provider_error(exc)
       /\ Ends("NonRetryableProviderError",
               [provider_attempts |-> tried, fallback_used |-> FALSE, fallback_reason |-> index])
       /\ UNCHANGED index

\* The loop is at a candidate of the API: its provider starts over.
CallAnthropic ==
    /\ pc = "candidate"
    /\ index \in Indices
    /\ candidates[index].provider = "anthropic"
    /\ pc' = "create"
    /\ attempt' = 0
    /\ UNCHANGED <<candidates, index, attempts, last_run, reply, completes, sent, produced>>

\* MockProvider needs no network and prices every answer as mock-model.
CallMock ==
    /\ pc = "candidate"
    /\ index \in Indices
    /\ candidates[index].provider = "mock"
    /\ Succeeds
    /\ UNCHANGED <<candidates, attempt, completes, sent, produced>>

\* Mutant: when every candidate has failed, the first is tried again.
AllFailed_StartOver ==
    /\ pc = "candidate"
    /\ index = Len(candidates) + 1
    /\ index' = 1
    /\ attempts' = <<>>
    /\ sent' = [k \in Indices |-> 0]
    /\ UNCHANGED <<candidates, pc, attempt, last_run, reply, completes, produced>>

AllFailed ==
    /\ pc = "candidate"
    /\ index = Len(candidates) + 1
    /\ Ends("AllProvidersFailedError",
            [provider_attempts |-> attempts, fallback_used |-> Len(attempts) > 1,
             fallback_reason |-> attempts[1].candidate])
    /\ UNCHANGED <<candidates, index, attempt, completes, sent, produced>>

-----------------------------------------------------------------------------
(* AnthropicProvider.complete *)

\* Mutant: the retries are counted without the first attempt.
is_last_attempt_Late(n) == n > max_retries

is_last_attempt(n) == n = max_retries

Send == sent' = [sent EXCEPT ![index] = @ + 1]

\* messages.create returns an answer.
Created ==
    /\ pc = "create"
    /\ Send
    /\ produced' = TRUE
    /\ pc' = "price"
    /\ UNCHANGED <<candidates, index, attempt, attempts, last_run, reply, completes>>

\* It fails in a way that may go away, and the provider backs off and tries again.
Retry ==
    /\ pc = "create"
    /\ ~is_last_attempt(attempt)
    /\ Send
    /\ attempt' = attempt + 1
    /\ UNCHANGED <<candidates, pc, index, attempts, last_run, reply, completes, produced>>

\* It raises, and the provider gives up: no attempt is left or none would help.
GiveUp ==
    /\ pc = "create"
    /\ \E exc \in Failures :
          /\ is_last_attempt(attempt) \/ ~is_retryable_provider_error(exc)
          /\ ProviderRaises(exc)
    /\ Send
    /\ UNCHANGED <<candidates, attempt, completes, produced>>

\* The answer is priced: estimate_cost raises KeyError for an unknown model.
Price ==
    /\ pc = "price"
    /\ \/ candidates[index].model \in Priced /\ Succeeds
       \/ candidates[index].model \notin Priced /\ ProviderRaises("permanent")
    /\ UNCHANGED <<candidates, attempt, completes, sent, produced>>

-----------------------------------------------------------------------------
Loop == CallAnthropic \/ CallMock \/ AllFailed \/ Created \/ Retry \/ GiveUp \/ Price

Quiescent == pc = "idle" /\ completes = MaxCompletes /\ UNCHANGED vars

Next == complete \/ Loop \/ Quiescent

\* complete() keeps running: API calls time out and back-off ends.
Spec == Init /\ [][Next]_vars /\ WF_vars(Loop)

-----------------------------------------------------------------------------
(* Properties *)

\* However transient failures, retries and fallback nest, no candidate is
\* called more than max_retries + 1 times in one complete().
CallsBounded == \A k \in Indices : sent[k] <= max_retries + 1

\* Candidates are tried in order and only past transient failures: a permanent
\* failure or an answer is the last thing that happens, and candidates that the
\* loop has not come to are not called (gateway.py: a permanent failure "stops
\* immediately without trying the rest").
FallbackInOrder ==
    /\ \A n \in 1 .. Len(attempts) :
          /\ attempts[n].candidate = n
          /\ n < Len(attempts) => attempts[n].retryable
    /\ \A k \in Indices : sent[k] > 0 => k <= index
    /\ pc # "idle" => \A n \in 1 .. Len(attempts) : attempts[n].retryable

\* last_run tells whose answer was returned: an answer of a later candidate is
\* marked as a fallback, and every earlier candidate of the API has been called
\* as often as its retries allow (factory.py: never silently serving an answer
\* from a provider that was not reached).
NoSilentFallback ==
    reply = "answer" =>
        LET answering == Len(last_run.provider_attempts) IN
        /\ answering = index
        /\ last_run.fallback_used <=> answering # 1
        /\ \A k \in 1 .. answering - 1 :
              candidates[k].provider = "anthropic" /\ sent[k] = max_retries + 1

\* What makes the three invariants inductive. While complete() runs, the
\* candidates before index have failed for all their retries, those after it
\* are untouched, and the provider's own count is the number of calls it made.
Running ==
    pc # "idle" =>
        /\ Len(attempts) = index - 1
        /\ \A n \in 1 .. Len(attempts) : attempts[n].candidate = n /\ attempts[n].retryable
        /\ \A k \in Indices : k < index =>
              candidates[k].provider = "anthropic" /\ sent[k] = max_retries + 1
        /\ reply = "none"

AtCandidate == pc = "candidate" => \A k \in Indices : k >= index => sent[k] = 0

InProvider ==
    pc \in {"create", "price"} =>
        /\ index \in Indices
        /\ candidates[index].provider = "anthropic"
        /\ attempt <= max_retries
        /\ sent[index] = IF pc = "create" THEN attempt ELSE attempt + 1

GatewayInv ==
    TypeOK /\ CallsBounded /\ FallbackInOrder /\ NoSilentFallback
      /\ Running /\ AtCandidate /\ InProvider

\* Every complete() returns or raises.
CompleteEnds == pc # "idle" ~> pc = "idle"

\* budget_enforcement.py: a model without a pricing entry is "not a reason to
\* block the request".
UnpricedNotBlocked == pc = "idle" /\ produced => reply = "answer"

=============================================================================
