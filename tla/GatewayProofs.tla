--------------------------- MODULE GatewayProofs ---------------------------
(***************************************************************************)
(* The gateway's invariants for every list of candidates, every number of  *)
(* retries and every pricing table.                                        *)
(***************************************************************************)
EXTENDS LlmGateway, TLAPS

\* A gateway is built from at least one candidate.
LEMMA SomeCandidate ==
    ASSUME TypeOK
    PROVE  candidates \in Seq(Candidate) /\ Len(candidates) \in Nat /\ Len(candidates) >= 1
BY GatewayConstants DEF TypeOK

\* The types depend on the list of candidates, which never changes.
LEMMA SameTypes ==
    ASSUME UNCHANGED candidates
    PROVE  Indices' = Indices /\ ProviderAttempt' = ProviderAttempt
             /\ GatewayRunInfo' = GatewayRunInfo
BY DEF Indices, ProviderAttempt, GatewayRunInfo

\* Initially nothing has been called.
LEMMA GatewayInit == Init => GatewayInv
<1>1. SUFFICES ASSUME Init PROVE GatewayInv
  OBVIOUS
<1>2. candidates \in Seq(Candidate) /\ Len(candidates) \in Nat /\ Len(candidates) >= 1
  BY <1>1, GatewayConstants DEF Init
<1>3. <<>> \in Seq(ProviderAttempt) /\ NoRun \in GatewayRunInfo
  BY DEF NoRun, GatewayRunInfo
<1>6. TypeOK
  <2>1. produced \in BOOLEAN
    BY <1>1 DEF Init
  <2>2. sent \in [Indices -> Nat]
    BY <1>1 DEF Init
  <2>3. attempts \in Seq(ProviderAttempt) /\ last_run \in GatewayRunInfo
    BY <1>1, <1>3 DEF Init
  <2>4. QED
    BY <1>1, <1>2, <2>1, <2>2, <2>3 DEF Init, TypeOK, Replies
<1>4. CallsBounded /\ FallbackInOrder /\ NoSilentFallback
  BY <1>1, <1>2, GatewayConstants
  DEF Init, CallsBounded, FallbackInOrder, NoSilentFallback, Indices
<1>5. QED
  BY <1>1, <1>4, <1>6 DEF GatewayInv, Init, Running, AtCandidate, InProvider

\* A new complete() starts from a clean slate.
LEMMA CompleteStep == GatewayInv /\ complete => GatewayInv'
<1>1. SUFFICES ASSUME GatewayInv, complete PROVE GatewayInv'
  OBVIOUS
<1>2. Len(candidates) \in Nat /\ Len(candidates) >= 1
  BY <1>1, SomeCandidate DEF GatewayInv
<1>3. TypeOK'
  <2>1. UNCHANGED candidates
    BY <1>1 DEF complete
  <2>2. attempts' \in Seq(ProviderAttempt)
    <3>1. <<>> \in Seq(ProviderAttempt)
      OBVIOUS
    <3>2. QED
      BY <1>1, <3>1 DEF complete
  <2>3. sent' \in [Indices -> Nat] /\ produced' \in BOOLEAN
    BY <1>1 DEF complete
  <2>4. completes' \in Nat /\ index' \in 1 .. Len(candidates) + 1
    BY <1>1, <1>2 DEF GatewayInv, TypeOK, complete
  <2>5. QED
    BY <1>1, <2>1, <2>2, <2>3, <2>4, SameTypes DEF GatewayInv, complete, TypeOK, Replies
<1>4. (CallsBounded /\ FallbackInOrder /\ NoSilentFallback)'
  BY <1>1, <1>2, GatewayConstants
  DEF GatewayInv, complete, CallsBounded, FallbackInOrder, NoSilentFallback, Indices, TypeOK
<1>5. (Running /\ AtCandidate /\ InProvider)'
  BY <1>1, <1>2 DEF GatewayInv, complete, Running, AtCandidate, InProvider, Indices, TypeOK
<1>6. QED
  BY <1>3, <1>4, <1>5 DEF GatewayInv

\* Entering a provider changes nothing that was counted.
LEMMA CallAnthropicStep == GatewayInv /\ CallAnthropic => GatewayInv'
<1>1. SUFFICES ASSUME GatewayInv, CallAnthropic PROVE GatewayInv'
  OBVIOUS
<1>2. Len(candidates) \in Nat /\ Len(candidates) >= 1
  BY <1>1, SomeCandidate DEF GatewayInv
<1>3. TypeOK'
  <2>1. UNCHANGED candidates
    BY <1>1 DEF CallAnthropic
  <2>2. QED
    BY <1>1, <2>1, SameTypes DEF GatewayInv, CallAnthropic, TypeOK
<1>4. (CallsBounded /\ FallbackInOrder /\ NoSilentFallback)'
  BY <1>1, <1>2, GatewayConstants
  DEF GatewayInv, CallAnthropic, CallsBounded, FallbackInOrder, NoSilentFallback, Running, Indices,
      TypeOK
<1>5. (Running /\ AtCandidate /\ InProvider)'
  BY <1>1, <1>2, GatewayConstants
  DEF GatewayInv, CallAnthropic, Running, AtCandidate, InProvider, Indices, TypeOK
<1>6. QED
  BY <1>3, <1>4, <1>5 DEF GatewayInv

\* The list of attempts with one more is a list of attempts.
LEMMA AttemptedType ==
    ASSUME GatewayInv, index \in Indices, pc # "idle", NEW s \in BOOLEAN, NEW r \in BOOLEAN
    PROVE  /\ Attempted(s, r) \in Seq(ProviderAttempt)
           /\ Len(Attempted(s, r)) = index
           /\ \A n \in 1 .. index - 1 : Attempted(s, r)[n] = attempts[n]
           /\ Attempted(s, r)[index].candidate = index
           /\ Attempted(s, r)[index].retryable <=> r
<1>1. attempts \in Seq(ProviderAttempt) /\ Len(attempts) = index - 1 /\ index \in Nat
  BY DEF GatewayInv, TypeOK, Running, Indices
<1>2. [candidate |-> index, success |-> s, retryable |-> r] \in ProviderAttempt
  BY DEF ProviderAttempt
<1>3. /\ Attempted(s, r) \in Seq(ProviderAttempt)
      /\ Len(Attempted(s, r)) = index
      /\ \A n \in 1 .. index - 1 : Attempted(s, r)[n] = attempts[n]
      /\ Attempted(s, r)[index] = [candidate |-> index, success |-> s, retryable |-> r]
  BY <1>1, <1>2 DEF Attempted
<1>4. Attempted(s, r)[index].candidate = index
  BY <1>3
<1>5. Attempted(s, r)[index].retryable = r
  BY <1>3
<1>6. QED
  BY <1>3, <1>4, <1>5, Zenon

\* An answer ends complete() with a record of every candidate tried.
LEMMA SucceedsKept ==
    ASSUME GatewayInv, index \in Indices, pc # "idle", Succeeds,
           UNCHANGED <<candidates, attempt, completes, sent, produced>>
    PROVE  GatewayInv'
<1>1. Len(candidates) \in Nat /\ Len(candidates) >= 1 /\ index \in Nat /\ index >= 1
  BY SomeCandidate DEF GatewayInv, TypeOK, Indices
<1>2. /\ Indices' = Indices /\ ProviderAttempt' = ProviderAttempt
      /\ GatewayRunInfo' = GatewayRunInfo
  BY SameTypes
<1>3. /\ Attempted(TRUE, FALSE) \in Seq(ProviderAttempt)
      /\ Len(Attempted(TRUE, FALSE)) = index
      /\ \A n \in 1 .. index - 1 : Attempted(TRUE, FALSE)[n] = attempts[n]
      /\ Attempted(TRUE, FALSE)[index].candidate = index
  BY AttemptedType
<1>4. /\ Len(attempts) = index - 1
      /\ \A n \in 1 .. index - 1 : attempts[n].candidate = n /\ attempts[n].retryable
  BY DEF GatewayInv, Running
<1>5. fallback_used(index) <=> index # 1
  BY <1>1 DEF fallback_used
<1>6. /\ pc' = "idle" /\ reply' = "answer" /\ index' = index
      /\ attempts' = Attempted(TRUE, FALSE)
      /\ last_run'.provider_attempts = Attempted(TRUE, FALSE)
      /\ last_run'.fallback_used = fallback_used(index)
      /\ last_run' \in GatewayRunInfo
  <2>1. fallback_used(index) => attempts[1].candidate \in Indices
    BY <1>1, <1>4, <1>5 DEF Indices
  <2>2. fallback_used(index) \in BOOLEAN
    BY <1>1 DEF fallback_used
  <2>3. (IF fallback_used(index) THEN attempts[1].candidate ELSE 0) \in Indices \cup {0}
    BY <2>1
  <2>4. [provider_attempts |-> Attempted(TRUE, FALSE), fallback_used |-> fallback_used(index),
         fallback_reason |-> IF fallback_used(index) THEN attempts[1].candidate ELSE 0]
          \in GatewayRunInfo
    BY <1>3, <2>2, <2>3, Zenon DEF GatewayRunInfo
  <2>5. QED
    BY <2>4, Zenon DEF Succeeds, Ends
<1>7. TypeOK'
  BY <1>2, <1>3, <1>6 DEF GatewayInv, TypeOK, Replies
<1>8. CallsBounded'
  BY <1>2 DEF GatewayInv, CallsBounded
<1>9. FallbackInOrder'
  <2>1. ASSUME NEW n \in 1 .. Len(attempts')
        PROVE  /\ attempts'[n].candidate = n
               /\ n < Len(attempts') => attempts'[n].retryable
    <3>1. n \in 1 .. index /\ Len(attempts') = index
      BY <1>3, <1>6
    <3>2. CASE n = index
      <4>1. attempts'[n].candidate = n
        BY <1>3, <1>6, <3>2, Zenon
      <4>2. ~(n < Len(attempts'))
        BY <1>1, <3>1, <3>2
      <4>3. QED
        BY <4>1, <4>2
    <3>3. CASE n # index
      <4>1. n \in 1 .. index - 1
        BY <1>1, <3>1, <3>3
      <4>2. attempts'[n] = attempts[n] /\ attempts[n].candidate = n /\ attempts[n].retryable
        BY <1>3, <1>4, <1>6, <4>1
      <4>3. QED
        BY <4>2
    <3>4. QED
      BY <3>2, <3>3
  <2>2. \A k \in Indices : sent[k] > 0 => k <= index
    BY DEF GatewayInv, FallbackInOrder
  <2>3. QED
    BY <1>2, <1>6, <2>1, <2>2 DEF FallbackInOrder
<1>10. NoSilentFallback'
  <2>1. Len(last_run'.provider_attempts) = index'
    BY <1>3, <1>6
  <2>2. last_run'.fallback_used <=> index' # 1
    BY <1>5, <1>6, Zenon
  <2>3. \A k \in 1 .. index - 1 : candidates[k].provider = "anthropic" /\ sent[k] = max_retries + 1
    BY <1>1 DEF GatewayInv, Running, Indices
  <2>4. QED
    BY <1>6, <2>1, <2>2, <2>3 DEF NoSilentFallback
<1>11. (Running /\ AtCandidate /\ InProvider)'
  BY <1>6 DEF Running, AtCandidate, InProvider
<1>12. QED
  BY <1>7, <1>8, <1>9, <1>10, <1>11 DEF GatewayInv

\* A failure either moves on, past a transient failure, or ends complete(). In
\* the first case the failing candidate has used up its retries.
LEMMA RaisesKept ==
    ASSUME GatewayInv, pc \in {"create", "price"}, NEW exc \in Failures, ProviderRaises(exc),
           UNCHANGED <<candidates, attempt, completes>>,
           produced' \in BOOLEAN, sent' \in [Indices -> Nat],
           \A k \in Indices : k # index => sent'[k] = sent[k],
           sent'[index] <= max_retries + 1,
           exc = "transient" => sent'[index] = max_retries + 1
    PROVE  GatewayInv'
<1> DEFINE r == is_retryable_provider_error(exc)
<1>1. /\ Len(candidates) \in Nat /\ Len(candidates) >= 1 /\ index \in Nat /\ index >= 1
      /\ index \in Indices /\ candidates[index].provider = "anthropic"
      /\ r \in BOOLEAN /\ (r <=> exc = "transient")
  BY SomeCandidate DEF GatewayInv, TypeOK, InProvider, Indices, is_retryable_provider_error
<1>2. /\ Indices' = Indices /\ ProviderAttempt' = ProviderAttempt
      /\ GatewayRunInfo' = GatewayRunInfo
  BY SameTypes
<1>3. /\ Attempted(FALSE, r) \in Seq(ProviderAttempt)
      /\ Len(Attempted(FALSE, r)) = index
      /\ \A n \in 1 .. index - 1 : Attempted(FALSE, r)[n] = attempts[n]
      /\ Attempted(FALSE, r)[index].candidate = index
      /\ Attempted(FALSE, r)[index].retryable <=> r
  BY <1>1, AttemptedType
<1>4. /\ Len(attempts) = index - 1 /\ reply = "none"
      /\ \A n \in 1 .. index - 1 : attempts[n].candidate = n /\ attempts[n].retryable
  BY DEF GatewayInv, Running
<1>5. /\ attempts' \in Seq(ProviderAttempt) /\ Len(attempts') = index
      /\ \A n \in 1 .. index - 1 : attempts'[n] = attempts[n]
      /\ attempts'[index].candidate = index
      /\ attempts'[index].retryable <=> r
  <2>1. attempts' = Attempted(FALSE, r)
    BY Zenon DEF ProviderRaises, Ends
  <2>2. QED
    BY <1>3, <2>1, Zenon
<1>6. CallsBounded'
  BY <1>2 DEF GatewayInv, CallsBounded
<1>7. \A n \in 1 .. index : attempts'[n].candidate = n /\ (n < index => attempts'[n].retryable)
  <2>1. ASSUME NEW n \in 1 .. index
        PROVE  attempts'[n].candidate = n /\ (n < index => attempts'[n].retryable)
    <3>1. CASE n = index
      BY <1>1, <1>5, <3>1
    <3>2. CASE n # index
      <4>1. n \in 1 .. index - 1
        BY <1>1, <3>2
      <4>2. attempts'[n] = attempts[n] /\ attempts[n].candidate = n /\ attempts[n].retryable
        BY <1>4, <1>5, <4>1
      <4>3. QED
        BY <4>2
    <3>3. QED
      BY <3>1, <3>2
  <2>2. QED
    BY <2>1
<1>8. \A k \in Indices : sent'[k] > 0 => k <= index
  BY <1>1 DEF GatewayInv, FallbackInOrder, TypeOK, Indices
<1>9. \A k \in Indices : k < index =>
          candidates[k].provider = "anthropic" /\ sent'[k] = max_retries + 1
  BY <1>1 DEF GatewayInv, Running, Indices
<1>10. CASE r
  <2>1. /\ pc' = "candidate" /\ index' = index + 1
        /\ UNCHANGED <<reply, last_run>>
    BY <1>10, Zenon DEF ProviderRaises
  <2>2. TypeOK'
    <3>1. index' \in 1 .. Len(candidates) + 1
      BY <1>1, <2>1 DEF Indices
    <3>2. QED
      BY <1>2, <1>3, <1>5, <2>1, <3>1 DEF GatewayInv, TypeOK
  <2>3. attempts'[index].retryable
    BY <1>5, <1>10
  <2>4. \A n \in 1 .. index : attempts'[n].candidate = n /\ attempts'[n].retryable
    <3>1. ASSUME NEW n \in 1 .. index PROVE attempts'[n].retryable
      <4>1. CASE n = index
        BY <2>3, <4>1
      <4>2. CASE n # index
        BY <1>1, <1>7, <4>2
      <4>3. QED
        BY <4>1, <4>2
    <3>2. QED
      BY <1>7, <3>1
  <2>5. FallbackInOrder'
    <3>1. Len(attempts') = index
      BY <1>3, <1>5
    <3>2. \A k \in Indices' : sent'[k] > 0 => k <= index'
      BY <1>1, <1>2, <1>8, <2>1 DEF Indices
    <3>3. QED
      BY <2>4, <3>1, <3>2 DEF FallbackInOrder
  <2>6. (NoSilentFallback /\ InProvider)'
    BY <1>4, <2>1 DEF NoSilentFallback, InProvider
  <2>7. Running'
    <3>1. Len(attempts') = index' - 1
      BY <1>1, <1>5, <2>1
    <3>2. \A k \in Indices : k < index' =>
              candidates[k].provider = "anthropic" /\ sent'[k] = max_retries + 1
      BY <1>1, <1>9, <1>10, <2>1 DEF Indices
    <3>3. QED
      BY <1>1, <1>2, <1>4, <2>1, <2>4, <3>1, <3>2 DEF Running
  <2>8. AtCandidate'
    BY <1>1, <1>2, <1>8, <2>1 DEF AtCandidate, Indices
  <2>9. QED
    BY <1>6, <2>2, <2>5, <2>6, <2>7, <2>8 DEF GatewayInv
<1>11. CASE ~r
  <2>1. /\ pc' = "idle" /\ index' = index /\ reply' = "NonRetryableProviderError"
        /\ last_run' = [provider_attempts |-> Attempted(FALSE, r), fallback_used |-> FALSE,
                        fallback_reason |-> index]
    BY <1>11, Zenon DEF ProviderRaises, Ends
  <2>2. TypeOK'
    <3>1. last_run' \in GatewayRunInfo
      BY <1>1, <1>3, <2>1 DEF GatewayRunInfo
    <3>2. QED
      BY <1>2, <1>3, <1>5, <2>1, <3>1 DEF GatewayInv, TypeOK, Replies
  <2>3. FallbackInOrder'
    BY <1>2, <1>3, <1>5, <1>7, <1>8, <2>1 DEF FallbackInOrder
  <2>4. (NoSilentFallback /\ Running /\ AtCandidate /\ InProvider)'
    BY <2>1 DEF NoSilentFallback, Running, AtCandidate, InProvider
  <2>5. QED
    BY <1>6, <2>2, <2>3, <2>4 DEF GatewayInv
<1>12. QED
  BY <1>1, <1>10, <1>11

\* The mock never fails.
LEMMA CallMockStep == GatewayInv /\ CallMock => GatewayInv'
BY SucceedsKept DEF CallMock

\* Every candidate has failed, so the list has been tried to its end.
LEMMA AllFailedStep == GatewayInv /\ AllFailed => GatewayInv'
<1>1. SUFFICES ASSUME GatewayInv, AllFailed PROVE GatewayInv'
  OBVIOUS
<1>2. Len(candidates) \in Nat /\ Len(candidates) >= 1 /\ index = Len(candidates) + 1
  BY <1>1, SomeCandidate DEF GatewayInv, AllFailed
<1>3. /\ Indices' = Indices /\ ProviderAttempt' = ProviderAttempt
      /\ GatewayRunInfo' = GatewayRunInfo
  BY <1>1, SameTypes DEF AllFailed
<1>4. /\ pc' = "idle" /\ reply' = "AllProvidersFailedError" /\ attempts' = attempts
      /\ last_run' = [provider_attempts |-> attempts, fallback_used |-> Len(attempts) > 1,
                      fallback_reason |-> attempts[1].candidate]
      /\ UNCHANGED <<candidates, index, attempt, completes, sent, produced>>
  BY <1>1 DEF AllFailed, Ends
<1>5. /\ Len(attempts) = index - 1
      /\ \A n \in 1 .. Len(attempts) : attempts[n].candidate = n /\ attempts[n].retryable
  BY <1>1 DEF GatewayInv, Running, AllFailed
<1>6. TypeOK'
  <2>1. attempts[1].candidate \in Indices
    BY <1>2, <1>5 DEF Indices
  <2>2. attempts \in Seq(ProviderAttempt) /\ (Len(attempts) > 1) \in BOOLEAN
    BY <1>1 DEF GatewayInv, TypeOK
  <2>3. last_run' \in GatewayRunInfo
    BY <1>4, <2>1, <2>2 DEF GatewayRunInfo
  <2>4. QED
    BY <1>1, <1>3, <1>4, <2>3 DEF GatewayInv, TypeOK, Replies
<1>7. (CallsBounded /\ FallbackInOrder)'
  BY <1>1, <1>3, <1>4 DEF GatewayInv, CallsBounded, FallbackInOrder
<1>8. (NoSilentFallback /\ Running /\ AtCandidate /\ InProvider)'
  BY <1>4 DEF NoSilentFallback, Running, AtCandidate, InProvider
<1>9. QED
  BY <1>6, <1>7, <1>8 DEF GatewayInv

\* A call to the API is counted for the candidate that makes it and no other.
LEMMA SendCounts ==
    ASSUME GatewayInv, pc = "create", Send
    PROVE  /\ index \in Indices /\ attempt \in Nat /\ attempt <= max_retries
           /\ max_retries \in Nat
           /\ sent' \in [Indices -> Nat] /\ sent'[index] = attempt + 1
           /\ \A k \in Indices : k # index => sent'[k] = sent[k]
BY GatewayConstants DEF GatewayInv, TypeOK, InProvider, Send, Indices

\* As long as the provider goes on, a call disturbs nothing but its own count.
LEMMA SendKept ==
    ASSUME GatewayInv, pc = "create", pc' \in {"create", "price"}, Send,
           UNCHANGED <<candidates, index, attempts, last_run, reply, completes>>,
           attempt' \in Nat, produced' \in BOOLEAN
    PROVE  (TypeOK /\ CallsBounded /\ FallbackInOrder /\ NoSilentFallback /\ Running /\ AtCandidate)'
<1>1. /\ index \in Indices /\ attempt \in Nat /\ attempt <= max_retries /\ max_retries \in Nat
      /\ sent' \in [Indices -> Nat] /\ sent'[index] = attempt + 1
      /\ \A k \in Indices : k # index => sent'[k] = sent[k]
  BY SendCounts
<1>2. /\ Indices' = Indices /\ ProviderAttempt' = ProviderAttempt
      /\ GatewayRunInfo' = GatewayRunInfo
  BY SameTypes
<1>3. /\ reply = "none" /\ Len(attempts) = index - 1
      /\ \A n \in 1 .. Len(attempts) : attempts[n].candidate = n /\ attempts[n].retryable
      /\ \A k \in Indices : k < index =>
            candidates[k].provider = "anthropic" /\ sent[k] = max_retries + 1
  BY DEF GatewayInv, Running
<1>4. index \in Nat
  BY <1>1 DEF Indices
<1>5. TypeOK'
  BY <1>1, <1>2 DEF GatewayInv, TypeOK
<1>6. CallsBounded'
  BY <1>1, <1>2 DEF GatewayInv, CallsBounded
<1>7. FallbackInOrder'
  <2>1. \A k \in Indices : sent'[k] > 0 => k <= index
    BY <1>1, <1>4 DEF GatewayInv, FallbackInOrder, Indices
  <2>2. QED
    BY <1>2, <1>3, <2>1 DEF FallbackInOrder
<1>8. Running'
  <2>1. \A k \in Indices : k < index =>
            candidates[k].provider = "anthropic" /\ sent'[k] = max_retries + 1
    BY <1>1, <1>3, <1>4 DEF Indices
  <2>2. QED
    BY <1>2, <1>3, <2>1 DEF Running
<1>9. (NoSilentFallback /\ AtCandidate)'
  BY <1>3 DEF NoSilentFallback, AtCandidate
<1>10. QED
  BY <1>5, <1>6, <1>7, <1>8, <1>9

\* An answer of the API goes on to be priced.
LEMMA CreatedStep == GatewayInv /\ Created => GatewayInv'
<1>1. SUFFICES ASSUME GatewayInv, Created PROVE GatewayInv'
  OBVIOUS
<1>2. attempt' \in Nat /\ produced' \in BOOLEAN
  BY <1>1 DEF GatewayInv, TypeOK, Created
<1>3. (TypeOK /\ CallsBounded /\ FallbackInOrder /\ NoSilentFallback /\ Running /\ AtCandidate)'
  BY <1>1, <1>2, SendKept DEF Created
<1>4. InProvider'
  BY <1>1, SendCounts DEF GatewayInv, InProvider, Created, Indices
<1>5. QED
  BY <1>3, <1>4 DEF GatewayInv

\* A retry is one more call and one more attempt, and the last one is max_retries.
LEMMA RetryStep == GatewayInv /\ Retry => GatewayInv'
<1>1. SUFFICES ASSUME GatewayInv, Retry PROVE GatewayInv'
  OBVIOUS
<1>2. attempt' \in Nat /\ produced' \in BOOLEAN
  BY <1>1 DEF GatewayInv, TypeOK, Retry
<1>3. (TypeOK /\ CallsBounded /\ FallbackInOrder /\ NoSilentFallback /\ Running /\ AtCandidate)'
  BY <1>1, <1>2, SendKept DEF Retry
<1>4. InProvider'
  BY <1>1, SendCounts DEF GatewayInv, InProvider, Retry, Indices, is_last_attempt
<1>5. QED
  BY <1>3, <1>4 DEF GatewayInv

\* A provider that gives up on a transient failure has made all its attempts.
LEMMA GiveUpStep == GatewayInv /\ GiveUp => GatewayInv'
<1>1. SUFFICES ASSUME GatewayInv, GiveUp PROVE GatewayInv'
  OBVIOUS
<1>2. /\ attempt \in Nat /\ attempt <= max_retries /\ max_retries \in Nat
      /\ sent' \in [Indices -> Nat] /\ sent'[index] = attempt + 1
      /\ \A k \in Indices : k # index => sent'[k] = sent[k]
  BY <1>1, SendCounts DEF GiveUp
<1>3. PICK exc \in Failures :
          /\ attempt = max_retries \/ exc # "transient"
          /\ ProviderRaises(exc)
  BY <1>1 DEF GiveUp, is_last_attempt, is_retryable_provider_error
<1>4. produced' \in BOOLEAN
  BY <1>1 DEF GatewayInv, TypeOK, GiveUp
<1>5. UNCHANGED <<candidates, attempt, completes>> /\ pc \in {"create", "price"}
  BY <1>1 DEF GiveUp
<1>6. sent'[index] <= max_retries + 1 /\ (exc = "transient" => sent'[index] = max_retries + 1)
  BY <1>2, <1>3
<1>7. QED
  BY <1>1, <1>2, <1>3, <1>4, <1>5, <1>6, RaisesKept

\* Pricing returns the answer or, for an unknown model, ends complete().
LEMMA PriceStep == GatewayInv /\ Price => GatewayInv'
<1>1. SUFFICES ASSUME GatewayInv, Price PROVE GatewayInv'
  OBVIOUS
<1>2. index \in Indices /\ pc = "price" /\ UNCHANGED <<candidates, attempt, completes, sent, produced>>
  BY <1>1 DEF GatewayInv, InProvider, Price
<1>3. CASE Succeeds
  BY <1>1, <1>2, <1>3, SucceedsKept
<1>4. CASE ProviderRaises("permanent")
  <2>1. sent' \in [Indices -> Nat] /\ produced' \in BOOLEAN
    BY <1>1, <1>2 DEF GatewayInv, TypeOK
  <2>2. sent'[index] <= max_retries + 1 /\ \A k \in Indices : k # index => sent'[k] = sent[k]
    BY <1>1, <1>2 DEF GatewayInv, CallsBounded
  <2>3. "permanent" \in Failures /\ "permanent" # "transient"
    BY DEF Failures
  <2>4. QED
    BY <1>1, <1>2, <1>4, <2>1, <2>2, <2>3, RaisesKept
<1>5. QED
  BY <1>1, <1>3, <1>4 DEF Price

\* Every step keeps the invariant.
LEMMA GatewayStep == GatewayInv /\ [Next]_vars => GatewayInv'
<1>1. ASSUME GatewayInv, UNCHANGED vars
      PROVE  GatewayInv'
  <2>1. UNCHANGED <<candidates, pc, index, attempt, attempts, last_run, reply, completes, sent,
                    produced>>
    BY <1>1 DEF vars
  <2>2. /\ Indices' = Indices /\ ProviderAttempt' = ProviderAttempt
        /\ GatewayRunInfo' = GatewayRunInfo
    BY <2>1, SameTypes
  <2>3. TypeOK'
    BY <1>1, <2>1, <2>2 DEF GatewayInv, TypeOK
  <2>4. CallsBounded' /\ FallbackInOrder'
    BY <1>1, <2>1, <2>2 DEF GatewayInv, CallsBounded, FallbackInOrder
  <2>5. NoSilentFallback'
    BY <1>1, <2>1 DEF GatewayInv, NoSilentFallback
  <2>6. Running'
    BY <1>1, <2>1, <2>2 DEF GatewayInv, Running
  <2>7. AtCandidate' /\ InProvider'
    BY <1>1, <2>1, <2>2 DEF GatewayInv, AtCandidate, InProvider
  <2>8. QED
    BY <2>3, <2>4, <2>5, <2>6, <2>7 DEF GatewayInv
<1>2. QED
  BY <1>1, CompleteStep, CallAnthropicStep, CallMockStep, AllFailedStep, CreatedStep, RetryStep,
     GiveUpStep, PriceStep
  DEF Next, Loop, Quiescent

\* GatewayInv holds in every behaviour, for every list of candidates.
THEOREM GatewayInvariant == Spec => []GatewayInv
BY GatewayInit, GatewayStep, PTL DEF Spec

\* Every variable keeps its type.
THEOREM GatewayTypes == Spec => []TypeOK
BY GatewayInvariant, PTL DEF GatewayInv

\* Retries nested under fallback never call a candidate more than
\* max_retries + 1 times in one complete().
THEOREM CallsAreBounded == Spec => []CallsBounded
BY GatewayInvariant, PTL DEF GatewayInv

\* Candidates are tried in order and only past transient failures.
THEOREM FallbackIsOrdered == Spec => []FallbackInOrder
BY GatewayInvariant, PTL DEF GatewayInv

\* A fallback answer is marked as one and comes after every earlier provider
\* has used up its retries.
THEOREM FallbackIsNeverSilent == Spec => []NoSilentFallback
BY GatewayInvariant, PTL DEF GatewayInv

=============================================================================
