----------------------------- MODULE MCGateway -----------------------------
(* Gateways over two models of the API and the mock, for TLC. *)
EXTENDS LlmGateway

CONSTANTS sonnet, haiku, mock_model

Live(model) == [provider |-> "anthropic", model |-> model]
Mock == [provider |-> "mock", model |-> mock_model]

\* The list of build_default_provider, and longer ones with and without the mock.
MCLists ==
    {<<Live(sonnet), Mock>>, <<Live(haiku), Live(sonnet), Mock>>, <<Live(haiku), Live(haiku)>>}
DefaultList == {<<Live(sonnet), Mock>>}

=============================================================================
