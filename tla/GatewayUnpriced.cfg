SPECIFICATION Spec
CONSTANTS
    sonnet = sonnet  haiku = haiku  mock_model = mock_model
    Models = {sonnet, haiku, mock_model}
    CandidateLists <- DefaultList
    Priced = {haiku, mock_model}
    max_retries = 2
    MaxCompletes = 2
INVARIANT UnpricedNotBlocked
