SPECIFICATION Spec
CONSTANTS
    o1 = o1  o2 = o2  t1 = t1  acme = acme  zeta = zeta
    policy = policy  agreement = agreement  invented = invented
    Orders = {o1, o2}
    TicketIds = {t1}
    Accounts = {acme, zeta}
    Absent = Absent
    Unrestricted = Unrestricted
    Questions <- CancelQuestion
    CallerScopes <- OneScope
    InitOwners <- MCOwners
    Docs = {policy, agreement}
    DocScope <- MCDocScope
    Answers <- MCAnswers
    NoAnswer = NoAnswer
    Retryable = {"search_documents", "lookup_structured_data"}
    MAX_RETRIES = 2
    TOOL_TIMEOUT = 0
    MAX_WALL_CLOCK = 1
    MAX_TOOL_CALLS = 3
    MAX_ITERATIONS = 3
    MAX_LLM_CALLS = 2
    MaxElapsed = 3
    MaxChanges = 0
INVARIANT BudgetsKept
PROPERTY RequestEnds
