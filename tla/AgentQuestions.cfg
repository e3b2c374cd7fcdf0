SPECIFICATION Spec
CONSTANTS
    o1 = o1  o2 = o2  t1 = t1  acme = acme  zeta = zeta
    policy = policy  agreement = agreement  invented = invented
    Orders = {o1, o2}
    TicketIds = {t1}
    Accounts = {acme, zeta}
    Absent = Absent
    Unrestricted = Unrestricted
    Questions <- AllQuestions
    CallerScopes <- AllScopes
    InitOwners <- MCOwners
    Docs = {policy, agreement}
    DocScope <- MCDocScope
    Answers <- MCAnswers
    NoAnswer = NoAnswer
    Retryable = {}
    MAX_RETRIES = 2
    TOOL_TIMEOUT = 1
    MAX_WALL_CLOCK = 2
    MAX_TOOL_CALLS = 5
    MAX_ITERATIONS = 5
    MAX_LLM_CALLS = 2
    MaxElapsed = 0
    MaxChanges = 1
INVARIANTS
    TypeOK
    AnswersAreGrounded
    RefusalShowsNothing
    HiddenRecordsDoNotShow
    WorstFindingShows
