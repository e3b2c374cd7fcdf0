SPECIFICATION Spec
CONSTANTS
    acme = acme  zeta = zeta  t1 = t1  t2 = t2  o1 = o1  o2 = o2  swift = swift
    ki1 = ki1  ki2 = ki2  word1 = word1  word2 = word2  word3 = word3  growth = growth
    admin = admin  agent = agent  restricted = restricted
    Accounts = {acme, zeta}
    Plans = {growth}
    Tickets = {t1, t2}
    Tokens = {word1, word2, word3}
    Overrides = {zeta}
    Policy = Policy
    NoExpiry = NoExpiry
    NoAccount = NoAccount
    NoPlan = NoPlan
    DAY = 24
    Orders = {o1, o2}
    Carriers = {swift}
    KnownIssues = {ki1, ki2}
    Datasets <- MCDatasets
    Users = {admin, agent, restricted}
    RoleOf <- MCRoles
    ScopeOf <- MCScopes
    Unrestricted = Unrestricted
    NoTime = NoTime
    Windows = {1, 2}
    Selections <- MCSelections
    AskedScopes <- MCAsked
    DEFAULT_WINDOW_DAYS = 2
    RECURRING_THRESHOLD = 2
    CARRIER_THRESHOLD = 2
    MIN_OCCURRENCES = 1
    MIN_SHARED_TOKENS = 2
    Nothing = Nothing
    FeeOverrides = {zeta}
    CreditOverrides = {zeta}
    FeeRules <- MCFeeRules
    CreditRules <- MCCreditRules
    MANAGER_APPROVAL = 1000
    NoAmount = NoAmount
    Ahead = {1, 2, 4, 24}
    MaxRedeploys = 1
INVARIANTS
    OnlyOwnAccountsShow
    NothingLostToDuplicates
    WiderSeesMore
    LastQuarterShownOnce
    LinksKeepTheirMeaning
    ConfidentIsFinal
    WaiverStopsAtPickup
    CreditMeansOverdue
