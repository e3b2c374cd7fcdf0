SPECIFICATION Spec
CONSTANTS
    p1 = p1  k1 = k1  k2 = k2  x1 = x1  x2 = x2  g1 = g1
    alice = alice  root = root  t1 = t1  acme = acme
    Calls = {p1, k1, k2, x1, x2}
    KindOf <- RaceKinds
    ActionIds = {a1}
    Users = {alice}
    Admins = {}
    Tickets = {t1}
    Accounts = {acme}
    AccountOf <- OneAccountOf
    InitScope <- RaceScope
    SlaSeverity <- OneSeverity
    SlaDeadline <- OneDeadline
    Unclassified = Unclassified
    NoTime = NoTime
    NoRow = NoRow
    NoHash = NoHash
    NoId = NoId
    ACTION_EXPIRY_MINUTES = 0
    MaxNow = 1
    MaxExternal = 1
SYMMETRY RaceSymmetry
INVARIANTS
    OneWinner
    AuditRowMatchesHistory
    HonestReplies
PROPERTY AuditTrailOnlyGrows
