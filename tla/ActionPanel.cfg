SPECIFICATION Spec
CONSTANTS
    p1 = p1  p2 = p2  k1 = k1  k2 = k2  x1 = x1  x2 = x2  r1 = r1  r2 = r2  q1 = q1  q2 = q2
    alice = alice  root = root
    ActionCalls = {p1, p2, k1, k2, x1, x2}
    Questions = {r1, r2, q1, q2}
    KindOf <- MCKinds
    Scripts <- MCScripts
    ActionIds = {a1, a2}
    Users = {alice, root}
    Admins = {root}
    FirstUser = root
    NoId = NoId  NoRow = NoRow  NoCall = NoCall  NoReply = NoReply  NoUser = NoUser
    MaxSwitches = 1
    MaxReloads = 1
    MaxFaults = 1
CHECK_DEADLOCK FALSE
INVARIANTS
    ClickActsOnWhatIsShown
    OneRequestPerStep
    CardIsCurrent
    RadarShowsLastRun
PROPERTIES
    PanelsSettle
    KeepsToLedger
