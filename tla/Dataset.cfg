SPECIFICATION Spec
CONSTANTS
    old = old  new = new  drifted = drifted  dangling = dangling  twice = twice
    i1 = i1  i2 = i2  r1 = r1
    policy = policy  deprecated = deprecated  agreement = agreement
    acme = acme  zeta = zeta  o1 = o1  d1 = d1  d2 = d2
    NoValue = NoValue
    NoPack = NoPack
    Packs = {old, new, drifted, dangling, twice}
    Content <- MCContent
    Ingestions = {i1, i2}
    Requests = {r1}
    Offered = {new, drifted, dangling, twice}
    Prebuilt = {old}
    MaxStarts = 3
    MaxFaults = 1
CHECK_DEADLOCK FALSE
INVARIANTS
    OneDatasetPerRequest
    SnapshotMeansWhole
    ServedIsCoherent
    SuccessIsServed
    AcknowledgedSurvives
PROPERTIES
    RebuildServes
