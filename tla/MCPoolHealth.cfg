SPECIFICATION Spec
CONSTANTS
    k1 = k1  k2 = k2  r1 = r1  r2 = r2  r3 = r3  r4 = r4  r5 = r5
    s1 = s1  s2 = s2  s3 = s3
    Keys <- TwoKeys
    Requests = {r1, r2}
    Sessions = {s1, s2}
    SessionOf <- OwnSessions
    Strategy = "quota"
    StickyLimit = 2
    MaxSessions = 1
    Attempts = 2
    Threshold = 1
    Responses <- HealthResponses
    Operations = {"add", "pause", "resume", "remove"}
    Window = 1
    MaxTime = 1
    MaxCommands = 1
    MaxFaults = 1
SYMMETRY Symmetry
INVARIANTS TypeOK AttemptsDistinct FailoverIsRecorded LatestFailureHolds BoundKeysExist LatestQuotaHolds
PROPERTIES OutcomesAccumulate ObservationsAdvance UsableWhenChosen
