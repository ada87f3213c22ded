SPECIFICATION Spec
CONSTANTS
    k1 = k1  k2 = k2  r1 = r1  r2 = r2  r3 = r3  r4 = r4  r5 = r5
    s1 = s1  s2 = s2  s3 = s3
    Keys <- TwoKeys
    Requests = {r1, r2, r3, r4, r5}
    Sessions = {s1, s2, s3}
    SessionOf <- ThreeThreads
    Strategy = "round-robin"
    StickyLimit = 2
    MaxSessions = 2
    Attempts = 1
    Threshold = 1
    Responses <- BindingResponses
    Operations = {"pause"}
    Window = 1
    MaxTime = 1
    MaxCommands = 1
    MaxFaults = 0
SYMMETRY SameThread
PROPERTY BindingsMoveForCause
