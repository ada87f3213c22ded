SPECIFICATION FairSpec
CONSTANTS
    Clients = {}
    MaxKey = 2
    MaxCrashes = 2
    MaxFaults = 0
    OperatorWhilePending = FALSE
PROPERTY AlwaysRecovers
