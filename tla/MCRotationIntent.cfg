SPECIFICATION FairSpec
CONSTANTS
    Clients = {c1}
    MaxKey = 3
    MaxCrashes = 2
    MaxFaults = 1
    OperatorWhilePending = FALSE
INVARIANT IntentKept
PROPERTY RecoversUnlessWedged
