SPECIFICATION Spec
CONSTANTS
    Clients = {c1}
    MaxKey = 2
    MaxCrashes = 1
    MaxFaults = 0
    OperatorWhilePending = TRUE
INVARIANT IntentKept
