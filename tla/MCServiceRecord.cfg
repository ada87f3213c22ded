SPECIFICATION Spec
CHECK_DEADLOCK FALSE
CONSTANTS
    t1 = t1  t2 = t2  t3 = t3
    Trees = {t1, t2, t3}
    Commands = {"start", "restart"}
    Settings <- JustRestarts
INVARIANT LiveTreeIsRecorded
