-------------------------- MODULE MCProfileSwitch --------------------------
EXTENDS ProfileSwitch, TLC
CONSTANTS a1, a2

Bounds(new, r, c, f, l, m) ==
    [fresh |-> new, requests |-> r, crashes |-> c, faults |-> f,
     logins |-> l, minted |-> m]

CrashAndSignIn == Bounds(TRUE, 1, 1, 0, 1, 1)
FaultAndSignIn == Bounds(FALSE, 1, 0, 1, 1, 1)
FaultAndCrash  == Bounds(FALSE, 1, 1, 1, 0, 0)
Pairs == {CrashAndSignIn, FaultAndSignIn, FaultAndCrash}
============================================================================
