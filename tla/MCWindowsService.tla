------------------------- MODULE MCWindowsService -------------------------
EXTENDS WindowsService, TLC
CONSTANTS t1, t2, t3

Quiet    == [midCommand |-> FALSE, slowStart |-> FALSE,
             commands |-> 3, hangs |-> 2, crashes |-> 2, faults |-> 0]
Rough    == {[midCommand |-> TRUE, slowStart |-> TRUE, commands |-> c,
              hangs |-> h, crashes |-> 1, faults |-> f] :
                 <<c, h, f>> \in {<<2, 0, 1>>, <<2, 1, 0>>}}
Settled  == [midCommand |-> FALSE, slowStart |-> FALSE,
             commands |-> 2, hangs |-> 2, crashes |-> 1, faults |-> 0]
Restarts == [midCommand |-> TRUE, slowStart |-> FALSE,
             commands |-> 2, hangs |-> 0, crashes |-> 0, faults |-> 0]

QuietAndRough == {Quiet} \cup Rough
JustSettled   == {Settled}
JustRestarts  == {Restarts}
===========================================================================
