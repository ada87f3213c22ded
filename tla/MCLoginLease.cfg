SPECIFICATION Spec
CONSTANTS
    c1 = c1
    c2 = c2
    q1 = q1
    Claimants = {c1, c2}
    Pollers = {q1}
    Relocated = {r1, r2, r3, r4, r5, r6, r7}
    Settings <- Together
SYMMETRY Symmetry
INVARIANT TypeOK
INVARIANT OneWriter
INVARIANT Fenced
PROPERTY EvidenceKept
CHECK_DEADLOCK FALSE
