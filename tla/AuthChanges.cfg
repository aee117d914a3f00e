SPECIFICATION Spec
CONSTANTS
    Sessions = {s1, s2, s3}
    Codes = {c1}
    Resets = {t1}
    Reqs = {r1, r2}
    None = None
    Faults = {"abort"}
SYMMETRY Symmetry
INVARIANTS OldSessionsEnd CodePairsOnce ErasureShutsOut
CHECK_DEADLOCK FALSE
