CONSTANTS
    absent = absent
    v1 = v1
    v2 = v2
    r1 = r1
    r2 = r2
    Values = {absent, v1, v2}
    Absent = absent
    Ids = {r1, r2}
    Faults = FALSE
SPECIFICATION Spec
INVARIANT CrashDurable
