\* Three calls of Resolve on two alerts, and two overlapping calls of Run, which
\* fail or lose answers.
SPECIFICATION Spec
CONSTANTS
    a1 = a1
    a2 = a2
    r1 = r1
    r2 = r2
    r3 = r3
    w1 = w1
    w2 = w2
    k1 = k1
    k2 = k2
    s1 = s1
    AlertIds = {a1, a2}
    Resolvers = {r1, r2, r3}
    NoAlert = NoAlert
    Sweeps = {w1, w2}
    Keys = {k1, k2}
    SessionIds = {s1}
    TelemetryAge = 1
    SessionAge = 1
    SessionLife = 1
    Skew = 1
    MaxTime = 3
    MaxRows = 2
SYMMETRY CallSymmetry
INVARIANTS
    ResolvedOnce
    ReportsExact
PROPERTIES
    DeletesOnlyOld
CHECK_DEADLOCK FALSE
