\* Three callers; time for two reopenings.
SPECIFICATION CircuitSpec
CONSTANTS
    c1 = c1
    c2 = c2
    c3 = c3
    Callers = {c1, c2, c3}
    Threshold = 2
    ReopenAfter = 1
    MaxTime = 3
    MaxFailures = 4
SYMMETRY CallerSymmetry
INVARIANTS
    OneProbeHoldsSlot
    CountDecides
