\* The promise of a graceful shutdown, which main does not keep.
SPECIFICATION Spec
CONSTANTS
    p1 = p1
    p2 = p2
    q1 = q1
    q2 = q2
    Nobody = Nobody
    Procs = {p1}
    NumVersions = 1
    MaxFaults = 1
    Requests = {q1, q2}
INVARIANTS
    GracefulShutdown
