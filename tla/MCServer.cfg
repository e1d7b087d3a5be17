\* Two processes start at once on two migrations and are stopped and restarted.
SPECIFICATION FairSpec
CONSTANTS
    p1 = p1
    p2 = p2
    q1 = q1
    q2 = q2
    Nobody = Nobody
    Procs = {p1, p2}
    NumVersions = 2
    MaxFaults = 2
    Requests = {q1}
INVARIANTS
    SchemaExact
    NoRefusedStart
PROPERTIES
    EventuallyServing
    CancelEndsProcess
