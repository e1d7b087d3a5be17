\* Two processes that may outlive their leases, two messages.
SPECIFICATION FairSpec
CONSTANTS
    p1 = p1
    p2 = p2
    Procs = {p1, p2}
    Msgs = {1, 2}
    RetryLimit = 2
    MaxFaults = 3
INVARIANTS
    FailedAfterTries
    SendsBound
    LeaseExclusive
PROPERTIES
    EventuallySettled
    ImplementsContract
CHECK_DEADLOCK FALSE
