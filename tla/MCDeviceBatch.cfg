\* Lists of commands over three devices.
SPECIFICATION FairSpec
CONSTANTS
    Devices = {1, 2, 3}
    Batches <- SmallBatches
INVARIANTS
    SentOnceChecked
    ResultsInOrder
    
    AuditTrail
PROPERTIES
    Returns
CHECK_DEADLOCK FALSE
