\* Every schedule and every table of up to three rows.
SPECIFICATION Spec
CONSTANTS
    Rows <- SmallRows
    MaxRows = 3
    MaxSpan = 3
    Limits <- SmallLimits
    Samples <- SmallSamples
    MaxSamples = 3
    MaxGap = 2
    Steps = {0, 2, 3}
    Parts = 4
INVARIANTS
    ChecksExact
    MergeExact
    
CHECK_DEADLOCK FALSE
