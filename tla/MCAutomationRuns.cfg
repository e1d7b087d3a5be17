\* Two workers, two runs of one automation, workers may outlive the cutoff.
SPECIFICATION FairSpec
CONSTANTS
    a1 = a1
    d1 = d1
    r1 = r1
    r2 = r2
    w1 = w1
    w2 = w2
    NoRun = NoRun
    Automations = {a1}
    Devices = {d1}
    DevicesOf <- MCDevicesOf
    Runs = {r1, r2}
    AutomationOf <- MCAutomationOf
    Workers = {w1, w2}
    MaxFaults = 2
    StallPossible = TRUE
INVARIANTS
    DispatchedIffSucceeded
    OneOwner
    
PROPERTIES
    PausedTakesNoRuns
    VerdictFinal
    EventuallyFinished
