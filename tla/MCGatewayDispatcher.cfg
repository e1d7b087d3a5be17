\* Three callers, one key, two commands; the gateway may panic.
SPECIFICATION DispatcherFairSpec
CONSTANTS
    k1 = k1
    x = x
    y = y
    c1 = c1
    c2 = c2
    c3 = c3
    NoKey = NoKey
    NoCommand = NoCommand
    Keys = {k1}
    Commands = {x, y}
    Clients = {c1, c2, c3}
    MaxCalls = 3
    MaxForgets = 2
INVARIANTS
    ExecutedOncePerForget
    AnswersAgree
PROPERTIES
    WaitersWoken
