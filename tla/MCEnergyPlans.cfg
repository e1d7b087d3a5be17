\* Two device requests and two plan requests racing over a plan and its device.
SPECIFICATION Spec
CONSTANTS
    d1 = d1
    c1 = c1
    c2 = c2
    p1 = p1
    p2 = p2
    k1 = k1
    k2 = k2
    NoDevice = NoDevice
    Devices = {d1}
    Clients = {c1, c2}
    Readings = {1}
    MaxVersion = 6
    Plans = {p1, p2}
    DevicesOf <- MCDevicesOf
    Planners = {k1, k2}
SYMMETRY RequestSymmetry
INVARIANTS
    RanIffNotCancelled
PROPERTIES
    NoLostUpdate
    FollowsTransitions
    StartsWithDevices
CHECK_DEADLOCK FALSE
