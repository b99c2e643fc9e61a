CONSTANTS
    Nets = {"n1", "n2"}
    Known = {"n1"}
    Slots = {"s1"}
    Calls = {"with_netid"}
    Faults = {}
    MaxCalls = 1
    MaxAir = 0
    MaxRejects = 3
    MaxFails = 2
SPECIFICATION FairSpec
PROPERTY BusyEnds
