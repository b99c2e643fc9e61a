CONSTANTS
    Nets = {"n1", "n2"}
    Known = {"n1"}
    Slots = {"s1", "s2"}
    Calls = {"connect", "add", "with_netid", "auto", "disconnect", "remove", "off"}
    Faults = {"save", "reconnect", "disconnect"}
    MaxCalls = 2
    MaxAir = 1
    MaxRejects = 1
    MaxFails = 1
SPECIFICATION FairSpec
INVARIANTS Watched RightNetwork DisconnectionHeard
PROPERTY ConnectingEnds
