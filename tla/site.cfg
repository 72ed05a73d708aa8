SPECIFICATION Spec
CONSTANTS
    a = a
    x = x
    Request = {"r1", "r2", "r3"}
    Scenes <- MCScenes
    MintCall = MintCall
    Device <- MCDevice
    Sites <- MCSites
    Generations <- MCGenerations
    Kid <- MCKid
    Segment <- MCSegment
    Service <- MCService
    IP <- MCIP
    Secret = {"s1", "s2"}
    ShortSecret = {}
    Unresolved = Unresolved
    Subnet <- MCSubnet
    Second = 2
    DefaultTTL = 4
    DefaultRate = 2
    MaxEntries = 2
    WindowLen = 1
    SweepEvery = 2
    CodeTTL = 2
    MaxTime = 4
INVARIANTS TypeOK GateJustified SweepSpaced CodeKept
PROPERTY SweepClosesNothing
CHECK_DEADLOCK FALSE
