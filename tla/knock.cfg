CONSTANTS
    a = a
    x = x
    y = y
    Segment <- MCSegment
    Kid <- MCKid
    Service <- MCService
    IP <- MCTwoIP
    Secret = {"s1"}
    Subnet <- MCSubnet
    Uri <- AppUri
    Request = {"r1", "r2", "r3", "r4"}
    Starts <- KnockStarts
    Configs <- KnockConfigs
    AdminTTL = {0}
    MinEnrollTTL = 1
    MaxEnrollTTL = 2
    MaxEntries = 2
    WindowLen = 1
    MaxTime = 2
    SweepAt = {0, 1, 2}
    MaxRestarts = 1
SPECIFICATION Spec
INVARIANTS NonceFreshOnce OneRecordPerDevice
