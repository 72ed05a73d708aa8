CONSTANTS
    a = a
    x = x
    y = y
    Segment <- MCSegment
    Kid <- MCKid
    Service <- MCService
    IP <- MCOneIP
    Secret = {"s1"}
    Subnet <- MCSubnet
    Uri <- AppUri
    Request = {"r1", "r2", "r3", "r4"}
    Starts <- NonceStarts
    Configs <- RaisedTTLConfigs
    AdminTTL = {0}
    MinEnrollTTL = 1
    MaxEnrollTTL = 2
    MaxEntries = 2
    WindowLen = 1
    MaxTime = 3
    SweepAt = {}
    MaxRestarts = 0
SPECIFICATION Spec
INVARIANTS NonceSingleUse
