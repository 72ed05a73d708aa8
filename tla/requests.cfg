CONSTANTS
    a = a
    x = x
    y = y
    Segment <- MCSegment
    Kid <- MCKid
    Service <- MCService
    IP <- MCOneIP
    Secret = {"s1"}
    Subnet <- MCSubnet
    Uri <- MCUri
    Request = {"r1", "r2", "r3", "r4"}
    Starts <- RequestStarts
    Configs <- RequestConfigs
    AdminTTL = {0}
    MinEnrollTTL = 1
    MaxEnrollTTL = 2
    MaxEntries = 2
    WindowLen = 1
    MaxTime = 1
    SweepAt = {1}
    MaxRestarts = 0
SPECIFICATION Spec
INVARIANTS TypeOK AllowJustified
PROPERTY RevokesExactly
