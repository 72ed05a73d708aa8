CONSTANTS
    a = a
    x = x
    y = y
    Segment <- MCSegment
    Kid <- MCKid
    Service <- MCService
    IP <- MCOneIP
    Secret = {"s1"}
    Subnet <- MCSubnet
    Uri <- AppUri
    Request = {"r1", "r2", "r3", "r4"}
    Starts <- EnrollStarts
    Configs <- EnrollConfigs
    AdminTTL = {0, 3}
    MinEnrollTTL = 1
    MaxEnrollTTL = 2
    MaxEntries = 2
    WindowLen = 1
    MaxTime = 2
    SweepAt = {2}
    MaxRestarts = 1
SPECIFICATION Spec
INVARIANTS EnrollOnce
PROPERTIES BurnedForCause
