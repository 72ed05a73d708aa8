SPECIFICATION Spec
CONSTANTS
    Client = {"c1", "c2", "c3"}
    Proxy = {"t1", "t2"}
    Zoned = {"c2"}
    Mask <- MCMask
    Convention <- MCConvention
    Chosen = "original-url"
    Requests <- MCRequests
    Upstream <- MCUpstream
    HostChars <- MCHostChars
    UriChars <- MCUriChars
    MaxHost = 5
    MaxUri = 5
    MaxHops = 2
INVARIANTS ClientKeyed ClientReached TargetFaithful OneName OneReading CleanedOnce
CHECK_DEADLOCK FALSE
