SPECIFICATION FairSpec
CONSTANTS
    Tab = {"t1", "t2"}
    Origin <- MCOrigin
    Enrolled = {"a", "b"}
    Gate <- MCGate
    MAX_ATTEMPTS = 2
    MaxActs = 2
    MaxFaults = 1
INVARIANTS SingleFlight DeniedOnlyExcused
PROPERTY ReloadsSettle
CHECK_DEADLOCK FALSE
