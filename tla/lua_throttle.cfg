SPECIFICATION Spec
CONSTANTS
    Request = {"r1", "r2", "r3"}
    Scenes <- ThrottleScenes
    Configs <- ThrottleConfigs
    Starts = {"limited"}
    Kid = {"k1", "__manual__"}
    Service <- MCService
    IP <- MCIP
    Device <- MCDevice
    AdminTTL = {0, 1}
    CodeTTL = {1, 3}
    MarkerTTL = 2
    MaxStall = 1
    MaxReloads = 1
    MaxTime = 2
INVARIANTS RefusedByQuota
CHECK_DEADLOCK FALSE
