SPECIFICATION Spec
CONSTANTS
    Request = {"r1", "r2", "r3"}
    Scenes <- MCScenes
    Configs <- MCConfigs
    Starts = {"plain", "rotated"}
    Kid = {"k1", "__manual__"}
    Service <- MCService
    IP <- MCIP
    Device <- MCDevice
    AdminTTL = {0, 1}
    CodeTTL = {1, 3}
    MarkerTTL = 2
    MaxStall = 1
    MaxReloads = 1
    MaxTime = 2
INVARIANTS LuaJustified LuaNonceOnce LuaCodeOnce RevokeComplete
CHECK_DEADLOCK FALSE
