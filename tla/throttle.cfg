CONSTANTS
    Attempt = {p1, p2, p3, p4, p5}
    Bucket = {"b1", "b2"}
    MaxEntries = 1
    WindowLen = 3
    PerMin = 1
    MaxLag = 1
    MaxTime = 5
SPECIFICATION ThrottleSpec
SYMMETRY Attempts
INVARIANTS
    TableBounded
    QuotaBounded
CHECK_DEADLOCK FALSE
