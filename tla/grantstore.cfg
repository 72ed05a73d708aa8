CONSTANTS
    a = a
    b = b
    x = x
    y = y
    Kid <- MCKid
    Segment <- MCSegment
    Service <- MCService
    IP <- MCIP
    Cookie <- MCCookie
    FP <- MCFP
    Offer <- MCOffer
    Time <- MCTime
SPECIFICATION GrantStoreSpec
INVARIANTS
    GrantStoreTypeOK
    IndexExact
PROPERTY RefinesAbstract
