CONSTANTS
    i1 = i1
    i2 = i2
    kw = kw
    kr = kr
    ks = ks
    NoId = NoId
    NoKey = NoKey
    Ids = {i1, i2}
    Keys = {kw, kr}
    Whitelist = {kw}
    Scripts = {}
    Resets = {kr}
    UserKeys = {}
    DbFaults = FALSE
    MaxActive = 2
    Breaker = 1
    MaxClicks = 2
SPECIFICATION FairSpec
PROPERTY InFlightReleased
PROPERTY DecisionsSettle
INVARIANT NothingStranded
INVARIANT InFlightExact
INVARIANT BreakerHolds
