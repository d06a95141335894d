CONSTANTS
    i1 = i1
    i2 = i2
    kw = kw
    kr = kr
    ks = ks
    NoId = NoId
    NoKey = NoKey
    Ids = {i1}
    Keys = {kr}
    Whitelist = {}
    Scripts = {}
    Resets = {}
    UserKeys = {}
    DbFaults = FALSE
    MaxActive = 2
    Breaker = 2
    MaxClicks = 2
SPECIFICATION Spec
PROPERTY DroppedOnlyIfExecuting
