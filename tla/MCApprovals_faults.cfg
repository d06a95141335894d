CONSTANTS
    i1 = i1
    i2 = i2
    kw = kw
    kr = kr
    ks = ks
    NoId = NoId
    NoKey = NoKey
    Ids = {i1, i2}
    Keys = {kw, ks}
    Whitelist = {kw}
    Scripts = {ks}
    Resets = {kw}
    UserKeys = {kw}
    DbFaults = TRUE
    MaxActive = 2
    Breaker = 1
    MaxClicks = 2
SPECIFICATION Spec
SYMMETRY RowSymmetry
INVARIANT TypeOK
INVARIANT OneRunPerClick
INVARIANT CardsDecidable
INVARIANT ScriptsOnlyByClick
PROPERTY ContractKept
