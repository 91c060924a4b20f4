SPECIFICATION FairSpec
CONSTANTS
    s1 = s1
    s2 = s2
    la = la
    lb = lb
    lc = lc
    ebay = ebay
    bricklink = bricklink
    r1 = r1
    r2 = r2
    r3 = r3
    web = web
    worker = worker
    Sets = {s1, s2}
    Listings = {la, lb, lc}
    Providers = {ebay, bricklink}
    SetOf <- ListedSets
    ProviderOf <- ListedBy
    Owned = {s1, s2}
    Old = {}
    Requests = {r1, r2}
    Home <- OneProcess
    Plan <- Pair
    Forced = {}
    Tolerant = {r1}
    NoRequest = NoRequest
    MaxFailures = 0
    MaxAging = 0
PROPERTIES
    RequestsEnd
CHECK_DEADLOCK FALSE
