SPECIFICATION CheckSpec
CONSTANTS
    k1 = k1
    k2 = k2
    u1 = u1
    Keys = {k1, k2}
    Users = {u1}
    UserOf <- TwoOfOne
    Requests = {r1, r2, r3}
    NoRequest = NoRequest
    MaxEntries = 1
    Ttl = 1
    MaxTime = 1
    MaxChanges = 1
    Numbers = {"10307", "21333"}
    Names = {"mine", "theirs", "ours"}
    Notes = {"a", "b"}
    Purchases <- PurchasesMade
    CsvFiles <- FilesSent
    Quotes <- QuotesSeen
    NoQuote = NoQuote
    MaxFolios = 3
    MaxHeld = 5
    MaxWrites = 3
INVARIANTS
    CacheIsHonest
    PagesAgree
PROPERTIES
    LoadsAreCoalesced
    WaitersGoOn
    ImportRecordsTheFile
CHECK_DEADLOCK FALSE
