SPECIFICATION CheckSpec
CONSTANTS
    s1 = s1
    s2 = s2
    la = la
    lb = lb
    lc = lc
    ebay = ebay
    bricklink = bricklink
    r1 = r1
    r2 = r2
    r3 = r3
    web = web
    worker = worker
    Sets = {s1, s2}
    Listings = {la, lb, lc}
    Providers = {ebay, bricklink}
    SetOf <- ListedSets
    ProviderOf <- ListedBy
    Owned = {s1, s2}
    Old = {lc}
    Requests = {r1, r2, r3}
    Home <- TwoProcesses
    Plan <- Mixed
    Forced = {r3}
    Tolerant = {r1, r3}
    NoRequest = NoRequest
    MaxFailures = 1
    MaxAging = 1
    Lines = {"la", "lb"}
    Elements = {"red", "blue"}
    ElementOf <- ElementsOfLines
    PartOf <- OnePart
    Needed <- NeededOfLines
    MarketPrice <- Prices
    SetValue = 100
    Paid = 40
    Buyers = {b1, b2, b3}
    Quantities = {1, 4}
    Corrections <- Fewer
    Costs = {}
    Absent = Absent
    MaxTime = 3
    Lengths = {2, 3}
    Day = 2
    Keep = 1
    Runs = {p1, p2}
    MaxLate = 1
    c1 = c1
    c2 = c2
    Servers = {web, worker}
    Calls = {c1, c2}
    ServerOf <- Placed
    Clients = {k1}
    Proxies = {x1}
    Bearers = {b1}
    Quota <- Quotas
    Span <- Spans
    LlmConfigured = TRUE
    Pause = 2
    Routes = {"health", "portfolio"}
    MaxClock = 2
    MaxOutages = 1
    NoCall = NoCall
    Addresses = {"short", "away", "item", "lot", "other"}
    AddressOf <- AddressBook
    Blank = ""
    Nowhere = Nowhere
    Amounts = {1}
    Descriptions <- Entered
    Inquiries = {q1, q2}
    Window = 0
    Spacing = 1
    LastInstant = 1
    MaxTurns = 1
INVARIANTS
    RowsTellTheirSource
    AdmissionsAreBounded
    RetentionIsExact
    PurchasesAddUp
PROPERTIES
    EarlierSetsSurvive
CHECK_DEADLOCK FALSE
