SPECIFICATION CheckSpec
CONSTANTS
    Prices = {1, 3}
    GoodPrice = 1
    Unwanted = {}
    Batches = {b1, b2}
    Manuals = {m1}
    StaleAfter = 0
    MaxDay = 1
    MaxEvents = 2
    MaxObs = 4
    Sets = {"s1"}
    Universe <- TwoSizes
    Names = {"s1", " s1"}
    Named <- SpelledTwoWays
    All = All
    Asks <- Questions
    q1 = q1
    q2 = q2
    q3 = q3
    Searches = {q1, q2, q3}
    Ttl = 1
    Throttle = 2
    MaxTime = 2
    MaxVersion = 1
    SearchIds = {1, 2, 3}
    Clients = {c1, c2, c3}
    Filters = {"cheap", "new"}
    Rooms = {1}
    SavedLimit = 2
    Missing = Missing
    Numbers = {n1}
    Molds = {p1, p2}
    Alike <- Unlike
    CategoryOf <- OneCategory
    Pictures = {i1, i2}
    Lookups = {k1, k2}
    NoLookup = NoLookup
    Things = {"set", "listing"}
    Listings = {"listing"}
    Costs = {5, 7}
    Refreshers = {r1}
    Readers = {t1, t2}
    NoThing = NoThing
    Cooldown = 1
    MaxHour = 1
    MaxMoments = 4
    MaxNotices = 2
CONSTRAINT Apart
SYMMETRY Interchangeable
INVARIANTS
    AlertedOnce
    DealsAreTimely
    SavedSearchesHold
    ImagesSurvive
    ChangesAreShown
PROPERTIES
    NoticesAreKept
CHECK_DEADLOCK FALSE
