SPECIFICATION CheckSpec
CONSTANTS
    MaxFolio = 5
    MaxItem = 5
    First <- OneEach
    Entries = {e1}
    Requests = {r1, r2, r3}
    Limit = 3
    Places = {1, 2, 3}
    Goods <- Owned
    Markets <- Evidences
    Nothing = Nothing
    Shelves = {sh1, sh2}
    Asked = {0, 160}
    Sampled = {5}
    DayLength = 2
    MonthLength = 3
    WeekLength = 2
    LastMoment = 7
    Retrieved = {1, 2, 3, 6}
    MaxObserved = 3
    Catalog <- Known
    NoFigure = NoFigure
    Products <- Sets
    Offers <- Ads
    NoAmount = NoAmount
SYMMETRY Interchangeable
INVARIANTS
    HoldingsAreKept
    AloneAllHolds
    NothingIsCountedTwice
    OneSetIsPriced
PROPERTIES
    CompactionAddsNothing
CHECK_DEADLOCK FALSE
