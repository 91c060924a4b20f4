CONSTANTS
  None = None
  BuyInputs <- BuyOffers
  SellInputs <- Holdings
  Unknown = Unknown
  Costs = {7400, 8060, 10000, 12400}
  Values = {10000}
  Samples = {9, 10}
  Matches = {79, 100}
  Ratings = {0, 30, 80}
  NoRow = NoRow
  Bricklink = Bricklink
  Ebay = Ebay
  OtherShops = {Shop1}
  Batches <- Answers
  Submissions <- Submitted
  h1 = h1
  u1 = u1
  u2 = u2
  u3 = u3
  Investors = {u1, u2, u3}
  Owners = {u1}
  Positions = {h1}
  Folders <- Empty
  Analysts = {a1, a2}
  MaxRetries = 1
  PerInvestor = 1
  PerProcess = 2
  QuotaSpan = 1
  MaxHour = 1
  MaxStamp = 2
  NoTask = NoTask
SYMMETRY Interchangeable
SPECIFICATION CheckSpec
INVARIANT EstimateIsSound
PROPERTIES BetterTermsNeverHurt BetterListingLosesNothing OlderNeverTakesOver QuotasAreExact
