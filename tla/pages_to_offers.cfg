CONSTANTS
  Product = {p1}
  Item <- Wares
  Fresh = 0
  Stale = 3
  MaxDay = 5
  MaxSnapshots = 5
  WindowDays = 3
  MinVerified = 5
  MinReference = 2
  MinProvisional = 1
  RatioMax = 5
  MinDeclared = 1
  CampaignGap = 2
  SkipOutOfStock = TRUE
  Ref = {1, 2}
  Shown = {0, 2, 3, 5}
  PRICE_MIN_KOP = 1
  PRICE_MAX_KOP = 4
  MaxCards = 2
  StoreProduct = {p1}
  MaxLinks = 2
  Stores = 2
  Price = {0, 100, 150}
  Rule <- Rules
  Checked <- Events
  MaxPages = 3
  Thing = {1, 2}
  Barcode <- Codes
  TitleWord <- Words
  MaxSaid = 2
SPECIFICATION PartsSpec
CHECK_DEADLOCK FALSE
INVARIANTS VerifiedTruthful TwinsOnlyByRace CampaignStart
INVARIANTS OnlyWhatIsShown NothingLost OnItsShelf OwnSiteOnly ChoiceIsSound NeverMixed KeysMeet
PROPERTY BaseFrozen
