CONSTANTS
  Product = {p1}
  Item <- UpAndDown
  Fresh = 0
  Stale = 3
  MaxDay = 4
  MaxSnapshots = 5
  WindowDays = 2
  MinVerified = 5
  MinReference = 1
  MinProvisional = 1
  RatioMax = 5
  MinDeclared = 1
  CampaignGap = 2
  SkipOutOfStock = TRUE
SPECIFICATION PagesSpec
CHECK_DEADLOCK FALSE
INVARIANT NewCampaignAnew
