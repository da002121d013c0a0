SPECIFICATION LiveSpec
CONSTANTS
  s1 = s1
  s2 = s2
  hub = hub
  page = page
  page2 = page2
  landing = landing
  sitemap = sitemap
  card = card
  card2 = card2
  w1 = w1
  w2 = w2
  a1 = a1
  a2 = a2
  g = g
  NoOne = NoOne
  Source = {s1}
  Task = {sitemap, page, landing}
  Worker = {w1}
  Label = {a1}
  Group = {g}
  SourceOf <- MCSourceOf
  LabelOf <- OneLabel
  Skills <- AllSkills
  Phone = {w1}
  Hub = {}
  Sitemap = {sitemap}
  Listing = {page}
  Deep = {page}
  Discovering = {}
  Landing = {landing}
  Card = {}
  GroupOf <- OneGroup
  CardRank <- Ranks
  Configs = {{sitemap, page}}
  Tiers = {1}
  Spacing = 2
  LeaseTTL = 1
  PageRepeat = 6
  DeepRepeat = 6
  MaxFactor = 2
  Escape = 7
  ValueRefresh = 0
  Silent = 2
  CardTarget = 1
  Limit = 1
  AgeCap = 0
  IdleCap = 12
  MaxJobs = 2
PROPERTY EveryPageAttempted
