SPECIFICATION Spec
CONSTANTS
  s1 = s1
  s2 = s2
  hub = hub
  page = page
  page2 = page2
  landing = landing
  sitemap = sitemap
  card = card
  card2 = card2
  w1 = w1
  w2 = w2
  a1 = a1
  a2 = a2
  g = g
  NoOne = NoOne
  Source = {s2}
  Task = {card, card2}
  Worker = {w1, w2}
  Label = {a1}
  Group = {card, card2}
  SourceOf <- MCSourceOf
  LabelOf <- OneLabel
  Skills <- AllSkills
  Phone = {w1}
  Hub = {}
  Sitemap = {}
  Listing = {}
  Deep = {}
  Discovering = {}
  Landing = {}
  Card = {card, card2}
  GroupOf <- OwnGroups
  CardRank <- Ranks
  Configs = {{}}
  Tiers = {1}
  Spacing = 2
  LeaseTTL = 1
  PageRepeat = 2
  DeepRepeat = 3
  MaxFactor = 2
  Escape = 3
  ValueRefresh = 0
  Silent = 2
  CardTarget = 1
  Limit = 1
  AgeCap = 0
  IdleCap = 4
  MaxJobs = 2
PROPERTY SpacingPromised
