SPECIFICATION Spec
CONSTANTS
  s1 = s1
  s2 = s2
  hub = hub
  page = page
  page2 = page2
  landing = landing
  sitemap = sitemap
  card = card
  card2 = card2
  w1 = w1
  w2 = w2
  a1 = a1
  a2 = a2
  g = g
  NoOne = NoOne
  Source = {s1, s2}
  Task = {hub, landing, card}
  Worker = {w1, w2}
  Label = {a1, a2}
  Group = {g}
  SourceOf <- MCSourceOf
  LabelOf <- OwnLabels
  Skills <- FewSkills
  Phone = {w2}
  Hub = {hub}
  Sitemap = {}
  Listing = {}
  Deep = {}
  Discovering = {}
  Landing = {landing}
  Card = {card}
  GroupOf <- OneGroup
  CardRank <- Ranks
  Configs = {{hub}}
  Tiers = {1}
  Spacing = 2
  LeaseTTL = 1
  PageRepeat = 2
  DeepRepeat = 3
  MaxFactor = 1
  Escape = 1
  ValueRefresh = 0
  Silent = 1
  CardTarget = 1
  Limit = 2
  AgeCap = 0
  IdleCap = 2
  MaxJobs = 3
INVARIANTS HealthTruthful IInv
PROPERTY VisitsSpec
