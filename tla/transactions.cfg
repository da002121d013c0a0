SPECIFICATION PartsSpec
CONSTANTS
  s1 = s1
  s2 = s2
  hub = hub
  landing = landing
  card = card
  l1 = l1
  l2 = l2
  h = h
  p = p
  a1 = a1
  a2 = a2
  NoOne = NoOne
  Source = {s1, s2}
  Task = {hub, landing, card}
  Landing = {landing}
  Card = {card}
  Label = {a1, a2}
  Leaser = {l1, l2}
  HubPost = {h}
  PagePost = {p}
  ByUrl = {p}
  Limit = 2
  SourceOf <- MCSourceOf
  SeedOrder <- MCSeedOrder
  PageOf <- MCPageOf
  LabelOf <- MCLabelOf
  Account = {u1, u2, u3}
  Worker = {w1, w2}
  Nobody = Nobody
SYMMETRY Symmetry
INVARIANTS CircleNeedsDiscovery CircleNeedsDeletions
PROPERTIES AtomicLease CloseKeepsLease AdminLostOnlyLate ActorOutlivesAction ModeratorWithinReach
CHECK_DEADLOCK FALSE
