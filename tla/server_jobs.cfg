SPECIFICATION PartsSpec
CONSTANTS
  Version = {1, 2, 3}
  Rerunnable = {1}
  MaxRuns = 4
  Tx = {x1, x2}
  Page <- MCPage
  Run = {r1, r2}
  DayLength = 1
  MaxLag = 1
  MaxTime = 3
  MaxRows = 5
  Worker = {w1, w2}
  Nobody = Nobody
  MaxCodes = 2
  MAX_CODE_ATTEMPTS = 2
  RemindAfter = 3
  MaxTurns = 9
  Thread = {h1, h2}
  Key = {k1, k2}
  Limit = 2
  Window = 4
  MaxWindow = 4
  SweepEvery = 1
  Skew = 1
  MaxClock = 5
  Item = {i1, i2}
  SOURCES <- MCSources
  MaxPasses = 2
SYMMETRY Symmetry
INVARIANTS ProofsVerify ChainLinear
INVARIANTS OneGoodCode MissesCounted WindowKept SilenceBounded OnceUnlessTorn RunsTruthful
PROPERTIES SealsKeepLedger SpentStaysSpent ResetSpendsAll
CHECK_DEADLOCK FALSE
