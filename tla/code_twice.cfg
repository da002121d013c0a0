SPECIFICATION CodesSpec
CONSTANTS
  Worker = {w1, w2}
  Nobody = Nobody
  MaxCodes = 1
  MAX_CODE_ATTEMPTS = 2
PROPERTY TakenOnce
CHECK_DEADLOCK FALSE
