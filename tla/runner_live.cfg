SPECIFICATION FairSpec
CONSTANTS
  p1 = p1
  Positions = {p1}
  Strategy = "momentum"
  PRINCIPAL = 2
  OWN_SOL = 0
  PRICE = 2
  SIZE_BPS = 5
  BPS_DENOMINATOR = 10
  DEADLINE = 7
  HOLD_SECS = 2
  SETTLE_BUFFER_SECS = 5
  LAST_CALL_SECS = 4
  DRAW_MARGIN_SECS = 1
  ADOPT_DELAY_SECS = 1
  TX_LIFE_SECS = 1
  ClockErrors <- Skewed
  FailingLookups = {"swap", "resolve"}
  STATE_MAY_BE_LOST = TRUE
  SCANS_LAG = TRUE
  Paces = {"any", "due"}
  MAX_NOW = 7
  MAX_SWAPS = 2
  MAX_FAULTS = 1
INVARIANTS NeverLate
PROPERTIES EveryDrawIsClosed
CHECK_DEADLOCK FALSE
