SPECIFICATION Spec
CONSTANTS
  p1 = p1
  Positions = {p1}
  Strategy = "arbitrage"
  PRINCIPAL = 2
  OWN_SOL = 2
  PRICE = 2
  SIZE_BPS = 5
  BPS_DENOMINATOR = 10
  DEADLINE = 6
  HOLD_SECS = 2
  SETTLE_BUFFER_SECS = 3
  LAST_CALL_SECS = 1
  DRAW_MARGIN_SECS = 1
  ADOPT_DELAY_SECS = 1
  TX_LIFE_SECS = 1
  ClockErrors = {0}
  FailingLookups = {}
  STATE_MAY_BE_LOST = FALSE
  SCANS_LAG = FALSE
  Paces = {"any"}
  MAX_NOW = 6
  MAX_SWAPS = 3
  MAX_FAULTS = 1
INVARIANTS BooksTellTheTruth OneSwapAtATime
PROPERTIES SettlesOwnMoney ForgottenCannotLand FollowsLifecycle
CHECK_DEADLOCK FALSE
