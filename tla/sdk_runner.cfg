SPECIFICATION FairSpec
CONSTANTS
  p1 = p1
  p2 = p2
  Positions = {p1, p2}
  PRINCIPAL = 2
  OWN_SOL = 5
  DRAW_TX_FEE = 1
  SETTLE_FEE = 1
  RENT = 2
  DURATION = 5
  HOLD_SECS = 1
  BUFFER_SECS = 3
  DRAW_MARGIN_SECS = 0
  ADOPT_DELAY_SECS = 1
  GRACE_SECS = 1
  SETTLE_TX_SECS = 1
  TX_LIFE_SECS = 1
  MAX_BUILDS = 2
  LaggingReads = {"settle"}
  SPAWN_INTERRUPTED = FALSE
  LATE_DRAWS = FALSE
  MAX_NOW = 7
  MAX_TRADES = 1
  MAX_FAULTS = 1
INVARIANTS WalletReadAlone OneAtATime NeverLate
PROPERTIES SettlesItsOwn EveryDrawIsClosed
CHECK_DEADLOCK FALSE
