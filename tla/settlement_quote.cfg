SPECIFICATION Spec
CONSTANTS
  good = good
  BPS_DENOMINATOR = 10
  MIN_COLLATERAL_RATIO_BPS = 1
  MAX_COLLATERAL_RATIO_BPS = 10
  MAX_DRAWDOWN_BPS = 5
  FEE_CAP_DIVISOR = 2
  MIN_POSITION_DURATION = 1
  MAX_POSITION_DURATION = 2
  Disclosures = {good}
  ValidDisclosures = {good}
  Rates <- AllRates
  Principals <- AllPrincipals
  MAX_RETURNED = 20
INVARIANT RoundsAsPromised
PROPERTY ReturningMorePays
CHECK_DEADLOCK FALSE
