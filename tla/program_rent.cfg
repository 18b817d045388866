SPECIFICATION FairSpec
CONSTANTS
  op = op
  ex = ex
  t1 = t1
  t2 = t2
  a1 = a1
  a2 = a2
  good = good
  bad = bad
  BPS_DENOMINATOR = 10
  MIN_COLLATERAL_RATIO_BPS = 1
  MAX_COLLATERAL_RATIO_BPS = 10
  MAX_DRAWDOWN_BPS = 5
  FEE_CAP_DIVISOR = 2
  MIN_POSITION_DURATION = 1
  MAX_POSITION_DURATION = 2
  Disclosures = {good, bad}
  ValidDisclosures = {good}
  Wallets = {op, ex, t1}
  Traders = {t1}
  Agents = {a1}
  OperatorOf <- OneOperator
  Nonces = {1}
  Identities = {good, bad}
  ValidIdentities = {good}
  Terms <- TermsToRefuse
  LegacyTerms <- TooLenient
  RENT_EXEMPT_MINIMUM = 2
  AGENT_ACCOUNT_RENT = 1
  POSITION_ACCOUNT_RENT = 1
  U64_MAX = 1000
  U32_MAX = 1000
  InitialWallets <- SparseWallets
  ExecutorKeys = {ex}
  Amounts = {2, 4}
  Returns = {0, 2, 9}
  Gifts = {4}
  MAX_NOW = 3
INVARIANTS NoCloseIsBlocked SettlingNothingCostsTheBond
PROPERTIES TraderRecoversBond EveryPositionEnds
CHECK_DEADLOCK FALSE
