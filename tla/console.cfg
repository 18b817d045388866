SPECIFICATION ToolsSpec
CONSTANTS
  op = op
  ex = ex
  t1 = t1
  funder = funder
  good = good
  none = none
  console = console
  traderTab = traderTab
  BPS_DENOMINATOR = 10
  MIN_COLLATERAL_RATIO_BPS = 1
  MAX_COLLATERAL_RATIO_BPS = 10
  MAX_DRAWDOWN_BPS = 5
  FEE_CAP_DIVISOR = 2
  MIN_POSITION_DURATION = 1
  MAX_POSITION_DURATION = 2
  Disclosures = {good, none}
  ValidDisclosures = {good}
  Wallets = {op, ex, t1, funder}
  Traders = {t1}
  Agents = {1}
  OperatorOf <- OneOperator
  Nonces = {1, 2, 3, 4}
  Identities = {good}
  ValidIdentities = {good}
  Terms <- OneOffer
  LegacyTerms <- OldTerms
  RENT_EXEMPT_MINIMUM = 2
  AGENT_ACCOUNT_RENT = 1
  POSITION_ACCOUNT_RENT = 1
  U64_MAX = 1000
  U32_MAX = 1000
  InitialWallets <- SomeWallets
  ExecutorKeys = {op}
  Amounts = {4}
  Returns = {4}
  Gifts = {}
  MAX_NOW = 5
  Pages = {console, traderTab}
  OperatorPages = {console}
  WalletAt <- Connected
  RUNNER = op
  WALLET_RESERVE = 5
  RatioChoices = {8}
  FeeChoices = {}
  DrawdownChoices = {}
  DurationChoices = {}
  DisclosureChoices = {}
  Presets = {}
  PageNonces = {1}
  PAGE_CLICKS <- Clicks
  MAX_CLICKS = 5
  BOND = 6
  SPARE = 18
  GAS = 22
  FUNDER = funder
  SCRIPT_KEY = ex
  SCRIPT_TRADER = t1
  SCRIPT_TERMS <- ScriptTerms
  PRINCIPAL = 4
  SHORT_DEADLINE = 1
  LONG_DEADLINE = 2
  BAD_RETURN = 1
  MAX_RUNS = 2
  LATE_LANDINGS = FALSE
  Horizon <- Clocks
INVARIANTS SafeToRerun MisconductIsPunished
PROPERTIES TermsShownAreTermsGiven OffersOnlyWhatWorks
CHECK_DEADLOCK FALSE
