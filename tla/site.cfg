SPECIFICATION SiteSpec
CONSTANTS
  w1 = w1
  w2 = w2
  e0 = e0
  e1 = e1
  a = a
  k1 = k1
  none = none
  operator = operator
  Clients = {c1, c2, c3}
  WINDOW_MS = 2
  MAX_HITS = 1
  MAX_KEYS = 2
  MAX_CALLS = 5
  MAX_LIMITER_TIME = 7
  Drips = {1, 2, 3}
  RequestedBy <- TwoForOne
  AMOUNT = 4
  RESERVE = 1
  TX_FEE = 1
  MAX_DROPS_PER_DAY = 1
  FAUCET_BALANCE <- FewFunds
  MAX_DAY = 2
  Submissions = {1, 2}
  Emails = {e1}
  Contents = {a, b}
  Jobs = {j1}
  OldFiles <- TwoOldFiles
  UnreadableFiles <- BadPaths
  DOWNLOAD_ATTEMPTS = 2
  MAX_WAITLIST_TIME = 1
  Servers = {s1, s2}
  ONLINE_WITHIN = 2
  MAX_BEATS = 2
  MAX_HEARTBEAT_TIME = 4
  Instances = {i1, i2}
  Hooks = {operator}
  Wallets = {k1}
  NoWallet = none
  MIN_SLOT_TRIES = 2
  MAX_REQUESTS = 2
  MAX_SLOT = 1
  MAX_READS = 2
  MAX_CHANGES = 1
  MAX_FAULTS = 1
INVARIANTS LimitIsHonest DropsAreLimited LockedOutOnlyIfSent
  ExportIsFaithful SnapshotsAreComplete OnlineIsTrue
PROPERTIES StepsBackOnlyAcross RefreshIsAnswered EveryLoadEnds
CHECK_DEADLOCK FALSE
