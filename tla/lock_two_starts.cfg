SPECIFICATION ProcessSpec
CONSTANTS
  r1 = r1
  r2 = r2
  o = o
  h1 = h1
  h2 = h2
  Pids = {r1, r2, o}
  Hosts = {h1, h2}
  MAX_BOOTS = 1
  BOOT_IDS = TRUE
  OtherPids = {o}
  CONCURRENT_STARTS = TRUE
  MAX_SAVES = 4
  MAX_DAMAGE = 2
  RESTORE_INTERRUPTED = FALSE
INVARIANTS OneRunner
