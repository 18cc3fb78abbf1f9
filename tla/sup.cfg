\* Two logins, no symmetry (unsound for liveness), shortest periods; the proofs cover every bound.
SPECIFICATION FairSpec
CONSTANTS
  Logins = {l1, l2}
  NoFile = NoFile
  NoEntry = NoEntry
  WatchTicks = 2
  UnreachTicks = 1
  ReprobeNaps = 1
  HealthyTicks = 1
  BackoffMin = 1
  BackoffMax = 2
  Backoff78Min = 1
  Backoff78Max = 1
  MaxWrites = 1
  MaxExits = 1
  MaxFaults = 1
PROPERTIES StableLoginServed DeadLoginStopsHost OutageDetailEnds OnlyAProvenLossStopsHost ImplementsHostService
INVARIANTS TypeOK StatusTruthful NoUnexcusedRestart
CHECK_DEADLOCK FALSE
