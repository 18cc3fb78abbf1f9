SPECIFICATION Spec
CONSTANTS
  Logins = {l1, l2}
  NoFile = NoFile
  NoEntry = NoEntry
  WatchTicks = 2
  UnreachTicks = 1
  ReprobeNaps = 1
  HealthyTicks = 1
  BackoffMin = 1
  BackoffMax = 1
  Backoff78Min = 1
  Backoff78Max = 1
  MaxWrites = 1
  MaxExits = 1
  MaxFaults = 1
INVARIANT StoppedMeansNoHost
CHECK_DEADLOCK FALSE
SYMMETRY LoginsAreAlike
