SPECIFICATION Spec
CONSTANTS
  Procs = {probe, host}
  Nobody = Nobody
  NoEntry = NoEntry
  Rotates = TRUE
  MaxGrants = 2
  MaxVersion = 3
  MaxFaults = 1
INVARIANTS LogoutStays
SYMMETRY ProcsAreAlike
