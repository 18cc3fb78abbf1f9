SPECIFICATION FairSpec
CONSTANTS
  Procs = {probe, host}
  Nobody = Nobody
  NoEntry = NoEntry
  Rotates = TRUE
  MaxGrants = 1
  MaxVersion = 3
  MaxFaults = 2
INVARIANTS TypeOK RejectionIsDefinitive StoredLoginRenewable
PROPERTIES RenewalConverges ProbeEnds
