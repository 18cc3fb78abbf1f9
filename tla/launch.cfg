\* One container; two further signals, helper calls of up to two seconds.
SPECIFICATION FairSpec
CONSTANTS
  Pods = {p1}
  NoPod = NoPod
  StopWait = 7
  Grace = 2
  MaxBusy = 2
  MaxSignals = 2
CHECK_DEADLOCK FALSE
INVARIANTS WaitsForProduct SupervisorStopsFirst HostHoldsLock NeverKilled
PROPERTIES StopReachesProduct StopFreesVolume
