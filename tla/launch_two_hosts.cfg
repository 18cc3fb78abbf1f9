SPECIFICATION Spec
CONSTANTS
  Pods = {p1, p2}
  NoPod = NoPod
  StopWait = 2
  Grace = 1
  MaxBusy = 3
  MaxSignals = 0
CHECK_DEADLOCK FALSE
INVARIANTS OneHostPerVolume
SYMMETRY PodsAreAlike
