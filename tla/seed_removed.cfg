\* A provider the tenant removed comes back when its marker was not written.
SPECIFICATION Spec
CONSTANTS
  NPaths = 1
  Versions = {v1, v2}
  First = v1
  Updatable = {1}
  Absent = Absent
  Mine = Mine
  NotAFile = NotAFile
  Outside = Outside
  Wanted = {"claude-subscription", "pi-original"}
  Own = "own"
  NoHost = NoHost
  Odd = Odd
  Broken = Broken
  MaxEvents = 3
INVARIANT RemovedStaysRemoved
CHECK_DEADLOCK FALSE
