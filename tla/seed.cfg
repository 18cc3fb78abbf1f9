\* Two paths, one of them updatable, two versions of each; one provider, three events of any kind.
SPECIFICATION Spec
CONSTANTS
  NPaths = 2
  Versions = {v1, v2}
  First = v1
  Updatable = {1}
  Absent = Absent
  Mine = Mine
  NotAFile = NotAFile
  Outside = Outside
  Wanted = {"claude-subscription"}
  Own = "own"
  NoHost = NoHost
  Odd = Odd
  Broken = Broken
  MaxEvents = 3
INVARIANTS TypeOK KitFilesAreKnown SeedsComplete
PROPERTIES OwnTextSurvives OptOutIsForGood MergeKeepsSettings AddedOnce
