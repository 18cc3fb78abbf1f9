\* Two builds, one of two attempts each; two commits; one version.
SPECIFICATION Spec
CONSTANTS
  Runs = {b1, b2}
  MaxAttempts = 2
  MaxRev = 2
  Versions = {"X.Y.Z"}
  Aliases <- MCAliases
  Chart <- MCChart
  Publishers = {p1, p2}
  None = None
SYMMETRY RunsAndJobsAreAlike
INVARIANTS TypeOK PublicTagsAccountedFor AtMostOneStrayTag
PROPERTIES StableVersionsImmutable LatestNeverGoesBack PublishedTagsAgree
