SPECIFICATION Spec
CONSTANTS
  Inputs <- MCInputs
  MaxBuilds = 2
  Sidecars <- MCSidecars
  UserRoots <- MCUserRoots
  Bundles <- MCBundles
INVARIANTS
  ManifestTellsTruth
  UninstallKeepsItsWord
CHECK_DEADLOCK FALSE
