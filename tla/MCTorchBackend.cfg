SPECIFICATION Spec
CONSTANTS
  w1 = w1
  w2 = w2
  NDirs = 3
  Staged = {1}
  Roots <- MCRoots
  NFiles = 2
  Versions = {"s", "p"}
  Expected <- MCExpected
  Scripted = {"s"}
  Writers = {w1, w2}
  MaxInstalls = 2
  MaxUnder = 2
  Color <- MCColor
  Backends <- MCBackends
  Weights <- MCWeights
  Envs <- MCEnvs
  Requests <- MCRequests
SYMMETRY Symmetry
INVARIANTS
  AloneInstallSucceeds
  StatusIsTrue
  WeightsAreAnnounced
  EscapesOnlyUnderWriters
