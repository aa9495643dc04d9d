CONSTANTS
  MaxPixels = 6
  Frames <- MCFrames
SPECIFICATION Spec
INVARIANTS
  OnlyTheWindow
  WholeFrame
  GuideHonest
  NoStaleError
  RequestsAccepted
  OpaqueFrames
CHECK_DEADLOCK FALSE
