SPECIFICATION Spec
CONSTANTS
  Blobs = 1
  Rows = 2
CHECK_DEADLOCK FALSE
INVARIANTS
  OneCrashRecovers
