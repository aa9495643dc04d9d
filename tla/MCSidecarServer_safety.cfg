SPECIFICATION Spec
CONSTANTS
  j1 = j1
  j2 = j2
  Jobs = {j1, j2}
  Requests <- SafetyRequests
  MaxRequests = 3
  MaxPolls = 1
INVARIANTS
  NothingSwallowed
  PipeIsClean
  DownloadRunsAlone
  CancelInTimeHonoured
  CancelledOnlyIfAsked
  CleanExit
PROPERTY
  KeepsPromise
