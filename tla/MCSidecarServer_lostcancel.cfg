SPECIFICATION Spec
CONSTANTS
  j1 = j1
  j2 = j2
  Jobs = {j1}
  Requests <- CancelRequests
  MaxRequests = 2
  MaxPolls = 1
INVARIANT
  AcceptedCancelCancels
