SPECIFICATION FairSpec
CONSTANTS
  j1 = j1
  j2 = j2
  Jobs = {j1}
  Requests <- LiveRequests
  MaxRequests = 2
  MaxPolls = 1
PROPERTIES
  EveryRequestAnswered
  EndOfInputEndsServer
