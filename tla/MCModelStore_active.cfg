SPECIFICATION Spec
CONSTANTS
  Versions = {1}
  Fixtures = {}
  Large = {}
  NFiles = 1
  Chunks = 2
  MaxFaults = 0
INVARIANT
  ActiveDownloadIsReported
