SPECIFICATION FirstSpec
CONSTANTS
  Versions = {1, 2}
  Fixtures = {1}
  Large = {2}
  NFiles = 2
  Chunks = 2
  MaxFaults = 2
INVARIANTS
  TargetNeverMixed
  HealthyDownloadSucceeds
  NoPhantomDownload
  GateHolds
PROPERTIES
  ReplacesModels
  RetryInstalls
