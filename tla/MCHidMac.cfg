SPECIFICATION FairSpec

CONSTANTS
  QueueLimit = 1
  MaxReports = 5
  MaxCalls = 3
  Managers = {"user", "other"}

INVARIANT TypeOK
INVARIANT LoopValid
PROPERTY QueueSpec
PROPERTY CallsReturn

CHECK_DEADLOCK FALSE
