SPECIFICATION FairSpec

CONSTANTS
  QueueLimit = 1
  MaxReports = 5
  MaxCalls = 3
  Faults <- AllFaults

INVARIANT TypeOK
INVARIANT FreedQuietly
PROPERTY QueueSpec
PROPERTY CallsReturn

CHECK_DEADLOCK FALSE
