SPECIFICATION Spec

CONSTANTS
  MaxReports = 6
  MaxCalls = 6
  Closers = {"same", "other"}

INVARIANT TypeOK
INVARIANT TimedReadEnds
INVARIANT ClosedCleanly
PROPERTY QueueSpec

CHECK_DEADLOCK FALSE
