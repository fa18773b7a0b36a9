SPECIFICATION FairSpec

CONSTANTS
  QueueLimit = 1
  MaxReports = 1
  MaxCalls = 1
  Faults <- NoFaults

PROPERTY ReaderToldOfUnplug

CHECK_DEADLOCK FALSE
