CONSTANTS
  AlertNames = {"link-up"}
  MoodNames = {"default"}
  MaxOps = 1
  Clients = {c1}
  Stray = stray
  ListLength = 1
  MaxDuplicates = 0
  MaxStrays = 0
  StopSignals = {}
  CommandLines <- SetLines
SPECIFICATION Spec
INVARIANT SuccessMeansQueued
CHECK_DEADLOCK FALSE
