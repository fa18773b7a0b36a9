CONSTANTS
  AlertNames = {"link-up"}
  MoodNames = {"default"}
  MaxOps = 3
  Clients = {c1, c2}
  Stray = stray
  ListLength = 1
  MaxDuplicates = 0
  MaxStrays = 1
  StopSignals = {"SIGTERM"}
  CommandLines <- AlertLine
SPECIFICATION FairSpec
PROPERTIES StopEnds SignalledIsServed
CHECK_DEADLOCK FALSE
