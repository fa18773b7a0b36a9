CONSTANTS
  AlertNames = {"link-up"}
  MoodNames = {"default"}
  MaxOps = 1
  Clients = {c1}
  Stray = stray
  ListLength = 2
  MaxDuplicates = 0
  MaxStrays = 1
  MaxOptions = 3
  CommandLines <- AllLines
SPECIFICATION AloneSpec
INVARIANT CommandLineObeyed
PROPERTY ClientEnds
CHECK_DEADLOCK FALSE
