CONSTANTS
  AlertNames = {"link-up"}
  MoodNames = {"default", "unknown"}
  MaxOps = 2
SPECIFICATION FairSpec
PROPERTIES TerminateEnds OpensWhenPlugged ServiceFairSpec
