CONSTANTS
  AlertNames = {"link-up"}
  MoodNames = {"default"}
  MaxOps = 3
  Clients = {c1, c2}
  Stray = stray
  ListLength = 1
  MaxDuplicates = 1
  MaxStrays = 0
  StopSignals = {"SIGHUP", "SIGTERM"}
  CommandLines <- SetAndListLines
SPECIFICATION Spec
INVARIANTS TypeOK AnswersAreMine SuccessMeansCalled ServedOnceInOrder BacklogIsSilent ShowsLastArrival
SYMMETRY ClientSymmetry
CHECK_DEADLOCK FALSE
