CONSTANTS
  AlertNames = {"link-up"}
  MoodNames = {"default"}
  MaxOps = 3
SPECIFICATION Spec
INVARIANTS TypeOK QueueExclusive DeviceIndexSafe ExactlyOnceInOrder QueuedHasDevice
  OffMeansDark SmoothRestored HeadWaitBounded
PROPERTY ServiceSpec
