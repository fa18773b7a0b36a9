CONSTANTS
  Frames <- AllFrames
  RefreshDelays = {100}
  ColorDepths = {128}
  Slowdowns = {0, 255}
  PowerOn <- AtPowerOn
SPECIFICATION Spec
INVARIANT TypeOK
PROPERTY DriverSpec
