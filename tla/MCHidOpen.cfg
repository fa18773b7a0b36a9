SPECIFICATION FairSpec
CONSTANTS
  lightpack = lightpack
  twin = twin
  keyboard = keyboard
  hub = hub
  Addresses <- All
  Lightpacks <- Known
  PerInterface <- Composite
  HidAlts <- Interfaces
  MaxHandles = 2
  MaxFaults = 2
INVARIANTS TypeOK AllOrNothing LightpacksFound
PROPERTY LightpackOpened
CHECK_DEADLOCK FALSE
