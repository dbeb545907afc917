SPECIFICATION HostSpec
CONSTANTS
  CoreTypes = {1, 2}
  KnownCores = {2}
  Paths = {2}
  MaxCores = 3
  MockType = 1
  SingboxType = 2
  MaxEvents = 5
INVARIANTS
  MockTellsItsState
PROPERTIES
  OnlySwitchSwitches
  MockKeepsTheContract
CHECK_DEADLOCK FALSE
