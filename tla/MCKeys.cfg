SPECIFICATION Spec
CONSTANTS
  DeviceConfigs = {TRUE}
  Pixels = {0}
  Colors = {0}
  Keys = {"w", "a"}
  CmdCapacity = 6
  EventCapacity = 1
  MaxAccesses = 2
  MaxKeyEvents = 4
INVARIANT NoStuckKey
PROPERTIES HaltClosesOrBlocks CloseEndsProgram
CHECK_DEADLOCK FALSE
