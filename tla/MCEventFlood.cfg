SPECIFICATION Spec
CONSTANTS
  DeviceConfigs = {TRUE}
  Pixels = {0}
  Colors = {0}
  Keys = {"w"}
  CmdCapacity = 6
  EventCapacity = 1
  MaxAccesses = 1
  MaxKeyEvents = 2
PROPERTY HaltClosesDisplay
CHECK_DEADLOCK FALSE
