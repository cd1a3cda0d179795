SPECIFICATION Spec
CONSTANTS
  DeviceConfigs = {TRUE, FALSE}
  Pixels = {0}
  Colors = {0, 1}
  Keys = {"w"}
  CmdCapacity = 8
  EventCapacity = 1
  MaxAccesses = 2
  MaxKeyEvents = 2
INVARIANTS TypeOK ScreenShowsFrame HaltIsFinal ClosedMeansHalted
CHECK_DEADLOCK FALSE
