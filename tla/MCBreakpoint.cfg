SPECIFICATION Spec
CONSTANTS
  Addresses = {1, 2}
  DataAddresses = {3}
  StepCounts = {0, 2}
  Connections = {1, 2}
  ClientRequests <- MCRequests
  MaxRequests = 3
INVARIANT BreakpointHitsOnce
CHECK_DEADLOCK FALSE
