SPECIFICATION Spec
CONSTANTS
  AddressLimit = 16
  Values <- MCValues
  Configurations <- MCConfigurations
  InputDevice <- MCInputDevice
  MaxWrites = 1
INVARIANTS TypeOK OrderedDisjoint RefusedOnlyForOverlap MirrorsAreFresh AccessesStayInside
PROPERTY WritesReachTheirCell
\* A program that ends at an address without memory does nothing more, and the bound
\* on its writes ends every other one.
CHECK_DEADLOCK FALSE
