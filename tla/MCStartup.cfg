SPECIFICATION Spec
CONSTANTS
  AddressLimit = 64
  PRG_RAM_ADDR = 24
  ScreenAddress = 6
  ScreenSize = 4
  BlockSize = 12
  Strtoul <- MCStrtoul
  ArgLists <- MCArgLists
  Disks <- MCDisks
INVARIANTS TypeOK OptionsAreRead StartsWhereTold RunsOnAWholeMap
\* main() starts the threads, or returns.
CHECK_DEADLOCK FALSE
