SPECIFICATION SpecWithHistory
CONSTANTS
  Memories <- MCMemories
  StartAddress <- MCStart
  StepLimits = {7}
  UninitializedAddresses = {1, 40000}
INVARIANTS TypeOK HaltStops
PROPERTIES PullUndoesPush ArithmeticIsExact UnofficialIsComposition JumpsLand EveryProgramEnds
\* A program ends, or the emulator crashes.
CHECK_DEADLOCK FALSE
