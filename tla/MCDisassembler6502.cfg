SPECIFICATION Spec
CONSTANTS
  Roms <- MCRoms
  EntryPoints <- MCEntryPoints
  ListingLengths <- MCListingLengths
INVARIANTS TypeOK ReachableIsListed LinesCoverRom
PROPERTY DisassemblyEnds
\* The program ends.
CHECK_DEADLOCK FALSE
