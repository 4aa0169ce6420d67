CONSTANTS
  NumBlocks = 3
  BlockUnits = 2
  Files = {f1, f2}
  MaxIndex = 1
  NumFds = 1
  MaxPos = 4
  MaxCrashes = 1
  SaveFaults = FALSE
  NoFile = NoFile
  Absent = Absent
SPECIFICATION FairSpec
INVARIANTS ChainsInv OrphansCounted WritesStayInFile
PROPERTIES NothingFreed ImplementsCardFiles CallsEnd
