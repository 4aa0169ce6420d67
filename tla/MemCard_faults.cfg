CONSTANTS
  NumBlocks = 3
  BlockUnits = 1
  Files = {f1}
  MaxIndex = 1
  NumFds = 1
  MaxPos = 1
  MaxCrashes = 1
  SaveFaults = TRUE
  NoFile = NoFile
  Absent = Absent
SPECIFICATION Spec
INVARIANTS DirectoryOK SoundUntilRestart
