CONSTANTS
  MaxWidth = 3
  MaxHeight = 2
  Words <- PortWords
  Blocks <- SomeBlocks
  Tables <- StraightTables
  MaxJobs = 3
  Limit = 8
SPECIFICATION Spec
INVARIANTS NoBleeding
