SPECIFICATION Spec
CONSTANTS
  FileSize = 3
  Forwards = 1
  Chunk = 1
  MaxCapacity = 3
  LazySize = 1
  ReadSizes = {2}
  SeekTargets = {1}
  MaxOpens = 3
INVARIANTS TypeOK RangesAreOfTheFile SleepersHaveAPartner
PROPERTIES CallsReturn IsFileReader
CHECK_DEADLOCK FALSE
