SPECIFICATION SpaceSpec
CONSTANTS
  Word = 16
  Sizes <- SomeSizes
  FixedReserve = 2
  PerFileReserve = 1
  MaxSelectedFiles = 3
  MaxFiles = 4
INVARIANT CheckIsExact
CHECK_DEADLOCK FALSE
