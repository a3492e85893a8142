SPECIFICATION FairSpec
CONSTANTS
  a = a
  b = b
  Garbage = Garbage
  FileCount = 2
  Blocks <- TwoValues
  Contents <- UpToThree
  CheckpointBlocks = 2
  MaxChanges = 2
  MaxFaults = 2
INVARIANTS CopyIsSound
PROPERTIES EventuallyCopied
CHECK_DEADLOCK FALSE
