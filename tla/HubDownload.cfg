SPECIFICATION FairSpec
CONSTANTS
  a = a
  b = b
  Garbage = Garbage
  Blocks <- TwoValues
  Contents <- UpToThree
  CheckpointBlocks = 2
  MaxVersions = 3
  MaxFaults = 2
  Servers <- BothKinds
INVARIANTS DownloadIsSound CheckpointIsGenuine
PROPERTIES EventuallyDownloaded
CHECK_DEADLOCK FALSE
