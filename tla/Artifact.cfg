SPECIFICATION FairSpec
CONSTANTS
  a1 = a1
  a2 = a2
  d1 = d1
  d2 = d2
  None = None
  Digests = {d1, d2}
  Scenarios <- MCScenarios
CHECK_DEADLOCK FALSE
INVARIANTS CheckpointBeforeImporter CleanupIsExclusive LeaseExclusion FinalizedClean
PROPERTIES DigestStable Converges
