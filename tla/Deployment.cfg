SPECIFICATION FairSpec
CONSTANTS
  x1 = x1
  x2 = x2
  s1 = s1
  s2 = s2
  s3 = s3
  bad = bad
  None = None
  Artifacts = {x1, x2}
  AllSpecs <- MCSpecs
  ModelOf <- MCModelOf
  Invalid <- OnlyBad
  Rejected = {}
  Scenarios <- MCScenarios
INVARIANTS ScheduledPodsHaveMounts OneGeneration FinalizedDrained LoadedWasLoaded
PROPERTIES OutageKeepsLoaded EventuallyServing DeletionCompletes
CHECK_DEADLOCK FALSE
