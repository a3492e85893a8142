SPECIFICATION FairSpec
CONSTANTS
  o1 = o1  o2 = o2
  w1 = w1  w2 = w2  w3 = w3
  a1 = a1  a2 = a2
  d1 = d1  d2 = d2
  Operation = {o1, o2}
  Digest = {d1, d2}
  Worker = {w1, w2, w3}
  OperationOf <- ThreeWorkers
  Artifact = {a1, a2}
  ArtifactOf <- OwnArtifacts
  HubOperation = {o1}
  MaxFailures = 1
INVARIANTS PublishedIsComplete MarkerIsTruthful IntentIsRecoverable HubReportsPinned
PROPERTIES ImplementsStore IntentIsStable EveryOperationReports
