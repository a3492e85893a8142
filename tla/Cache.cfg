SPECIFICATION FairSpec
CONSTANTS
  c1 = c1
  c2 = c2
  x1 = x1
  None = None
  Owner = c1
  Scenarios <- MCScenarios
INVARIANTS DeletedClaimUnused RetentionHonoured UsedClaimsAreProbed
PROPERTY Settles
CHECK_DEADLOCK FALSE
