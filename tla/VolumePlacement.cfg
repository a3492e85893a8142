SPECIFICATION Spec
CONSTANTS
  None = None
  MaxInt64 = 3
  Keys = {zone, disk}
  Pairs <- MCPairs
INVARIANT PlacementFollowsScheduler
CHECK_DEADLOCK FALSE
