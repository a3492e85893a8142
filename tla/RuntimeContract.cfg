SPECIFICATION ContractSpec
CONSTANTS
  None = None
  Words <- MCWords
  Specs <- MCSpecs
  Second = 2
  MaxInt64 = 31
  MaximumConcurrency = 4
  DefaultBatchSize = 4
  DefaultMicroBatchSize = 2
  MinimumDrain = 2
  DefaultDrain = 3
  MaximumDrain = 4
INVARIANT ValidIsServable
INVARIANT ServesWhatWasAsked
CHECK_DEADLOCK FALSE
