SPECIFICATION FairSpec
CONSTANTS
  DesiredConcurrency = 2
  MaxRequests = 3
  Accelerator = FALSE
  CUDADevices = {}
  EarlyDrain = FALSE
  PropagationSuffices = TRUE
INVARIANTS ReadyIsVerified DrainRejectsReadiness RunLeavesNoChild
PROPERTIES TerminalIsFinal NoRequestCutShort ShutdownCompletes
