SPECIFICATION Spec
CONSTANTS
  DesiredConcurrency = 1
  MaxRequests = 1
  Accelerator = FALSE
  CUDADevices = {}
  EarlyDrain = TRUE
  PropagationSuffices = TRUE
INVARIANTS DrainRejectsReadiness
