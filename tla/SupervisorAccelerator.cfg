SPECIFICATION MonitorSpec
CONSTANTS
  DesiredConcurrency = 1
  MaxRequests = 0
  Accelerator = TRUE
  CUDADevices = {d0, d1}
  EarlyDrain = FALSE
  PropagationSuffices = TRUE
PROPERTIES ExtraDeviceRevokesReadiness
