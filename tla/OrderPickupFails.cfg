SPECIFICATION Spec
CONSTANTS
  Orders = {o1}
  NoOrder = NoOrder
  Cells = {1}
  Keys = {}
  NoKey = NoKey
  Reqs = {r1}
  Durations = {1}
  MaxTime = 4
  Hour = 2
  Development = TRUE
  PickupArgs = 2
  Faults = FALSE
  SiteOf <- MCSiteOf
  DeviceOf <- MCDeviceOf
  SizeOf <- MCSizeOf
PROPERTY PickupCompletes
