SPECIFICATION FairSpec
CONSTANTS
  Cells = {1}
  Orders = {o1}
  NoOrder = NoOrder
  Keys = {k1}
  NoKey = NoKey
  SiteOf <- MCSiteOf
  DeviceOf <- MCDeviceOf
  SizeOf <- MCSizeOf
  Requests = {r1}
  TTLs = {1}
  Batch = 100
  RowsBlock = TRUE
  MaxTime = 3
  MaxAsked = 1
  MaxFaults = 0
PROPERTY ExpiredEnds
CHECK_DEADLOCK FALSE
