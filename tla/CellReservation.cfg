SPECIFICATION Spec
CONSTANTS
  Cells = {1, 2}
  Orders = {o1}
  NoOrder = NoOrder
  Keys = {k1, k2}
  NoKey = NoKey
  SiteOf <- MCSiteOf
  DeviceOf <- MCDeviceOf
  SizeOf <- MCSizeOf
  Requests = {r1, r2}
  TTLs = {1}
  Batch = 1
  RowsBlock = TRUE
  MaxTime = 3
  MaxAsked = 3
  MaxFaults = 1
INVARIANTS
  TypeOK
  OneHolder
PROPERTIES
  HeldUntilExpiry
CHECK_DEADLOCK FALSE
