SPECIFICATION Spec
CONSTANTS
  Orders = {o1, o2}
  NoOrder = NoOrder
  Cells = {1, 2}
  Keys = {}
  NoKey = NoKey
  Reqs = {r1, r2}
  Durations = {1}
  MaxTime = 6
  Hour = 2
  Development = TRUE
  PickupArgs = 2
  Faults = TRUE
  SiteOf <- MCSiteOf
  DeviceOf <- MCDeviceOf
  SizeOf <- MCSizeOf
SYMMETRY MCSymmetry
INVARIANTS
  TypeOK
  CellsMatchOrders
  SelectedCellStaysFree
  LogTellsStatus
  OverdueFeeFair
PROPERTIES
  DoorOpensOwnCell
  ImplementsContract
