SPECIFICATION FairSpec
CONSTANTS
  Orders = {1}
  NoOrder = NoOrder
  Cells = {1}
  Slots = {1, 2}
  MaxDepth = 2
  MaxLost = 1
INVARIANTS
  TypeOK
  ShownNeverAhead
  SaidHasHappened
  OfferedUnlessStale
PROPERTIES
  TimelineForward
  PagesSettle
  ShownCatchesUp
