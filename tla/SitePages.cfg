SPECIFICATION FairSpec
CONSTANTS
  Cities = {shanghai, lhasa}
  Home = shanghai
  Empty = {lhasa}
  Places = {x, y}
  None = None
  MaxCalls = 4
INVARIANTS
  TypeOK
  LoadingHasCause
  ShowsCurrentCity
PROPERTIES
  SkeletonsGo
CHECK_DEADLOCK FALSE
