SPECIFICATION FairSpec
CONSTANTS
  Orders = {o1, o2}
  NoOrder = NoOrder
  Slots = {1, 2}
  MaxLost = 1
  MaxKills = 1
INVARIANTS
  TypeOK
  StoreIsStored
  PlacedAsTold
  LatestIsFollowed
PROPERTY PagesLoad
