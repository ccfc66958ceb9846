\* Requests, sessions and cancellations of three characters; nothing to trade.
SPECIFICATION FairSpec
CONSTANTS
  ann = ann  bob = bob  eve = eve  sword = sword  helm = helm  ring = ring  free = free
  Chars <- ThreeUsers
  Items <- NoItems
  Empty = free
  Untradable <- NoItems
  NumSlots = 0
  TradeSlots = {}
  GoldMod = 1
  RespawnPrice = 5
  Starts <- Nothing
  Leavers <- OnlyAnn
  Losable <- NoItems
  MaxRequests = 2
  MaxEdits = 0
  MaxAccepts = 1
INVARIANTS Pairing
PROPERTIES RequestSettles
