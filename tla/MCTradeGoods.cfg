\* Two characters that trade items, or gold: edits, acceptances, completion; a bag that may
\* be too full for what comes.
SPECIFICATION Spec
CONSTANTS
  ann = ann  bob = bob  eve = eve  sword = sword  helm = helm  ring = ring  free = free
  Chars <- TwoUsers
  Items <- SomeItems
  Empty = free
  Untradable <- Bound
  NumSlots = 2
  TradeSlots = {1, 2}
  GoldMod = 4
  RespawnPrice = 1
  Starts <- ItemsOrGold
  Leavers <- OnlyAnn
  Losable <- OnlySword
  MaxRequests = 1
  MaxEdits = 1
  MaxAccepts = 2
INVARIANTS TypeOK ItemsUnique
PROPERTIES OffersFrozen GoldConserved ExchangeIsAgreed
