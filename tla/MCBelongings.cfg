\* One character, 32 stocks of a few things, pets and NPCs each, everything done with them.
SPECIFICATION FairSpec
CONSTANTS
  None = None
  Bag = {1, 2, 3, 4}
  Extra = {4}
  Worn = {0}
  Kinds <- AllKinds
  Type <- Types
  Stackable <- Stacks1
  MaxPlus = 3
  MaxSockets = 2
  MaxQty = 2
  MaxGold = 9
  Exempt <- NoLimit
  Cost <- BoxCost
  Gives <- InBoxes
  Key <- Keys
  Fee <- Fees
  Coin <- Coins
  SellPrice <- Worth
  Needs <- Materials
  Makes <- Results
  Melts <- MeltsInto
  Breaks <- Breaking
  Fragile <- Breakable
  Pair <- Pairs
  Master <- Masters
  Faithful <- Keeping
  PlusLimit = 2
  BaguaStones = 2
  Books <- ClassBooks
  Tribute <- Tributes
  Exchanges <- Trades
  Relics <- RelicTrade
  Gifts <- Presents
  LotPrice = 1
  Stocks <- SomeStocks
INVARIANTS TypeOK RowsFollow GearIsWhole EffectsFit
PROPERTIES RunsOut
CHECK_DEADLOCK FALSE
