\* Two characters that share a bank of one slot, bags of two, two rows.
SPECIFICATION BagSpec
CONSTANTS
  ann = ann  bob = bob
  Null = Null
  Owners <- TwoChars
  Kinds <- SwordAndPotion
  Stackable <- Potion
  Bag <- TwoSlots
  Bank <- OneSlot
  MaxRow = 2
  MaxQty = 2
  MaxCalls = 1
SYMMETRY EitherChar
INVARIANTS BagTypeOK BagIsKept
PROPERTIES NothingLostInMoves
CHECK_DEADLOCK FALSE
