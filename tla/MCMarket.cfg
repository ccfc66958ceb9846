\* Two characters that sell, consign, buy and use two items, with calls that wait; no
\* further than two calls meet.
SPECIFICATION Spec
CONSTANTS
  ann = ann  bob = bob  sword = sword  cap = cap  None = None
  Chars <- TwoChars
  Items <- TwoItems
  NumSlots = 1
  Price <- Costs
  Fee <- Fees
  NumCalls = 3
  NumSales = 2
  StartGold = 2
  MaxGold = 4
SYMMETRY Symmetry
CONSTRAINT Uncrossed
INVARIANTS TypeOK SalesBalance NoDebt
CHECK_DEADLOCK FALSE
