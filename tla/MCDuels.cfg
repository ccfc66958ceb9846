\* Three characters, two duels.
SPECIFICATION Spec
CONSTANTS
  ann = ann  bob = bob  eve = eve
  None = None
  Chars <- ThreeChars
  Outlaws = {}
  MaxHP = 1
  TenthHP = 1
  Damages = {1}
  NumDuels = 2
  MaxLate = 1
  MaxClosing = 1
  MaxDead = 1
SYMMETRY Alike
INVARIANTS TypeOK DuelIsRegular DeathIsNoticed
CHECK_DEADLOCK FALSE
