\* Two attackers of one mob of any kind, through any number of its lives.
SPECIFICATION Spec
CONSTANTS
  ann = ann  bob = bob
  Chars <- TwoChars
  Mobs <- EveryKind
  MaxHP = 2
  Damages = {1, 3}
  NumDeaths = 2
INVARIANTS TypeOK LifeIsNew ComesBack
PROPERTIES KeepsPromise HealthComesBack
SYMMETRY Alike
CHECK_DEADLOCK FALSE
