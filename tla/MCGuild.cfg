\* Three characters, two guilds, two members allowed.
SPECIFICATION Spec
CONSTANTS
  ann = ann  bob = bob  eve = eve
  None = None
  Chars <- ThreeChars
  MaxGuilds = 2
  MaxMembers = 2
  Price = 1
  InitGold = 1
  MaxCalls = 2
  MaxAsked = 1
  MaxLost = 1
  NewRoles <- Sages
SYMMETRY Alike
INVARIANTS TypeOK GuildsAgree GuildsAreLed
CHECK_DEADLOCK FALSE
