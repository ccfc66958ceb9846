\* One connection plays, another comes for the same character.
SPECIFICATION Spec
CONSTANTS
  u1 = u1  u2 = u2  ann = ann  bob = bob  s1 = s1  s2 = s2
  None = None
  Users <- OneUser
  Chars <- OneChar
  Conns <- TwoConns
  Owner <- SameOwner
  NumIDs = 2
  MaxLoads = 2
  MaxUsers = 1
  Failing = {}
  Sends <- ComesBack
INVARIANTS OnlineIsFound
CHECK_DEADLOCK FALSE
