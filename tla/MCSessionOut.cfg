\* Two users on one connection, every packet, writes that fail, one id: the way out.
SPECIFICATION FairSpec
CONSTANTS
  u1 = u1  u2 = u2  ann = ann  bob = bob  s1 = s1  s2 = s2
  None = None
  Users <- TwoUsers
  Chars <- TwoChars
  Conns <- OneConn
  Owner <- OwnedApart
  NumIDs = 1
  MaxLoads = 1
  MaxUsers = 1
  Failing <- OneConn
  Sends <- Play
INVARIANTS TypeOK IdsKept
PROPERTIES EveryoneOut
CHECK_DEADLOCK FALSE
