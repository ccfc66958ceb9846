\* Three characters, two parties, two invitations.
SPECIFICATION FairSpec
CONSTANTS
  ann = ann  bob = bob  eve = eve
  None = None
  Chars <- ThreeChars
  MaxParties = 2
  MaxInvites = 2
  MaxMembers = 1
INVARIANTS TypeOK PartiesAgree
PROPERTIES InvitesSettle
CHECK_DEADLOCK FALSE
