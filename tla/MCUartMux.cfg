SPECIFICATION Spec
CONSTANTS
  BUFFER_SIZE = 4
  Talking = {2}
  Symbol <- MCSymbol
  First <- MCFirst
  Following <- MCFollowing
INVARIANTS
  TypeOK
PROPERTIES
  CouplesRouted
  ForwardsInOrder
  Served
