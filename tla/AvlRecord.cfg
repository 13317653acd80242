SPECIFICATION Spec
CONSTANTS
  Users <- MCUsers
  Sockets <- MCSockets
INVARIANTS
  SearchTreeOrder
  HeightBalanced
PROPERTY
  ImplementsRecord
