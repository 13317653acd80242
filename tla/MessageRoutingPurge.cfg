SPECIFICATION Spec
CONSTANTS
  alice = alice
  bob = bob
  carol = carol
  a1 = a1
  b1 = b1
  b2 = b2
  c1 = c1
  Users = {alice, bob, carol}
  Sessions = {a1, b1, c1}
  Fds = {1, 2}
  UserOf <- OneEach
  RcptOf <- AliceToBob
  MaxSent <- AliceWrites
  NoSession = NoSession
PROPERTY
  PurgedWasFetched
