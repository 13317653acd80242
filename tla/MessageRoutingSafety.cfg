SPECIFICATION Spec
CONSTANTS
  alice = alice
  bob = bob
  carol = carol
  a1 = a1
  b1 = b1
  b2 = b2
  c1 = c1
  Users = {alice, bob}
  Sessions = {a1, b1, b2}
  Fds = {1, 2, 3}
  UserOf <- BobTwice
  RcptOf <- ToEachOther
  MaxSent <- AliceWritesOnce
  NoSession = NoSession
INVARIANTS
  TypeOK
  RecordSound
  RecordExact
  ShownOnce
PROPERTIES
  ImplementsMailbox
