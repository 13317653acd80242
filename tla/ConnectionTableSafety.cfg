SPECIFICATION Spec
CONSTANTS
  Clients = {c1, c2, c3}
  Fds = {f1, f2}
  MAX_CLIENTS = 2
  NoClient = NoClient
SYMMETRY Symmetry
INVARIANTS
  TypeOK
  MiscountBounded
PROPERTY
  ReapSparesLive
CHECK_DEADLOCK FALSE
