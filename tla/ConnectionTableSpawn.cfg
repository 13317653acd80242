SPECIFICATION Spec
CONSTANTS
  Clients = {c1, c2}
  Fds = {f1, f2}
  MAX_CLIENTS = 2
  NoClient = NoClient
PROPERTY
  ThreadServesItsClient
CHECK_DEADLOCK FALSE
