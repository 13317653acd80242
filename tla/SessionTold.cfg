SPECIFICATION Spec
CONSTANTS
  MaxStored = 1
  MaxLines = 2
  MaxInFlight = 2
  MaxStrays = 0
INVARIANT
  HandshakeTold
CHECK_DEADLOCK FALSE
