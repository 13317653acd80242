SPECIFICATION FairSpec
CONSTANTS
  MaxStored = 3
  MaxLines = 6
  MaxInFlight = 2
  MaxStrays = 1
INVARIANTS
  TypeOK
  FetchedInOrder
  NeverBothWait
  LastOkArrives
PROPERTIES
  FetchCompletes
  QuietClientComesOnline
  
CHECK_DEADLOCK FALSE
