SPECIFICATION FairSpec
CONSTANTS
  r1 = r1
  r2 = r2
  pair = pair
  Nothing = Nothing
  NUM_SPAM_DETECTORS = 2
  Requests = {r1, r2}
  PairOf <- SamePair
  MaxTime = 1
  QueueSize = 1
  Instances <- FaultsAndCalls
INVARIANTS
  TypeOK
  OwnVerdict
  DetectorFindsMessage
  SignalComes
  AwaitedAreSignalled
PROPERTIES
  CallReturns
  StopEnds
CHECK_DEADLOCK FALSE
