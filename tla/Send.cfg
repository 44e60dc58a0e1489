SPECIFICATION FairSpec
CONSTANTS
  Callers = {"u"}
  MaxConnections = 1
  MaxTries = 1
  CountModulus = 2
  Ports = {80}
  Lengths = {2}
  Callbacks0 <- NoStoppedListening
  MaxCalls <- SendCalls
INVARIANTS LocksProtect IteratorsValid SentInOrder
PROPERTIES QueuedDataHandled StopClosesListener
