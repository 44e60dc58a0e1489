SPECIFICATION FairSpec
CONSTANTS
  Callers = {"u"}
  MaxConnections = 1
  MaxTries = 1
  CountModulus = 2
  Ports = {80}
  Lengths = {1}
  Callbacks0 <- AllCallbacks
  MaxCalls <- ListenAndSend
PROPERTIES SentIsCalledBack
CHECK_DEADLOCK FALSE
