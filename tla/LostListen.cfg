SPECIFICATION FairSpec
CONSTANTS
  Callers = {"u"}
  MaxConnections = 0
  MaxTries = 1
  CountModulus = 2
  Ports = {80}
  Lengths = {2}
  Callbacks0 <- AllCallbacks
  MaxCalls <- ConnectAndListen
PROPERTIES ListeningOpens
CHECK_DEADLOCK FALSE
