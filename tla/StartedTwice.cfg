SPECIFICATION Spec
CONSTANTS
  Callers = {"u", "v"}
  MaxConnections = 1
  MaxTries = 1
  CountModulus = 2
  Ports = {80}
  Lengths = {2}
  Callbacks0 <- AllCallbacks
  MaxCalls <- ConnectTwice
INVARIANTS ListenThreadStartedOnce
CHECK_DEADLOCK FALSE
