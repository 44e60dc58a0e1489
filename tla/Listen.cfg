SPECIFICATION Spec
CONSTANTS
  Callers = {"u", "v"}
  MaxConnections = 1
  MaxTries = 1
  CountModulus = 2
  Ports = {0, 80, 81}
  Lengths = {2}
  Callbacks0 <- NoStoppedListening
  MaxCalls <- ListenCalls
INVARIANTS  ListensAtLastPort PeersOwnSockets ClosedSocketsScheduled
CHECK_DEADLOCK FALSE
