SPECIFICATION FairSpec
CONSTANTS
  Callers = {"u"}
  MaxConnections = 2
  MaxTries = 2
  CountModulus = 2
  Ports = {80}
  Lengths = {2}
  Callbacks0 <- AllCallbacks
  MaxCalls <- ConnectCalls
INVARIANTS TypeOK FrontExists DialledInOrder
PROPERTIES TableFixedWhileIterated ImplementsTable ScheduledPeersRemoved EveryRequestDialled
