SPECIFICATION Spec
CONSTANTS
  Callers = {u, v}
  MaxConnections = 1
  MaxTries = 1
  CountModulus = 2
  Ports = {80}
  Lengths = {1}
  Callbacks0 <- SomeCallbacks
  MaxCalls <- ShutdownCalls
SYMMETRY Symmetry
INVARIANTS JoinedWhenDestroyed StartedOnce NeverTerminates
CHECK_DEADLOCK FALSE
