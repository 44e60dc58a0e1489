SPECIFICATION Spec
CONSTANTS
  Objects = {1, 2}
  Descriptors = {3}
  Ports = {80}
  Sizes = {2}
  DefaultSize = 2
  MaxAddresses = 1
  MaxBytes = 1
  Handles = {}
  Records = {}
  MaxConnections = 1
  Lengths = {1}
INVARIANTS ConnectedIsEstablished
