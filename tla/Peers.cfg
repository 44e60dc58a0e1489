SPECIFICATION Spec
CONSTANTS
  Objects = {1, 2}
  Descriptors = {3, 4}
  Ports = {80}
  Sizes = {}
  DefaultSize = 2
  MaxAddresses = 1
  MaxBytes = 1
  Handles = {1, 2}
  Records = {1, 2}
  MaxConnections = 2
  Lengths = {}
INVARIANTS RecordsOwned PeersNameConnections
