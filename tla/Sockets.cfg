SPECIFICATION FairSpec
CONSTANTS
  Objects = {1, 2, 3}
  Descriptors = {3, 4}
  Ports = {80}
  Sizes = {2}
  DefaultSize = 2
  MaxAddresses = 2
  MaxBytes = 1
  Handles = {}
  Records = {}
  MaxConnections = 2
  Lengths = {1}
INVARIANTS TypeOK DescriptorsOwned SocketsOwned FlagsAgree
PROPERTIES NeverRedialled ImplementsTable LostConnectionsRemoved
