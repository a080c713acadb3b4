SPECIFICATION Spec
CONSTANTS
  c1 = c1
  c2 = c2
  c3 = c3
  d1 = d1
  d2 = d2
  ann = ann
  bob = bob
  Nobody = Nobody
  NoName = NoName
  NoId = NoId
  NoSocket = NoSocket
  Client = {c1,c2}
  UserOf <- SameUser
  UserName = {ann}
  MaxUsers = 2
  MaxDevices = 2
  DeviceId = {d1, d2}
  Commands = {"UPLOAD", "DELETE"}
  MaxCommands = 1
  MaxKills = 1
  MaxOpening = 1
  Descriptor <- Descriptors
SYMMETRY Symmetry
CHECK_DEADLOCK FALSE
INVARIANTS
  TableOK
  Invariant
  Standing
  Exclusion
  SocketsOwned
  OpenConnectionListed
  
  NullOnlyWhenDisplaced
PROPERTIES
  OnlyExitDetaches
  ImplementsDirectory
