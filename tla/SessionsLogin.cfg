SPECIFICATION Spec
CONSTANTS
  c1 = c1
  c2 = c2
  c3 = c3
  d1 = d1
  d2 = d2
  ann = ann
  bob = bob
  Nobody = Nobody
  NoName = NoName
  NoId = NoId
  NoSocket = NoSocket
  Client = {c1,c2}
  UserOf <- SameUser
  UserName = {ann}
  MaxUsers = 1
  MaxDevices = 1
  DeviceId = {d1, d2}
  Commands = {}
  MaxCommands = 0
  MaxKills = 0
  MaxOpening = 2
  Descriptor <- Descriptors
SYMMETRY Symmetry
CHECK_DEADLOCK FALSE
INVARIANTS
  TypeOK
  AbandonedOnlyWhenFull
PROPERTIES
  FrozenAfterRefusal
