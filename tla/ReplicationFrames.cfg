SPECIFICATION Spec
CONSTANTS
  w1 = w1
  w2 = w2
  n1 = n1
  n2 = n2
  n3 = n3
  f1 = f1
  d1 = d1
  d2 = d2
  ann = ann
  bob = bob
  Nobody = Nobody
  NoName = NoName
  NoId = NoId
  NoSocket = NoSocket
  NoServer = NoServer
  NoFile = NoFile
  Worker = {w1, w2}
  Server = {n1}
  File = {f1}
  MaxServers = 1
  OldUser = {ann}
  Workload <- Everything
  MaxOps = 4
  MaxKills = 1
  UserName = {ann, bob}
  MaxUsers = 1
  MaxDevices = 2
  DeviceId = {d1, d2}
  Descriptor <- Descriptors
SYMMETRY Symmetry
CHECK_DEADLOCK FALSE
INVARIANTS
  TypeOK
  FollowsPrimary
  SecondaryHasRoom
  OneLockNeverMixes
  FilesMirrored
PROPERTIES
  ChangesInOrder
