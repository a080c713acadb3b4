SPECIFICATION FairSpec
CONSTANTS
  c1 = c1
  c2 = c2
  c3 = c3
  d1 = d1
  d2 = d2
  ann = ann
  bob = bob
  Nobody = Nobody
  NoName = NoName
  NoId = NoId
  NoSocket = NoSocket
  Client = {c1,c2}
  UserOf <- OwnUser
  UserName = {ann, bob}
  MaxUsers = 2
  MaxDevices = 1
  DeviceId = {d1}
  Commands = {"UPLOAD", "DELETE", "LIST"}
  MaxCommands = 1
  MaxKills = 0
  MaxOpening = 1
  Descriptor <- Descriptors
CHECK_DEADLOCK FALSE
PROPERTIES
  LoginCompletes
  ExitCompletes
