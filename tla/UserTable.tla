------------------------------ MODULE UserTable ------------------------------
(***************************************************************************)
(* The user table of the server: the global array users[MAX_USERS] of      *)
(* Server.cpp and the free functions that read and change it.  Each C++    *)
(* function is an operator with its name.  One that changes the array      *)
(* takes the array and returns [result, users]; one that returns a pointer *)
(* returns the index of the array element, with 0 for nullptr.             *)
(*                                                                         *)
(* The loops "for (auto &x : array) if (...) return" choose the first      *)
(* element that satisfies a condition: First of the set of such indexes.   *)
(***************************************************************************)
EXTENDS Integers, FiniteSets, FiniteSetsExt

CONSTANTS
  MaxUsers,     \* MAX_USERS
  MaxDevices,   \* MAX_DEVICES
  UserName,     \* the non-empty user names given on the command line
  DeviceId,     \* the device numbers a client can draw (Box.cpp:29)
  Descriptor,   \* file descriptors of accepted connections
  NoName,       \* "": the name of a free slot
  NoId,         \* -1: the id of a free device entry
  NoSocket      \* -1: no socket of this type

ASSUME UserTableAssumption ==
  /\ MaxUsers \in Nat \ {0}
  /\ MaxDevices \in Nat \ {0}
  /\ Descriptor \subseteq Nat
  /\ NoName \notin UserName
  /\ NoId \notin DeviceId
  /\ NoSocket \notin Descriptor

SocketType == {"T1", "T2", "T3"}
UserSlot   == 1 .. MaxUsers
DeviceSlot == 1 .. MaxDevices

Device == [id     : DeviceId \cup {NoId},
           socket : [SocketType -> Descriptor \cup {NoSocket}]]
User   == [name : UserName \cup {NoName}, devices : [DeviceSlot -> Device]]
Table  == [UserSlot -> User]

NoSockets   == [t \in SocketType |-> NoSocket]
EmptyDevice == [id |-> NoId, socket |-> NoSockets]

\* initiate_user_controller_structure()
EmptyTable ==
  [u \in UserSlot |-> [name    |-> NoName,
                       devices |-> [d \in DeviceSlot |-> EmptyDevice]]]

\* The element a "return at the first match" loop stops at, 0 when none.
First(S) == IF S = {} THEN 0 ELSE Min(S)

-----------------------------------------------------------------------------
(* Look-ups *)

get_user(us, name) == First({u \in UserSlot : us[u].name = name})

\* Searches the devices of a user that is in the table.
DeviceOf(us, u, id) == First({d \in DeviceSlot : us[u].devices[d].id = id})

\* name is never "" here: a name comes from a client's command line.
get_device(us, id, name) ==
  LET u == get_user(us, name) IN IF u = 0 THEN 0 ELSE DeviceOf(us, u, id)

Connected(us, u) == {d \in DeviceSlot : us[u].devices[d].id # NoId}

number_of_devices(us, name) ==
  LET u == get_user(us, name) IN IF u = 0 THEN -1 ELSE Cardinality(Connected(us, u))

\* ERROR (-1), the answer for an unknown user, is true as a condition in C++.
is_device_connected(us, name) ==
  LET u == get_user(us, name) IN u = 0 \/ Connected(us, u) # {}

number_of_users_logged(us) == Cardinality({u \in UserSlot : us[u].name # NoName})

get_available_device(us, name) ==
  LET u == get_user(us, name) IN
  IF u = 0 \/ number_of_devices(us, name) >= MaxDevices
    THEN 0
    ELSE First(DeviceSlot \ Connected(us, u))

-----------------------------------------------------------------------------
(* Updates *)

\* The table with another name in slot u, and with another device in entry d of it.
WithName(us, u, name) ==
  [us EXCEPT ![u] = [name |-> name, devices |-> us[u].devices]]

WithDevice(us, u, d, dev) ==
  [us EXCEPT ![u] = [name    |-> us[u].name,
                     devices |-> [us[u].devices EXCEPT ![d] = dev]]]

\* Mutation: one user fewer fits.
insert_user_OffByOne(us, name) ==
  LET free == First({u \in UserSlot : us[u].name = NoName}) IN
  IF get_user(us, name) # 0
    THEN [result |-> "USER_ALREADY_CONNECTED", users |-> us]
    ELSE IF number_of_users_logged(us) >= MaxUsers - 1 \/ free = 0
      THEN [result |-> "ERROR", users |-> us]
      ELSE [result |-> "SUCCESS", users |-> WithName(us, free, name)]

\* Mutation: the user is not looked for among those in the table.
insert_user_Twice(us, name) ==
  LET free == First({u \in UserSlot : us[u].name = NoName}) IN
  IF free = 0
    THEN [result |-> "ERROR", users |-> us]
    ELSE [result |-> "SUCCESS", users |-> WithName(us, free, name)]

insert_user(us, name) ==
  LET free == First({u \in UserSlot : us[u].name = NoName})
      Is(result) == [result |-> result, users |-> us]
  IN CASE get_user(us, name) # 0               -> Is("USER_ALREADY_CONNECTED")
       [] /\ get_user(us, name) = 0
          /\ \/ number_of_users_logged(us) >= MaxUsers
             \/ free = 0                        -> Is("ERROR")
       [] OTHER -> [result |-> "SUCCESS", users |-> WithName(us, free, name)]

\* Mutation: the device is not looked for among those connected.
insert_device_Twice(us, name, id) ==
  LET u    == get_user(us, name)
      free == get_available_device(us, name)
  IN IF u = 0 \/ free = 0
       THEN [result |-> IF u = 0 THEN "ERROR" ELSE "MAX_DEVICES_REACHED", users |-> us]
       ELSE [result |-> "SUCCESS",
             users  |-> WithDevice(us, u, free,
                          [id |-> id, socket |-> us[u].devices[free].socket])]

insert_device(us, name, id) ==
  LET u    == get_user(us, name)
      free == get_available_device(us, name)
      Is(result) == [result |-> result, users |-> us]
  IN CASE u = 0                                     -> Is("ERROR")
       [] u # 0 /\ DeviceOf(us, u, id) # 0          -> Is("DEVICE_ALREADY_CONNECTED")
       [] u # 0 /\ DeviceOf(us, u, id) = 0 /\ free = 0 -> Is("MAX_DEVICES_REACHED")
       [] OTHER -> [result |-> "SUCCESS",
                    users  |-> WithDevice(us, u, free,
                                 [id |-> id, socket |-> us[u].devices[free].socket])]

\* Mutation: the device's other sockets are reset.
insert_socket_Alone(us, name, id, socket, type) ==
  WithDevice(us, get_user(us, name), get_device(us, id, name),
             [id |-> id, socket |-> [NoSockets EXCEPT ![type] = socket]])

\* Only called for a device that insert_device has just found or made.
insert_socket(us, name, id, socket, type) ==
  LET u == get_user(us, name)
      d == get_device(us, id, name)
      dev == us[u].devices[d]
  IN WithDevice(us, u, d, [id     |-> dev.id,
                           socket |-> [dev.socket EXCEPT ![type] = socket]])

\* Mutation: the sockets become 0, not -1.
remove_device_Zeroes(us, name, id) ==
  LET u == get_user(us, name)
      d == get_device(us, id, name)
  IN IF d = 0
       THEN [result |-> "ERROR", users |-> us]
       ELSE [result |-> "SUCCESS",
             users  |-> WithDevice(us, u, d, [id |-> NoId, socket |-> [t \in SocketType |-> 0]])]

remove_device(us, name, id) ==
  LET u == get_user(us, name)
      d == get_device(us, id, name)
  IN IF d = 0
       THEN [result |-> "ERROR", users |-> us]
       ELSE [result |-> "SUCCESS", users |-> WithDevice(us, u, d, EmptyDevice)]

\* Mutation: ... even if a device is still connected.
remove_user_Unchecked(us, name) ==
  [u \in UserSlot |-> [name    |-> IF us[u].name = name THEN NoName ELSE us[u].name,
                       devices |-> us[u].devices]]

\* Every slot with this name is freed, unless a device is still connected.
remove_user(us, name) ==
  IF is_device_connected(us, name)
    THEN us
    ELSE [u \in UserSlot |->
            [name    |-> IF us[u].name = name THEN NoName ELSE us[u].name,
             devices |-> us[u].devices]]

-----------------------------------------------------------------------------
(***************************************************************************)
(* The decision on a connection packet: which answer the client gets and   *)
(* what the table becomes.  The code ends the thread after every "nack".   *)
(***************************************************************************)
handle_user_controller_structure(us, name, id, type, socket) ==
  LET u == insert_user(us, name)
      d == insert_device(u.users, name, id)
      Answer(reply, table) == [reply |-> reply, users |-> table]
  IN CASE u.result = "ERROR"             -> Answer("nack1", us)
       [] u.result = "MAX_USERS_REACHED" -> Answer("nack2", us)
       [] /\ u.result = "USER_ALREADY_CONNECTED"
          /\ d.result = "MAX_DEVICES_REACHED" -> Answer("nack3", us)
       [] /\ u.result = "SUCCESS"
          /\ d.result = "ERROR"          -> Answer("nack5", remove_user(d.users, name))
       [] OTHER -> Answer("ack", insert_socket(d.users, name, id, socket, type))

\* Mutation: the user goes first, when its device is still there.
Logout_UserFirst(us, name, id) == remove_device(remove_user(us, name), name, id).users

\* Mutation: the table is left alone.
Logout_Forgotten(us, name, id) == us

\* exitCommand's use of the table, shared with the secondary's receiveExitFromPrimary.
Logout(us, name, id) ==
  LET r == remove_device(us, name, id) IN
  IF r.result = "SUCCESS" THEN remove_user(r.users, name) ELSE us

-----------------------------------------------------------------------------
(* What a well-formed table is. *)

UniqueNames(us) ==
  \A u, v \in UserSlot : us[u].name = us[v].name /\ us[u].name # NoName => u = v

UniqueIds(us) ==
  \A u \in UserSlot : \A d, e \in DeviceSlot :
     us[u].devices[d].id = us[u].devices[e].id /\ us[u].devices[d].id # NoId => d = e

\* A device entry that is free holds no socket, one that is taken holds one.
SocketsOfDevices(us) ==
  \A u \in UserSlot : \A d \in DeviceSlot :
     us[u].devices[d].id = NoId <=> us[u].devices[d].socket = NoSockets

\* A slot is taken exactly while its user has a device.
NamedWhileConnected(us) ==
  \A u \in UserSlot : us[u].name # NoName <=> Connected(us, u) # {}

WellFormed(us) ==
  /\ UniqueNames(us)
  /\ UniqueIds(us)
  /\ SocketsOfDevices(us)
  /\ NamedWhileConnected(us)
=============================================================================
