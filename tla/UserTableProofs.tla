--------------------------- MODULE UserTableProofs ---------------------------
(***************************************************************************)
(* Facts about the functions of the user table: what the look-ups return   *)
(* and what a login and a logout do to the table.  This module is about    *)
(* the data alone; SessionsProofs uses it for the behaviours.              *)
(***************************************************************************)
EXTENDS UserTable, TLAPS, FiniteSetTheorems, WellFoundedInduction

\* Min is what its name says, on sets of natural numbers.
LEMMA MinNat ==
  ASSUME NEW S \in SUBSET Nat, S # {}
  PROVE  Min(S) \in S /\ \A x \in S : Min(S) <= x
<1>1. \E x \in S : \A y \in S : ~ (<<y, x>> \in OpToRel(<, Nat))
  BY NatLessThanWellFounded, WFMin
<1>2. PICK x \in S : \A y \in S : ~ (<<y, x>> \in OpToRel(<, Nat))
  BY <1>1
<1>3. \A y \in S : x <= y
  <2> TAKE y \in S
  <2>1. x \in Nat /\ y \in Nat
    OBVIOUS
  <2>2. ~ (y < x)
    BY <1>2, <2>1 DEF OpToRel
  <2> QED
    BY <2>1, <2>2
<1> QED
  BY <1>3 DEF Min

\* A search returns an element it looked for, and nullptr only if there is none.
LEMMA FirstFound ==
  ASSUME NEW S \in SUBSET (Nat \ {0})
  PROVE  /\ First(S) = 0 <=> S = {}
         /\ First(S) # 0 => First(S) \in S
BY MinNat DEF First

\* Slots and entries are positive numbers, so a search among them can use First.
LEMMA SlotNumbers ==
  /\ UserSlot \subseteq Nat \ {0}
  /\ DeviceSlot \subseteq Nat \ {0}
BY UserTableAssumption DEF UserSlot, DeviceSlot

\* get_user finds the slot of the name, and nullptr only if no slot has it.
LEMMA GetUser ==
  ASSUME NEW us, NEW name
  PROVE  /\ get_user(us, name) # 0 =>
              get_user(us, name) \in UserSlot /\ us[get_user(us, name)].name = name
         /\ get_user(us, name) = 0 => \A u \in UserSlot : us[u].name # name
<1> DEFINE S == {u \in UserSlot : us[u].name = name}
<1>1. S \in SUBSET (Nat \ {0})
  BY SlotNumbers
<1> QED
  BY <1>1, FirstFound DEF get_user

\* The search of a user's devices finds the entry of the id, or none has it.
LEMMA FindDevice ==
  ASSUME NEW us, NEW u, NEW id
  PROVE  /\ DeviceOf(us, u, id) # 0 =>
              /\ DeviceOf(us, u, id) \in DeviceSlot
              /\ us[u].devices[DeviceOf(us, u, id)].id = id
         /\ DeviceOf(us, u, id) = 0 => \A d \in DeviceSlot : us[u].devices[d].id # id
<1> DEFINE S == {d \in DeviceSlot : us[u].devices[d].id = id}
<1>1. S \in SUBSET (Nat \ {0})
  BY SlotNumbers
<1> QED
  BY <1>1, FirstFound DEF DeviceOf

\* get_device finds the device of a user in the table, nullptr for an unknown one.
LEMMA GetDevice ==
  ASSUME NEW us, NEW name, NEW id, get_device(us, id, name) # 0
  PROVE  /\ get_user(us, name) \in UserSlot
         /\ us[get_user(us, name)].name = name
         /\ get_device(us, id, name) \in DeviceSlot
         /\ us[get_user(us, name)].devices[get_device(us, id, name)].id = id
<1>1. /\ get_user(us, name) # 0
      /\ get_device(us, id, name) = DeviceOf(us, get_user(us, name), id)
  BY DEF get_device
<1> QED
  BY <1>1, GetUser, FindDevice

\* A free entry is available unless all are taken.
LEMMA AvailableDevice ==
  ASSUME NEW us, NEW name, get_user(us, name) # 0
  PROVE  LET u == get_user(us, name)
             d == get_available_device(us, name)
         IN /\ d # 0 => d \in DeviceSlot /\ us[u].devices[d].id = NoId
            /\ d = 0 => Connected(us, u) # {}
<1> DEFINE u == get_user(us, name)
           S == DeviceSlot \ Connected(us, u)
<1>1. S \in SUBSET (Nat \ {0})
  BY SlotNumbers
<1>2. First(S) # 0 => First(S) \in DeviceSlot /\ us[u].devices[First(S)].id = NoId
  BY <1>1, FirstFound DEF Connected
<1>3. First(S) = 0 => DeviceSlot \subseteq Connected(us, u)
  BY <1>1, FirstFound
<1>4. 1 \in DeviceSlot
  BY UserTableAssumption DEF DeviceSlot
<1>5. Connected(us, u) = {} => ~ (number_of_devices(us, name) >= MaxDevices)
  <2> HAVE Connected(us, u) = {}
  <2>1. number_of_devices(us, name) = 0
    BY FS_EmptySet DEF number_of_devices
  <2> QED
    BY <2>1, UserTableAssumption
<1> QED
  BY <1>2, <1>3, <1>4, <1>5 DEF get_available_device

-----------------------------------------------------------------------------
(* Logins *)

\* A table entry, taken apart.
LEMMA TableEntry ==
  ASSUME NEW us \in Table, NEW u \in UserSlot
  PROVE  /\ us[u] = [name |-> us[u].name, devices |-> us[u].devices]
         /\ us[u].name \in UserName \cup {NoName}
         /\ us[u].devices \in [DeviceSlot -> Device]
         /\ \A d \in DeviceSlot :
              /\ us[u].devices[d] = [id |-> us[u].devices[d].id,
                                     socket |-> us[u].devices[d].socket]
              /\ us[u].devices[d].id \in DeviceId \cup {NoId}
              /\ us[u].devices[d].socket \in [SocketType -> Descriptor \cup {NoSocket}]
BY DEF Table, User, Device

\* The two updates of the table.
LEMMA WithNameIs ==
  ASSUME NEW us \in Table, NEW u \in UserSlot, NEW name \in UserName \cup {NoName}
  PROVE  /\ WithName(us, u, name) \in Table
         /\ WithName(us, u, name)[u].name = name
         /\ WithName(us, u, name)[u].devices = us[u].devices
         /\ \A v \in UserSlot \ {u} : WithName(us, u, name)[v] = us[v]
<1>1. [name |-> name, devices |-> us[u].devices] \in User
  BY TableEntry DEF User
<1> QED
  BY <1>1 DEF WithName, Table

\* Writing the name that is there changes nothing.
LEMMA WithOwnName ==
  ASSUME NEW us \in Table, NEW u \in UserSlot
  PROVE  WithName(us, u, us[u].name) = us
<1>1. [name |-> us[u].name, devices |-> us[u].devices] = us[u]
  BY TableEntry
<1>2. [us EXCEPT ![u] = us[u]] = us
  BY DEF Table
<1> QED
  BY <1>1, <1>2 DEF WithName

\* A table with another device in one entry: all other entries are as before.
LEMMA WithDeviceIs ==
  ASSUME NEW us \in Table, NEW u \in UserSlot, NEW d \in DeviceSlot, NEW dev \in Device,
         NEW vs, vs = WithDevice(us, u, d, dev)
  PROVE  /\ vs \in Table
         /\ vs[u].name = us[u].name
         /\ vs[u].devices[d] = dev
         /\ \A e \in DeviceSlot \ {d} : vs[u].devices[e] = us[u].devices[e]
         /\ \A v \in UserSlot \ {u} : vs[v] = us[v]
<1>1. [us[u].devices EXCEPT ![d] = dev] \in [DeviceSlot -> Device]
  BY TableEntry
<1>2. [name |-> us[u].name, devices |-> [us[u].devices EXCEPT ![d] = dev]] \in User
  BY <1>1, TableEntry DEF User
<1> QED
  BY <1>1, <1>2, TableEntry DEF WithDevice, Table

\* The devices of the slot that was changed.
LEMMA WithDeviceDevices ==
  ASSUME NEW us \in Table, NEW u \in UserSlot, NEW d \in DeviceSlot, NEW dev \in Device,
         NEW vs, vs = WithDevice(us, u, d, dev)
  PROVE  vs[u].devices = [us[u].devices EXCEPT ![d] = dev]
BY DEF WithDevice, Table

\* The table after device id of user name, in entry d of slot u, got a socket.
Seated(us, u, d, name, id, type, socket) ==
  WithDevice(WithName(us, u, name), u, d,
             [id     |-> id,
              socket |-> [us[u].devices[d].socket EXCEPT ![type] = socket]])

\* Entry d of slot u is where device id of user name is, or a free place for it.
SeatFor(us, u, d, name, id) ==
  /\ \/ us[u].name = name
     \/ us[u].name = NoName /\ \A v \in UserSlot : us[v].name # name
  /\ \/ us[u].devices[d].id = id
     \/ us[u].devices[d].id = NoId /\ \A e \in DeviceSlot : us[u].devices[e].id # id

\* What a login writes into the table.
LEMMA SeatedIs ==
  ASSUME NEW us \in Table, NEW u \in UserSlot, NEW d \in DeviceSlot, NEW name \in UserName,
         NEW id \in DeviceId, NEW type \in SocketType, NEW socket \in Descriptor, NEW vs,
         vs = Seated(us, u, d, name, id, type, socket)
  PROVE  /\ vs \in Table
         /\ vs[u].name = name
         /\ vs[u].devices[d].id = id
         /\ \A t \in SocketType :
              vs[u].devices[d].socket[t] =
                 IF t = type THEN socket ELSE us[u].devices[d].socket[t]
         /\ \A e \in DeviceSlot \ {d} : vs[u].devices[e] = us[u].devices[e]
         /\ \A v \in UserSlot \ {u} : vs[v] = us[v]
<1> DEFINE ws  == WithName(us, u, name)
           dev == [id |-> id, socket |-> [us[u].devices[d].socket EXCEPT ![type] = socket]]
<1>1. [us[u].devices[d].socket EXCEPT ![type] = socket] \in [SocketType -> Descriptor \cup {NoSocket}]
  BY TableEntry
<1>2. dev \in Device
  BY <1>1 DEF Device
<1>3. /\ ws \in Table /\ ws[u].name = name /\ ws[u].devices = us[u].devices
      /\ \A v \in UserSlot \ {u} : ws[v] = us[v]
  BY WithNameIs
<1>4. vs = WithDevice(ws, u, d, dev)
  BY DEF Seated
<1>5. /\ dev.id = id
      /\ \A t \in SocketType :
            dev.socket[t] = IF t = type THEN socket ELSE us[u].devices[d].socket[t]
  BY TableEntry
<1> HIDE DEF ws, dev
<1>6. /\ vs \in Table
      /\ vs[u].name = ws[u].name
      /\ vs[u].devices[d] = dev
      /\ \A e \in DeviceSlot \ {d} : vs[u].devices[e] = ws[u].devices[e]
      /\ \A v \in UserSlot \ {u} : vs[v] = ws[v]
  BY <1>2, <1>3, <1>4, WithDeviceIs
<1> QED
  BY <1>3, <1>5, <1>6

\* What insert_user does.
LEMMA InsertUserReturns ==
  ASSUME NEW us, NEW name, NEW r, r = insert_user(us, name)
  PROVE  /\ r.result \in {"USER_ALREADY_CONNECTED", "ERROR", "SUCCESS"}
         /\ r.result # "SUCCESS" => r.users = us
         /\ r.result = "USER_ALREADY_CONNECTED" <=> get_user(us, name) # 0
         /\ r.result = "SUCCESS" =>
              \E u \in UserSlot : /\ us[u].name = NoName
                                 /\ r.users = WithName(us, u, name)
<1> DEFINE S == {u \in UserSlot : us[u].name = NoName}
           free == First(S)
<1>1. S \in SUBSET (Nat \ {0})
  BY SlotNumbers
<1>2. free # 0 => free \in UserSlot /\ us[free].name = NoName
  BY <1>1, FirstFound
<1>3. CASE get_user(us, name) # 0
  <2>1. r = [result |-> "USER_ALREADY_CONNECTED", users |-> us]
    BY <1>3 DEF insert_user
  <2> QED
    BY <2>1, <1>3
<1>4. CASE get_user(us, name) = 0 /\ (number_of_users_logged(us) >= MaxUsers \/ free = 0)
  <2>1. r = [result |-> "ERROR", users |-> us]
    BY <1>4 DEF insert_user
  <2> QED
    BY <2>1, <1>4
<1>5. CASE get_user(us, name) = 0 /\ ~ (number_of_users_logged(us) >= MaxUsers \/ free = 0)
  <2>1. r = [result |-> "SUCCESS", users |-> WithName(us, free, name)]
    BY <1>5 DEF insert_user
  <2>2. r.result = "SUCCESS" /\ r.users = WithName(us, free, name)
    BY <2>1
  <2>3. free \in UserSlot /\ us[free].name = NoName
    BY <1>2, <1>5
  <2> HIDE DEF free
  <2> QED
    BY <2>2, <2>3, <1>5
<1> QED
  BY <1>3, <1>4, <1>5

\* What insert_device does, for a user in the table.
LEMMA InsertDeviceReturns ==
  ASSUME NEW us, NEW name, NEW id, NEW u, NEW r,
         u = get_user(us, name), u # 0, r = insert_device(us, name, id)
  PROVE  /\ r.result \in {"DEVICE_ALREADY_CONNECTED", "MAX_DEVICES_REACHED", "SUCCESS"}
         /\ r.result = "DEVICE_ALREADY_CONNECTED" =>
              r.users = us /\ \E d \in DeviceSlot : us[u].devices[d].id = id
         /\ r.result = "MAX_DEVICES_REACHED" => Connected(us, u) # {}
         /\ r.result = "SUCCESS" =>
              \E d \in DeviceSlot :
                 /\ us[u].devices[d].id = NoId
                 /\ \A e \in DeviceSlot : us[u].devices[e].id # id
                 /\ r.users = WithDevice(us, u, d,
                                  [id |-> id, socket |-> us[u].devices[d].socket])
<1> DEFINE free == get_available_device(us, name)
<1>1. CASE DeviceOf(us, u, id) # 0
  <2>1. r = [result |-> "DEVICE_ALREADY_CONNECTED", users |-> us]
    BY <1>1 DEF insert_device
  <2> QED
    BY <2>1, <1>1, FindDevice
<1>2. CASE DeviceOf(us, u, id) = 0 /\ free = 0
  <2>1. r = [result |-> "MAX_DEVICES_REACHED", users |-> us]
    BY <1>2 DEF insert_device
  <2> QED
    BY <2>1, <1>2, AvailableDevice
<1>3. CASE DeviceOf(us, u, id) = 0 /\ free # 0
  <2>1. r = [result |-> "SUCCESS",
             users  |-> WithDevice(us, u, free, [id |-> id, socket |-> us[u].devices[free].socket])]
    BY <1>3 DEF insert_device
  <2>2. free \in DeviceSlot /\ us[u].devices[free].id = NoId
    BY <1>3, AvailableDevice
  <2>3. \A e \in DeviceSlot : us[u].devices[e].id # id
    BY <1>3, FindDevice
  <2>4. /\ r.result = "SUCCESS"
        /\ r.users = WithDevice(us, u, free, [id |-> id, socket |-> us[u].devices[free].socket])
    BY <2>1
  <2> HIDE DEF free
  <2> QED
    BY <2>2, <2>3, <2>4
<1> QED
  BY <1>1, <1>2, <1>3

\* A table in which the slots and their devices agree.
LEMMA FreeSlotIsEmpty ==
  ASSUME NEW us \in Table, NamedWhileConnected(us), NEW u \in UserSlot, us[u].name = NoName
  PROVE  Connected(us, u) = {} /\ \A d \in DeviceSlot : us[u].devices[d].id = NoId
BY DEF NamedWhileConnected, Connected

\* insert_device followed by insert_socket fills one entry of the user's slot.
LEMMA SeatDevice ==
  ASSUME NEW us \in Table, NEW name \in UserName, NEW id \in DeviceId,
         NEW type \in SocketType, NEW socket \in Descriptor, NEW u, NEW r,
         u = get_user(us, name), u # 0, r = insert_device(us, name, id),
         r.result # "MAX_DEVICES_REACHED"
  PROVE  \E d \in DeviceSlot :
            /\ \/ us[u].devices[d].id = id
               \/ us[u].devices[d].id = NoId /\ \A e \in DeviceSlot : us[u].devices[e].id # id
            /\ insert_socket(r.users, name, id, socket, type) =
                  Seated(us, u, d, name, id, type, socket)
<1>1. u \in UserSlot /\ us[u].name = name
  BY GetUser
<1>2. CASE r.result = "DEVICE_ALREADY_CONNECTED"
  <2>1. r.users = us
    BY <1>2, InsertDeviceReturns
  <2>2. PICK e \in DeviceSlot : us[u].devices[e].id = id
    BY <1>2, InsertDeviceReturns
  <2> DEFINE d == DeviceOf(us, u, id)
  <2>3. d \in DeviceSlot /\ us[u].devices[d].id = id
    BY <2>2, FindDevice
  <2>4. get_device(us, id, name) = d
    BY DEF get_device
  <2>5. insert_socket(us, name, id, socket, type) =
          WithDevice(us, u, d, [id |-> us[u].devices[d].id,
                                socket |-> [us[u].devices[d].socket EXCEPT ![type] = socket]])
    BY <2>4 DEF insert_socket
  <2>6. WithName(us, u, name) = us
    BY <1>1, WithOwnName
  <2> HIDE DEF d
  <2> QED
    BY <2>1, <2>3, <2>5, <2>6 DEF Seated
<1>3. CASE r.result = "SUCCESS"
  <2>1. PICK d \in DeviceSlot :
          /\ us[u].devices[d].id = NoId
          /\ \A e \in DeviceSlot : us[u].devices[e].id # id
          /\ r.users = WithDevice(us, u, d, [id |-> id, socket |-> us[u].devices[d].socket])
    BY <1>3, InsertDeviceReturns
  <2> DEFINE dev == [id |-> id, socket |-> us[u].devices[d].socket]
             new == WithDevice(us, u, d, dev)
             fin == [id |-> id, socket |-> [us[u].devices[d].socket EXCEPT ![type] = socket]]
  <2>2. dev \in Device /\ dev.id = id /\ dev.socket = us[u].devices[d].socket
    BY <1>1, TableEntry DEF Device
  <2> HIDE DEF dev
  <2>3. /\ new \in Table
        /\ new[u].name = name
        /\ new[u].devices[d] = dev
        /\ \A e \in DeviceSlot \ {d} : new[u].devices[e] = us[u].devices[e]
        /\ \A v \in UserSlot \ {u} : new[v] = us[v]
    BY <1>1, <2>2, WithDeviceIs
  <2> HIDE DEF new
  <2>4. get_user(new, name) = u
    <3>1. {v \in UserSlot : new[v].name = name} = {v \in UserSlot : us[v].name = name}
      BY <1>1, <2>3
    <3> QED
      BY <3>1 DEF get_user
  <2>5. {e \in DeviceSlot : new[u].devices[e].id = id} = {d}
    BY <2>1, <2>2, <2>3
  <2>6. DeviceOf(new, u, id) = d
    <3>1. d \in Nat \ {0}
      BY SlotNumbers
    <3>2. First({d}) = d
      BY <3>1, FirstFound
    <3> QED
      BY <2>5, <3>2 DEF DeviceOf
  <2>7. get_device(new, id, name) = d
    BY <2>4, <2>6, <1>1, SlotNumbers DEF get_device
  <2>8. insert_socket(new, name, id, socket, type) = WithDevice(new, u, d, fin)
    BY <2>2, <2>3, <2>4, <2>7 DEF insert_socket
  <2>9. WithDevice(new, u, d, fin) = WithDevice(us, u, d, fin)
    <3>1. [new[u].devices EXCEPT ![d] = fin] = [us[u].devices EXCEPT ![d] = fin]
      <4>1. /\ us[u].devices \in [DeviceSlot -> Device]
            /\ new[u].devices \in [DeviceSlot -> Device]
        BY <1>1, <2>3, TableEntry
      <4> QED
        BY <4>1, <2>3
    <3>2. \A x : [new EXCEPT ![u] = x] = [us EXCEPT ![u] = x]
      BY <1>1, <2>3 DEF Table
    <3> QED
      BY <1>1, <2>3, <3>1, <3>2 DEF WithDevice
  <2>10. WithName(us, u, name) = us
    BY <1>1, WithOwnName
  <2> QED
    BY <2>1, <2>8, <2>9, <2>10 DEF Seated, new, dev
<1> QED
  BY <1>2, <1>3, InsertDeviceReturns

(***************************************************************************)
(* A login is refused and leaves the table alone, or it is accepted and    *)
(* changes one entry, which was the device's or free.  It is refused with  *)
(* nack1 or nack3 only: nack2 and nack5 are never sent.                    *)
(***************************************************************************)
LEMMA LoginEffect ==
  ASSUME NEW us \in Table, NamedWhileConnected(us), NEW name \in UserName, NEW id \in DeviceId,
         NEW type \in SocketType, NEW socket \in Descriptor, NEW r,
         r = handle_user_controller_structure(us, name, id, type, socket)
  PROVE  \/ r.reply \in {"nack1", "nack3"} /\ r.users = us
         \/ /\ r.reply = "ack"
            /\ \E u \in UserSlot, d \in DeviceSlot :
                  /\ SeatFor(us, u, d, name, id)
                  /\ r.users = Seated(us, u, d, name, id, type, socket)
<1> DEFINE iu == insert_user(us, name)
           in == insert_device(iu.users, name, id)
<1>1. CASE iu.result = "ERROR"
  <2>1. r = [reply |-> "nack1", users |-> us]
    BY <1>1 DEF handle_user_controller_structure
  <2> QED
    BY <2>1
<1>2. CASE iu.result = "USER_ALREADY_CONNECTED"
  <2>1. iu.users = us /\ get_user(us, name) # 0
    BY <1>2, InsertUserReturns
  <2> DEFINE u == get_user(us, name)
  <2>2. u \in UserSlot /\ us[u].name = name
    BY <2>1, GetUser
  <2>3. CASE in.result = "MAX_DEVICES_REACHED"
    <3>1. r = [reply |-> "nack3", users |-> us]
      BY <1>2, <2>3 DEF handle_user_controller_structure
    <3> QED
      BY <3>1
  <2>4. CASE in.result # "MAX_DEVICES_REACHED"
    <3>1. r = [reply |-> "ack", users |-> insert_socket(in.users, name, id, socket, type)]
      BY <1>2, <2>4 DEF handle_user_controller_structure
    <3>2. in = insert_device(us, name, id)
      BY <2>1
    <3> HIDE DEF u, in
    <3>3. PICK d \in DeviceSlot :
            /\ \/ us[u].devices[d].id = id
               \/ us[u].devices[d].id = NoId /\ \A e \in DeviceSlot : us[u].devices[e].id # id
            /\ insert_socket(in.users, name, id, socket, type) =
                  Seated(us, u, d, name, id, type, socket)
      BY <2>1, <2>4, <3>2, SeatDevice DEF u
    <3>4. SeatFor(us, u, d, name, id)
      BY <2>2, <3>3 DEF SeatFor
    <3>5. r.reply = "ack" /\ r.users = Seated(us, u, d, name, id, type, socket)
      BY <3>1, <3>3
    <3> QED
      BY <2>2, <3>4, <3>5
  <2> QED
    BY <2>3, <2>4
<1>3. CASE iu.result = "SUCCESS"
  <2>1. get_user(us, name) = 0
    BY <1>3, InsertUserReturns
  <2>2. PICK u \in UserSlot : us[u].name = NoName /\ iu.users = WithName(us, u, name)
    <3> HIDE DEF iu
    <3>1. iu = insert_user(us, name)
      BY DEF iu
    <3> QED
      BY <3>1, <1>3, InsertUserReturns
  <2> DEFINE vs == WithName(us, u, name)
  <2>3. \A v \in UserSlot : us[v].name # name
    BY <2>1, GetUser
  <2>4. /\ vs \in Table
        /\ vs[u].name = name
        /\ vs[u].devices = us[u].devices
        /\ \A v \in UserSlot \ {u} : vs[v] = us[v]
    BY WithNameIs
  <2>5. {v \in UserSlot : vs[v].name = name} = {u}
    BY <2>3, <2>4
  <2>6. get_user(vs, name) = u
    <3>1. u \in Nat \ {0}
      BY SlotNumbers
    <3>2. First({u}) = u
      BY <3>1, FirstFound
    <3> QED
      BY <2>5, <3>2 DEF get_user
  <2>7. Connected(vs, u) = {}
    BY <2>2, <2>4, FreeSlotIsEmpty DEF Connected
  <2>8. u # 0 /\ in = insert_device(vs, name, id)
    BY <2>2, SlotNumbers
  <2> HIDE DEF vs, in
  <2>9. in.result \in {"DEVICE_ALREADY_CONNECTED", "SUCCESS"}
    BY <2>6, <2>7, <2>8, InsertDeviceReturns
  <2>10. r = [reply |-> "ack", users |-> insert_socket(in.users, name, id, socket, type)]
    BY <1>3, <2>9 DEF handle_user_controller_structure, in
  <2>11. PICK d \in DeviceSlot :
            /\ \/ vs[u].devices[d].id = id
               \/ vs[u].devices[d].id = NoId /\ \A e \in DeviceSlot : vs[u].devices[e].id # id
            /\ insert_socket(in.users, name, id, socket, type) =
                  Seated(vs, u, d, name, id, type, socket)
    BY <2>4, <2>6, <2>8, <2>9, SeatDevice
  <2>12. SeatFor(us, u, d, name, id)
    BY <2>2, <2>3, <2>4, <2>11 DEF SeatFor
  <2>13. Seated(vs, u, d, name, id, type, socket) = Seated(us, u, d, name, id, type, socket)
    <3>1. WithName(vs, u, name) = vs
      BY <2>4, WithOwnName
    <3> QED
      BY <2>4, <3>1 DEF Seated, vs
  <2> QED
    BY <2>10, <2>11, <2>12, <2>13
<1> QED
  BY <1>1, <1>2, <1>3, InsertUserReturns

\* Whether insert_device found a place for the device can be seen from the table.
LEMMA InsertedIsFound ==
  ASSUME NEW us \in Table, NEW name \in UserName, NEW id \in DeviceId, NEW u, NEW r,
         u = get_user(us, name), r = insert_device(us, name, id)
  PROVE  /\ u = 0 \/ r.result = "MAX_DEVICES_REACHED" => get_device(r.users, id, name) = 0
         /\ u # 0 /\ r.result # "MAX_DEVICES_REACHED" => get_device(r.users, id, name) # 0
<1>1. CASE u = 0
  <2>1. r = [result |-> "ERROR", users |-> us]
    BY <1>1 DEF insert_device
  <2>2. r.users = us
    BY <2>1
  <2>3. get_device(us, id, name) = 0
    BY <1>1 DEF get_device
  <2> QED
    BY <2>2, <2>3, <1>1
<1>2. CASE u # 0 /\ r.result = "MAX_DEVICES_REACHED"
  <2>1. DeviceOf(us, u, id) = 0 /\ r.users = us
    BY <1>2 DEF insert_device
  <2> QED
    BY <2>1, <1>2 DEF get_device
<1>3. CASE u # 0 /\ r.result = "DEVICE_ALREADY_CONNECTED"
  <2>1. r.users = us /\ \E d \in DeviceSlot : us[u].devices[d].id = id
    BY <1>3, InsertDeviceReturns
  <2> QED
    BY <2>1, <1>3, FindDevice DEF get_device
<1>4. CASE u # 0 /\ r.result = "SUCCESS"
  <2>1. PICK d \in DeviceSlot :
          r.users = WithDevice(us, u, d, [id |-> id, socket |-> us[u].devices[d].socket])
    BY <1>4, InsertDeviceReturns
  <2>2. u \in UserSlot /\ us[u].name = name
    BY <1>4, GetUser
  <2>3. PICK dev \in Device : dev = [id |-> id, socket |-> us[u].devices[d].socket] /\ dev.id = id
    <3> DEFINE dev == [id |-> id, socket |-> us[u].devices[d].socket]
    <3>1. dev \in Device /\ dev.id = id
      BY <2>2, TableEntry DEF Device
    <3> QED
      BY <3>1
  <2>4. PICK new : new = r.users
    OBVIOUS
  <2>5. /\ new[u].name = name
        /\ new[u].devices[d] = dev
        /\ \A v \in UserSlot \ {u} : new[v] = us[v]
    BY <2>1, <2>2, <2>3, <2>4, WithDeviceIs
  <2>6. get_user(new, name) = u
    <3>1. {v \in UserSlot : new[v].name = name} = {v \in UserSlot : us[v].name = name}
      BY <2>2, <2>5
    <3> QED
      BY <3>1 DEF get_user
  <2>7. DeviceOf(new, u, id) # 0
    BY <2>3, <2>5, FindDevice
  <2> QED
    BY <1>4, <2>4, <2>6, <2>7 DEF get_device
<1> QED
  BY <1>1, <1>2, <1>3, <1>4, InsertDeviceReturns

\* A login that looks at no result, as the one on a secondary does, finds the device
\* in the table if it would have been accepted, and leaves what the other one leaves.
LEMMA UncheckedLogin ==
  ASSUME NEW us \in Table, NamedWhileConnected(us), NEW name \in UserName, NEW id \in DeviceId,
         NEW type \in SocketType, NEW socket \in Descriptor, NEW h, NEW vs,
         h = handle_user_controller_structure(us, name, id, type, socket),
         vs = insert_device(insert_user(us, name).users, name, id).users
  PROVE  /\ h.reply = "ack" =>
              get_device(vs, id, name) # 0 /\ insert_socket(vs, name, id, socket, type) = h.users
         /\ h.reply # "ack" => get_device(vs, id, name) = 0
<1>1. PICK iu : iu = insert_user(us, name)
  OBVIOUS
<1>2. PICK in : in = insert_device(iu.users, name, id)
  OBVIOUS
<1>3. vs = in.users
  BY <1>1, <1>2
<1>4. CASE iu.result = "ERROR"
  <2>1. h.reply # "ack"
    BY <1>1, <1>4 DEF handle_user_controller_structure
  <2>2. iu.users = us /\ get_user(us, name) = 0
    BY <1>1, <1>4, InsertUserReturns
  <2>3. get_device(in.users, id, name) = 0
    BY <1>2, <2>2, InsertedIsFound
  <2> QED
    BY <1>3, <2>1, <2>3
<1>5. CASE iu.result = "USER_ALREADY_CONNECTED"
  <2>1. iu.users = us /\ get_user(us, name) # 0
    BY <1>1, <1>5, InsertUserReturns
  <2>2. h = IF in.result = "MAX_DEVICES_REACHED"
              THEN [reply |-> "nack3", users |-> us]
              ELSE [reply |-> "ack", users |-> insert_socket(in.users, name, id, socket, type)]
    BY <1>1, <1>2, <1>5 DEF handle_user_controller_structure
  <2>3. /\ in.result = "MAX_DEVICES_REACHED" => get_device(in.users, id, name) = 0
        /\ in.result # "MAX_DEVICES_REACHED" => get_device(in.users, id, name) # 0
    BY <1>2, <2>1, InsertedIsFound
  <2> QED
    BY <1>3, <2>2, <2>3
<1>6. CASE iu.result = "SUCCESS"
  <2>1. PICK u \in UserSlot : us[u].name = NoName /\ iu.users = WithName(us, u, name)
    BY <1>1, <1>6, InsertUserReturns
  <2>2. PICK ws \in Table :
          /\ ws = iu.users /\ ws[u].name = name /\ ws[u].devices = us[u].devices
          /\ \A v \in UserSlot \ {u} : ws[v] = us[v]
    BY <2>1, WithNameIs
  <2>3. get_user(ws, name) # 0
    BY <2>2, GetUser
  <2>4. \A v \in UserSlot : us[v].name # name
    BY <1>1, <1>6, InsertUserReturns, GetUser
  <2>5. get_user(ws, name) = u
    BY <2>2, <2>3, <2>4, GetUser
  <2>6. Connected(ws, u) = {}
    BY <2>1, <2>2, FreeSlotIsEmpty DEF Connected
  <2>7. in.result \in {"DEVICE_ALREADY_CONNECTED", "SUCCESS"}
    BY <1>2, <2>2, <2>3, <2>5, <2>6, InsertDeviceReturns
  <2>8. h = [reply |-> "ack", users |-> insert_socket(in.users, name, id, socket, type)]
    BY <1>1, <1>2, <1>6, <2>7 DEF handle_user_controller_structure
  <2>9. get_device(in.users, id, name) # 0
    BY <1>2, <2>2, <2>3, <2>7, InsertedIsFound
  <2> QED
    BY <1>3, <2>8, <2>9
<1> QED
  BY <1>1, <1>4, <1>5, <1>6, InsertUserReturns

\* A function on 1 .. n takes at most n values.
LEMMA AtMost ==
  ASSUME NEW n \in Nat, NEW f, f = [i \in 1 .. n |-> f[i]],
         NEW S, \A x \in S : \E i \in 1 .. n : x = f[i]
  PROVE  Cardinality(S) <= n
<1> DEFINE T == {f[i] : i \in 1 .. n}
<1>1. IsFiniteSet(1 .. n) /\ Cardinality(1 .. n) = n
  BY FS_Interval
<1>2. f \in Surjection(1 .. n, T)
  BY DEF Surjection
<1>3. S \subseteq T
  OBVIOUS
<1> HIDE DEF T
<1>4. IsFiniteSet(T) /\ Cardinality(T) <= n
  BY <1>1, <1>2, FS_Surjection
<1>5. IsFiniteSet(S) /\ Cardinality(S) <= Cardinality(T)
  BY <1>3, <1>4, FS_Subset
<1>6. Cardinality(S) \in Nat /\ Cardinality(T) \in Nat
  BY <1>4, <1>5, FS_CardinalityType
<1> QED
  BY <1>4, <1>5, <1>6

LEMMA CountInterval ==
  ASSUME NEW n \in Nat
  PROVE  IsFiniteSet(1 .. n) /\ Cardinality(1 .. n) = n
BY FS_Interval

\* A set with n different values and another one has more than n elements.
LEMMA MoreThan ==
  ASSUME NEW n \in Nat, NEW f, f = [i \in 1 .. n |-> f[i]],
         \A i, j \in 1 .. n : f[i] = f[j] => i = j,
         NEW S, IsFiniteSet(S), \A i \in 1 .. n : f[i] \in S,
         NEW x \in S, \A i \in 1 .. n : f[i] # x
  PROVE  Cardinality(S) > n
<1> DEFINE T == S \ {x}
<1>1. IsFiniteSet(1 .. n) /\ Cardinality(1 .. n) = n
  BY CountInterval
<1>2. IsFiniteSet(T) /\ Cardinality(T) = Cardinality(S) - 1
  BY FS_RemoveElement
<1>3. f \in Injection(1 .. n, T)
  <2>1. f \in [1 .. n -> T]
    <3>1. \A i \in 1 .. n : f[i] \in T
      OBVIOUS
    <3> HIDE DEF T
    <3> QED
      BY <3>1
  <2> QED
    BY <2>1 DEF Injection, IsInjective
<1> HIDE DEF T
<1>4. Cardinality(1 .. n) <= Cardinality(T)
  BY <1>2, <1>3, FS_Injection
<1>5. Cardinality(S) \in Nat
  BY FS_CardinalityType
<1> QED
  BY <1>1, <1>2, <1>4, <1>5

\* All of 1 .. n.
LEMMA WholeInterval ==
  ASSUME NEW n \in Nat, NEW S \in SUBSET (1 .. n), Cardinality(S) = n
  PROVE  S = 1 .. n
<1>1. IsFiniteSet(1 .. n) /\ Cardinality(1 .. n) = n
  BY CountInterval
<1> QED
  BY <1>1, FS_Subset

\* A subset of 1 .. n that leaves nothing out, or has n elements, is all of it.
LEMMA FullInterval ==
  ASSUME NEW n \in Nat, NEW S \in SUBSET (1 .. n),
         Cardinality(S) >= n \/ (1 .. n) \ S = {}
  PROVE  Cardinality(S) = n
<1>1. IsFiniteSet(1 .. n) /\ Cardinality(1 .. n) = n
  BY FS_Interval
<1>2. Cardinality(S) <= n /\ Cardinality(S) \in Nat
  <2>1. IsFiniteSet(S) /\ Cardinality(S) <= Cardinality(1 .. n)
    BY <1>1, FS_Subset
  <2> QED
    BY <1>1, <2>1, FS_CardinalityType
<1>3. CASE (1 .. n) \ S = {}
  <2>1. S = 1 .. n
    BY <1>3
  <2> QED
    BY <1>1, <2>1
<1> QED
  BY <1>2, <1>3

\* A login is only refused when every slot is taken, or every entry of its user.
LEMMA LoginRefused ==
  ASSUME NEW us \in Table, NamedWhileConnected(us), NEW name \in UserName, NEW id \in DeviceId,
         NEW type \in SocketType, NEW socket \in Descriptor, NEW r,
         r = handle_user_controller_structure(us, name, id, type, socket),
         r.reply # "ack"
  PROVE  IF get_user(us, name) = 0
           THEN number_of_users_logged(us) = MaxUsers
           ELSE number_of_devices(us, name) = MaxDevices /\ get_device(us, id, name) = 0
<1> DEFINE iu == insert_user(us, name)
           in == insert_device(iu.users, name, id)
           S  == {v \in UserSlot : us[v].name = NoName}
           T  == {v \in UserSlot : us[v].name # NoName}
<1>1. CASE iu.result = "ERROR"
  <2>1. /\ get_user(us, name) = 0
        /\ number_of_users_logged(us) >= MaxUsers \/ First(S) = 0
    BY <1>1, InsertUserReturns DEF insert_user
  <2>2. S \in SUBSET (Nat \ {0})
    BY SlotNumbers
  <2>3. First(S) = 0 => (1 .. MaxUsers) \ T = {}
    BY <2>2, FirstFound DEF UserSlot
  <2>4. T \in SUBSET (1 .. MaxUsers) /\ number_of_users_logged(us) = Cardinality(T)
    BY DEF UserSlot, number_of_users_logged
  <2>5. Cardinality(T) >= MaxUsers \/ (1 .. MaxUsers) \ T = {}
    BY <2>1, <2>3, <2>4
  <2> HIDE DEF T, S
  <2>6. Cardinality(T) = MaxUsers
    BY <2>4, <2>5, UserTableAssumption, FullInterval
  <2> QED
    BY <2>1, <2>4, <2>6
<1>2. CASE iu.result = "USER_ALREADY_CONNECTED" /\ in.result = "MAX_DEVICES_REACHED"
  <2> DEFINE u == get_user(us, name)
             C == Connected(us, u)
             free == get_available_device(us, name)
  <2>1. u # 0 /\ in = insert_device(us, name, id)
    BY <1>2, InsertUserReturns
  <2>2. insert_device(us, name, id).result = "MAX_DEVICES_REACHED"
    BY <1>2, <2>1
  <2>3. DeviceOf(us, u, id) = 0 /\ free = 0
    BY <2>1, <2>2 DEF insert_device
  <2>4. number_of_devices(us, name) = Cardinality(C)
    BY <2>1 DEF number_of_devices
  <2>5. C \in SUBSET (1 .. MaxDevices)
    BY DEF Connected, DeviceSlot
  <2>6. Cardinality(C) >= MaxDevices \/ First(DeviceSlot \ C) = 0
    BY <2>1, <2>3, <2>4 DEF get_available_device
  <2>7. DeviceSlot \ C \in SUBSET (Nat \ {0})
    BY SlotNumbers
  <2>8. First(DeviceSlot \ C) = 0 => (1 .. MaxDevices) \ C = {}
    BY <2>7, FirstFound DEF DeviceSlot
  <2> HIDE DEF C, u
  <2>9. Cardinality(C) = MaxDevices
    BY <2>5, <2>6, <2>8, UserTableAssumption, FullInterval
  <2> QED
    BY <2>1, <2>3, <2>4, <2>9 DEF get_device, u
<1>3. CASE iu.result = "USER_ALREADY_CONNECTED" /\ in.result # "MAX_DEVICES_REACHED"
  BY <1>3 DEF handle_user_controller_structure
<1>4. CASE iu.result = "SUCCESS"
  <2>1. r.reply \in {"ack", "nack5"}
    BY <1>4 DEF handle_user_controller_structure
  <2> QED
    BY <2>1, LoginEffect
<1> QED
  BY <1>1, <1>2, <1>3, <1>4, InsertUserReturns

-----------------------------------------------------------------------------
(* Logouts *)

\* The table after entry d of slot u was cleared, and the slot if it was the last.
Cleared(us, u, d) ==
  WithName(WithDevice(us, u, d, EmptyDevice), u,
           IF Connected(us, u) \subseteq {d} THEN NoName ELSE us[u].name)

\* A cleared entry is a device entry.
LEMMA EmptyDeviceType == EmptyDevice \in Device
BY DEF EmptyDevice, NoSockets, Device

\* What remove_device and remove_user together leave in the table.
LEMMA ClearedIs ==
  ASSUME NEW us \in Table, NEW u \in UserSlot, NEW d \in DeviceSlot, NEW vs,
         vs = Cleared(us, u, d)
  PROVE  /\ vs \in Table
         /\ vs[u].name = IF Connected(us, u) \subseteq {d} THEN NoName ELSE us[u].name
         /\ vs[u].devices[d] = EmptyDevice
         /\ \A e \in DeviceSlot \ {d} : vs[u].devices[e] = us[u].devices[e]
         /\ \A v \in UserSlot \ {u} : vs[v] = us[v]
<1> DEFINE ws == WithDevice(us, u, d, EmptyDevice)
           n  == IF Connected(us, u) \subseteq {d} THEN NoName ELSE us[u].name
<1>1. /\ ws \in Table
      /\ ws[u].name = us[u].name
      /\ ws[u].devices[d] = EmptyDevice
      /\ \A e \in DeviceSlot \ {d} : ws[u].devices[e] = us[u].devices[e]
      /\ \A v \in UserSlot \ {u} : ws[v] = us[v]
  BY EmptyDeviceType, WithDeviceIs
<1>2. n \in UserName \cup {NoName}
  BY TableEntry
<1>3. vs = WithName(ws, u, n)
  BY DEF Cleared
<1> HIDE DEF ws, n
<1>4. /\ vs \in Table
      /\ vs[u].name = n
      /\ vs[u].devices = ws[u].devices
      /\ \A v \in UserSlot \ {u} : vs[v] = ws[v]
  BY <1>1, <1>2, <1>3, WithNameIs
<1> QED
  BY <1>1, <1>4 DEF n

\* exitCommand on a device that is in a table without double names clears its
\* entry, and the slot of the user with the last device.
LEMMA LogoutEffect ==
  ASSUME NEW us \in Table, UniqueNames(us), NEW name \in UserName, NEW id \in DeviceId,
         NEW u, NEW d, u = get_user(us, name), d = get_device(us, id, name), d # 0
  PROVE  Logout(us, name, id) = Cleared(us, u, d)
<1>1. u \in UserSlot /\ us[u].name = name /\ d \in DeviceSlot /\ us[u].devices[d].id = id
  BY GetDevice
<1> DEFINE ws == WithDevice(us, u, d, EmptyDevice)
           r  == remove_device(us, name, id)
<1>2. r = [result |-> "SUCCESS", users |-> ws]
  BY DEF remove_device
<1>3. /\ ws \in Table
      /\ ws[u].name = name
      /\ ws[u].devices[d] = EmptyDevice
      /\ \A e \in DeviceSlot \ {d} : ws[u].devices[e] = us[u].devices[e]
      /\ \A v \in UserSlot \ {u} : ws[v] = us[v]
  BY <1>1, EmptyDeviceType, WithDeviceIs
<1>4. Logout(us, name, id) = remove_user(ws, name)
  <2>1. r.result = "SUCCESS" /\ r.users = ws
    BY <1>2
  <2> QED
    BY <2>1 DEF Logout
<1> HIDE DEF ws, r
<1>5. get_user(ws, name) = u
  <2>1. {v \in UserSlot : ws[v].name = name} = {v \in UserSlot : us[v].name = name}
    BY <1>1, <1>3
  <2> QED
    BY <2>1 DEF get_user
<1>6. Connected(ws, u) = Connected(us, u) \ {d}
  <2>1. EmptyDevice.id = NoId
    BY DEF EmptyDevice
  <2> QED
    BY <1>3, <2>1 DEF Connected
<1>7. name # NoName /\ u # 0
  BY <1>1, SlotNumbers, UserTableAssumption
<1>8. is_device_connected(ws, name) <=> Connected(ws, u) # {}
  BY <1>5, <1>7 DEF is_device_connected
<1>9. CASE Connected(us, u) \subseteq {d}
  <2>1. remove_user(ws, name) =
          [v \in UserSlot |-> [name    |-> IF ws[v].name = name THEN NoName ELSE ws[v].name,
                               devices |-> ws[v].devices]]
    BY <1>6, <1>8, <1>9 DEF remove_user
  <2>2. \A v \in UserSlot \ {u} : ws[v].name # name
    BY <1>1, <1>3, <1>7 DEF UniqueNames
  <2>3. \A v \in UserSlot : ws[v] = [name |-> ws[v].name, devices |-> ws[v].devices]
    BY <1>3, TableEntry
  <2>4. \A v \in UserSlot \ {u} :
          [name    |-> IF ws[v].name = name THEN NoName ELSE ws[v].name,
           devices |-> ws[v].devices] = ws[v]
    BY <2>2, <2>3
  <2>5. remove_user(ws, name) = [ws EXCEPT ![u] = [name |-> NoName, devices |-> ws[u].devices]]
    <3> DEFINE Freed(v) == [name    |-> IF ws[v].name = name THEN NoName ELSE ws[v].name,
                            devices |-> ws[v].devices]
               fu == [name |-> NoName, devices |-> ws[u].devices]
    <3>1. remove_user(ws, name) = [v \in UserSlot |-> Freed(v)]
      BY <2>1
    <3>2. Freed(u) = fu
      BY <1>3
    <3>3. \A v \in UserSlot \ {u} : Freed(v) = ws[v]
      BY <2>4
    <3>4. ws = [v \in UserSlot |-> ws[v]]
      BY <1>3 DEF Table
    <3> HIDE DEF Freed, fu
    <3>5. [ws EXCEPT ![u] = fu] = [v \in UserSlot |-> IF v = u THEN fu ELSE ws[v]]
      BY <3>4
    <3> QED
      BY <3>1, <3>2, <3>3, <3>5 DEF fu
  <2> QED
    BY <1>4, <1>9, <2>5 DEF Cleared, WithName, ws
<1>10. CASE ~ (Connected(us, u) \subseteq {d})
  <2>1. remove_user(ws, name) = ws
    BY <1>6, <1>8, <1>10 DEF remove_user
  <2>2. WithName(ws, u, name) = ws
    BY <1>1, <1>3, WithOwnName
  <2> QED
    BY <1>1, <1>4, <1>10, <2>1, <2>2 DEF Cleared, ws
<1> QED
  BY <1>9, <1>10

-----------------------------------------------------------------------------
(* Well-formed tables *)

\* The server starts with a well-formed table.
LEMMA EmptyTableWellFormed == EmptyTable \in Table /\ WellFormed(EmptyTable)
<1>1. EmptyTable \in Table
  BY EmptyDeviceType DEF EmptyTable, Table, User
<1>2. /\ \A u \in UserSlot : EmptyTable[u].name = NoName
      /\ \A u \in UserSlot : \A d \in DeviceSlot : EmptyTable[u].devices[d] = EmptyDevice
  BY DEF EmptyTable
<1>3. EmptyDevice.id = NoId /\ EmptyDevice.socket = NoSockets
  BY DEF EmptyDevice
<1> QED
  BY <1>1, <1>2, <1>3
     DEF WellFormed, UniqueNames, UniqueIds, SocketsOfDevices, NamedWhileConnected, Connected

\* A login keeps the table well-formed.
LEMMA SeatedWellFormed ==
  ASSUME NEW us \in Table, WellFormed(us), NEW u \in UserSlot, NEW d \in DeviceSlot,
         NEW name \in UserName, NEW id \in DeviceId, NEW type \in SocketType,
         NEW socket \in Descriptor, NEW vs, SeatFor(us, u, d, name, id),
         vs = Seated(us, u, d, name, id, type, socket)
  PROVE  WellFormed(vs)
<1>1. /\ vs \in Table
      /\ vs[u].name = name
      /\ vs[u].devices[d].id = id
      /\ vs[u].devices[d].socket[type] = socket
      /\ \A e \in DeviceSlot \ {d} : vs[u].devices[e] = us[u].devices[e]
      /\ \A v \in UserSlot \ {u} : vs[v] = us[v]
  BY SeatedIs
<1>2. name # NoName /\ id # NoId /\ socket # NoSocket
  BY UserTableAssumption
<1>3. UniqueNames(vs)
  <2>1. \A v \in UserSlot \ {u} : us[v].name # name
    BY <1>2 DEF SeatFor, WellFormed, UniqueNames
  <2> QED
    BY <1>1, <2>1 DEF WellFormed, UniqueNames
<1>4. UniqueIds(vs)
  <2>1. \A e \in DeviceSlot \ {d} : us[u].devices[e].id # id
    BY <1>2 DEF SeatFor, WellFormed, UniqueIds
  <2>2. ASSUME NEW v \in UserSlot, NEW e \in DeviceSlot, NEW f \in DeviceSlot,
               vs[v].devices[e].id = vs[v].devices[f].id, vs[v].devices[e].id # NoId
        PROVE  e = f
    <3>1. CASE v # u
      BY <1>1, <2>2, <3>1 DEF WellFormed, UniqueIds
    <3>2. CASE v = u
      BY <1>1, <2>1, <2>2, <3>2 DEF WellFormed, UniqueIds
    <3> QED
      BY <3>1, <3>2
  <2> QED
    BY <2>2 DEF UniqueIds
<1>5. SocketsOfDevices(vs)
  <2>1. vs[u].devices[d].socket # NoSockets
    <3>1. NoSockets[type] = NoSocket
      BY DEF NoSockets
    <3> QED
      BY <1>1, <1>2, <3>1
  <2> QED
    BY <1>1, <1>2, <2>1 DEF WellFormed, SocketsOfDevices
<1>6. NamedWhileConnected(vs)
  <2>1. d \in Connected(vs, u)
    BY <1>1, <1>2 DEF Connected
  <2>2. \A v \in UserSlot \ {u} : Connected(vs, v) = Connected(us, v)
    BY <1>1 DEF Connected
  <2> QED
    BY <1>1, <1>2, <2>1, <2>2 DEF WellFormed, NamedWhileConnected
<1> QED
  BY <1>3, <1>4, <1>5, <1>6 DEF WellFormed

\* ... and so does an exit.
LEMMA ClearedWellFormed ==
  ASSUME NEW us \in Table, WellFormed(us), NEW u \in UserSlot, NEW d \in DeviceSlot,
         us[u].devices[d].id # NoId, NEW vs, vs = Cleared(us, u, d)
  PROVE  WellFormed(vs)
<1>1. /\ vs \in Table
      /\ vs[u].name = IF Connected(us, u) \subseteq {d} THEN NoName ELSE us[u].name
      /\ vs[u].devices[d] = EmptyDevice
      /\ \A e \in DeviceSlot \ {d} : vs[u].devices[e] = us[u].devices[e]
      /\ \A v \in UserSlot \ {u} : vs[v] = us[v]
  BY ClearedIs
<1>2. EmptyDevice.id = NoId /\ EmptyDevice.socket = NoSockets
  BY DEF EmptyDevice
<1>3. UniqueNames(vs)
  BY <1>1 DEF WellFormed, UniqueNames
<1>4. UniqueIds(vs)
  <2>1. ASSUME NEW v \in UserSlot, NEW e \in DeviceSlot, NEW f \in DeviceSlot,
               vs[v].devices[e].id = vs[v].devices[f].id, vs[v].devices[e].id # NoId
        PROVE  e = f
    <3>1. CASE v # u
      BY <1>1, <2>1, <3>1 DEF WellFormed, UniqueIds
    <3>2. CASE v = u
      BY <1>1, <1>2, <2>1, <3>2 DEF WellFormed, UniqueIds
    <3> QED
      BY <3>1, <3>2
  <2> QED
    BY <2>1 DEF UniqueIds
<1>5. SocketsOfDevices(vs)
  <2>1. ASSUME NEW v \in UserSlot, NEW e \in DeviceSlot
        PROVE  vs[v].devices[e].id = NoId <=> vs[v].devices[e].socket = NoSockets
    BY <1>1, <1>2 DEF WellFormed, SocketsOfDevices
  <2> QED
    BY <2>1 DEF SocketsOfDevices
<1>6. NamedWhileConnected(vs)
  <2>1. Connected(vs, u) = Connected(us, u) \ {d}
    BY <1>1, <1>2 DEF Connected
  <2>2. \A v \in UserSlot \ {u} : Connected(vs, v) = Connected(us, v)
    BY <1>1 DEF Connected
  <2>3. us[u].name # NoName
    <3>1. d \in Connected(us, u)
      BY DEF Connected
    <3> QED
      BY <3>1 DEF WellFormed, NamedWhileConnected
  <2>4. vs[u].name # NoName <=> Connected(vs, u) # {}
    BY <1>1, <2>1, <2>3
  <2> QED
    BY <1>1, <2>2, <2>4 DEF WellFormed, NamedWhileConnected
<1> QED
  BY <1>3, <1>4, <1>5, <1>6 DEF WellFormed
=============================================================================
