-------------------------- MODULE SessionDirectory --------------------------
(***************************************************************************)
(* What the session layer promises, without threads, locks or sockets: a   *)
(* directory of which client serves which of its three roles for which     *)
(* device of which user.  A connection is attached to the device its       *)
(* client announced, as long as there is room for the user and the device; *)
(* a device that leaves takes all its connections with it; nothing else    *)
(* ever changes the directory, and never two devices at a time.            *)
(***************************************************************************)
EXTENDS Integers, FiniteSets

CONSTANTS
  Client, UserName, DeviceId, Role,
  UserOf,       \* the user of each client
  MaxUsers, MaxDevices

VARIABLE online   \* set of records [user, device, role, client]

Session == [user : UserName, device : DeviceId, role : Role, client : Client]

UsersOnline(o)      == {x.user : x \in o}
DevicesOnline(o, n) == {x.device : x \in {y \in o : y.user = n}}

Room(o) ==
  /\ Cardinality(UsersOnline(o)) <= MaxUsers
  /\ \A n \in UsersOnline(o) : Cardinality(DevicesOnline(o, n)) <= MaxDevices

Init == online = {}

\* Client c takes the role on device id of its user, from whoever had it.
Attach(c, id, role) ==
  /\ online' = {x \in online : ~ (x.user = UserOf[c] /\ x.device = id /\ x.role = role)}
               \cup {[user |-> UserOf[c], device |-> id, role |-> role, client |-> c]}
  /\ Room(online')
  \* a client stays with the device it announced
  /\ \A x \in online : x.client = c => x.device = id

\* The device leaves with all its connections, whoever asked for it.
Detach(name, id) ==
  /\ \E x \in online : x.user = name /\ x.device = id
  /\ online' = {x \in online : ~ (x.user = name /\ x.device = id)}

Next ==
  \/ \E c \in Client, id \in DeviceId, role \in Role : Attach(c, id, role)
  \/ \E name \in UserName, id \in DeviceId : Detach(name, id)

Spec == Init /\ [][Next]_online
=============================================================================
