------------------------ MODULE SessionDirectoryProofs ------------------------
(***************************************************************************)
(* Sessions implements SessionDirectory, for every number of clients,      *)
(* users, devices and descriptors: whatever the threads, the lock and the  *)
(* descriptors do, each step attaches one connection to its device, where  *)
(* there is room, takes one device away, or changes no session.            *)
(***************************************************************************)
EXTENDS SessionsConnectionProofs

\* The session of the connection listed as type t in entry d of slot u.
Row(u, d, t) ==
  [user   |-> users[u].name,
   device |-> users[u].devices[d].id,
   role   |-> t,
   client |-> file[Entry(u, d, t)][1]]

\* The sessions are the rows of the table that hold a socket.
LEMMA OnlineIs ==
  Online = {Row(x[1], x[2], x[3]) :
              x \in {y \in UserSlot \X DeviceSlot \X SocketType : Entry(y[1], y[2], y[3]) # NoSocket}}
BY DEF Online, Row, Entry

\* ... taken apart.
LEMMA InOnline ==
  ASSUME NEW x, x \in Online
  PROVE  \E u \in UserSlot, d \in DeviceSlot, t \in SocketType :
            Entry(u, d, t) # NoSocket /\ x = Row(u, d, t)
<1>1. PICK y \in UserSlot \X DeviceSlot \X SocketType :
        Entry(y[1], y[2], y[3]) # NoSocket /\ x = Row(y[1], y[2], y[3])
  BY OnlineIs
<1>2. y[1] \in UserSlot /\ y[2] \in DeviceSlot /\ y[3] \in SocketType
  OBVIOUS
<1> QED
  BY <1>1, <1>2

\* ... and put together.
LEMMA RowOnline ==
  ASSUME NEW u \in UserSlot, NEW d \in DeviceSlot, NEW t \in SocketType, Entry(u, d, t) # NoSocket
  PROVE  Row(u, d, t) \in Online
<1> DEFINE y == <<u, d, t>>
<1>1. y \in UserSlot \X DeviceSlot \X SocketType /\ y[1] = u /\ y[2] = d /\ y[3] = t
  OBVIOUS
<1> HIDE DEF y
<1> QED
  BY <1>1, OnlineIs

\* As above, in the next state.
LEMMA InOnlineNext ==
  ASSUME NEW x, x \in Online'
  PROVE  \E u \in UserSlot, d \in DeviceSlot, t \in SocketType :
            Entry(u, d, t)' # NoSocket /\ x = Row(u, d, t)'
<1>1. Online' = {Row(y[1], y[2], y[3])' :
              y \in {z \in UserSlot \X DeviceSlot \X SocketType : Entry(z[1], z[2], z[3])' # NoSocket}}
  BY DEF Online, Row, Entry
<1>2. PICK y \in UserSlot \X DeviceSlot \X SocketType :
        Entry(y[1], y[2], y[3])' # NoSocket /\ x = Row(y[1], y[2], y[3])'
  BY <1>1
<1>3. y[1] \in UserSlot /\ y[2] \in DeviceSlot /\ y[3] \in SocketType
  OBVIOUS
<1> QED
  BY <1>2, <1>3

\* ... both ways.
LEMMA RowOnlineNext ==
  ASSUME NEW u \in UserSlot, NEW d \in DeviceSlot, NEW t \in SocketType, Entry(u, d, t)' # NoSocket
  PROVE  Row(u, d, t)' \in Online'
<1> DEFINE y == <<u, d, t>>
<1>1. y \in UserSlot \X DeviceSlot \X SocketType /\ y[1] = u /\ y[2] = d /\ y[3] = t
  OBVIOUS
<1>2. Online' = {Row(x[1], x[2], x[3])' :
              x \in {z \in UserSlot \X DeviceSlot \X SocketType : Entry(z[1], z[2], z[3])' # NoSocket}}
  BY DEF Online, Row, Entry
<1> HIDE DEF y
<1> QED
  BY <1>1, <1>2

-----------------------------------------------------------------------------
(* Room *)

\* The directory counts like everybody else.
LEMMA DirectoryCounts == \A S : Directory!Cardinality(S) = Cardinality(S)
BY DEF Directory!Cardinality, Cardinality

\* The sessions of a table with MaxUsers slots of MaxDevices entries have room.
LEMMA TableHasRoom ==
  ASSUME NEW us, UniqueNames(us), NEW o,
         \A x \in o : \E u \in UserSlot, d \in DeviceSlot :
            x.user = us[u].name /\ x.user # NoName /\ x.device = us[u].devices[d].id
  PROVE  Directory!Room(o)
<1>1. Cardinality(Directory!UsersOnline(o)) <= MaxUsers
  <2> DEFINE f == [u \in 1 .. MaxUsers |-> us[u].name]
             S == Directory!UsersOnline(o)
  <2>1. \A x \in S : \E u \in 1 .. MaxUsers : x = f[u]
    BY DEF Directory!UsersOnline, UserSlot
  <2>2. f = [u \in 1 .. MaxUsers |-> f[u]]
    OBVIOUS
  <2> HIDE DEF f, S
  <2>3. Cardinality(S) <= MaxUsers
    BY <2>1, <2>2, AtMost, UserTableAssumption
  <2> QED
    BY <2>3 DEF S
<1>2. ASSUME NEW n \in Directory!UsersOnline(o)
      PROVE  Cardinality(Directory!DevicesOnline(o, n)) <= MaxDevices
  <2>1. PICK u \in UserSlot : n = us[u].name /\ n # NoName
    BY DEF Directory!UsersOnline
  <2> DEFINE f == [d \in 1 .. MaxDevices |-> us[u].devices[d].id]
             S == Directory!DevicesOnline(o, n)
  <2>2. \A y \in S : \E d \in 1 .. MaxDevices : y = f[d]
    <3> SUFFICES ASSUME NEW x \in o, x.user = n
                 PROVE  \E d \in 1 .. MaxDevices : x.device = f[d]
      BY DEF Directory!DevicesOnline
    <3>1. PICK v \in UserSlot, d \in DeviceSlot :
            x.user = us[v].name /\ x.device = us[v].devices[d].id
      OBVIOUS
    <3>2. v = u
      BY <2>1, <3>1 DEF UniqueNames
    <3> QED
      BY <3>1, <3>2 DEF DeviceSlot
  <2>3. f = [d \in 1 .. MaxDevices |-> f[d]]
    OBVIOUS
  <2> HIDE DEF f, S
  <2>4. Cardinality(S) <= MaxDevices
    BY <2>2, <2>3, AtMost, UserTableAssumption
  <2> QED
    BY <2>4 DEF S
<1> QED
  BY <1>1, <1>2, DirectoryCounts DEF Directory!Room

\* The sessions of a state in the invariant have room.
LEMMA OnlineHasRoomNext ==
  ASSUME Invariant'
  PROVE  Directory!Room(Online')
<1>1. UniqueNames(users')
  BY DEF Invariant, TableOK, WellFormed
<1>2. ASSUME NEW x \in Online'
      PROVE  \E u \in UserSlot, d \in DeviceSlot :
                x.user = users'[u].name /\ x.user # NoName /\ x.device = users'[u].devices[d].id
  <2>1. PICK u \in UserSlot, d \in DeviceSlot, t \in SocketType :
          Entry(u, d, t)' # NoSocket /\ x = Row(u, d, t)'
    BY <1>2, InOnlineNext
  <2>2. PICK c \in Client : UserOf[c] = users'[u].name
    BY <2>1 DEF Invariant, SocketsOwned, Entry
  <2>3. x.user = users'[u].name /\ x.device = users'[u].devices[d].id
    BY <2>1 DEF Row
  <2> QED
    BY <2>2, <2>3, SessionsAssumption, UserTableAssumption
<1> QED
  BY <1>1, <1>2, TableHasRoom

-----------------------------------------------------------------------------
(* Steps *)

\* Sessions whose entries and descriptors stay are the same sessions.
LEMMA SameOnline ==
  ASSUME \A u \in UserSlot, d \in DeviceSlot, t \in SocketType :
            Entry(u, d, t) # NoSocket \/ Entry(u, d, t)' # NoSocket =>
               /\ Entry(u, d, t)' = Entry(u, d, t)
               /\ users'[u].name = users[u].name
               /\ users'[u].devices[d].id = users[u].devices[d].id
               /\ file'[Entry(u, d, t)] = file[Entry(u, d, t)]
  PROVE  Online' = Online
<1>1. ASSUME NEW u \in UserSlot, NEW d \in DeviceSlot, NEW t \in SocketType,
             Entry(u, d, t) # NoSocket \/ Entry(u, d, t)' # NoSocket
      PROVE  Entry(u, d, t)' = Entry(u, d, t) /\ Row(u, d, t)' = Row(u, d, t)
  BY <1>1 DEF Row
<1>2. ASSUME NEW x, x \in Online
      PROVE  x \in Online'
  <2>1. PICK u \in UserSlot, d \in DeviceSlot, t \in SocketType :
          Entry(u, d, t) # NoSocket /\ x = Row(u, d, t)
    BY <1>2, InOnline
  <2> QED
    BY <1>1, <2>1, RowOnlineNext
<1>3. ASSUME NEW x, x \in Online'
      PROVE  x \in Online
  <2>1. PICK u \in UserSlot, d \in DeviceSlot, t \in SocketType :
          Entry(u, d, t)' # NoSocket /\ x = Row(u, d, t)'
    BY <1>3, InOnlineNext
  <2> QED
    BY <1>1, <2>1, RowOnline
<1> QED
  BY <1>2, <1>3

\* accept() gives out a descriptor that is in no entry: no session changes.
LEMMA ConnectChangesNoSession ==
  ASSUME Invariant, NEW c \in Client, NEW type \in SocketType, NEW next,
         Connects(c, type, next)
  PROVE  Online' = Online
<1>1. PICK s \in Descriptor : /\ file[s] = Nobody
                              /\ \A r \in Descriptor \ {s} : file'[r] = file[r]
  BY ConnectsFile
<1>2. users' = users
  BY DEF Connects
<1>3. ASSUME NEW u \in UserSlot, NEW d \in DeviceSlot, NEW t \in SocketType,
             Entry(u, d, t) # NoSocket
      PROVE  file'[Entry(u, d, t)] = file[Entry(u, d, t)]
  <2>1. Entry(u, d, t) \in Descriptor /\ file[Entry(u, d, t)] \in Connection
    BY <1>3, ListedIs
  <2>2. Entry(u, d, t) # s
    BY <1>1, <2>1, SessionsAssumption
  <2> QED
    BY <1>1, <2>1, <2>2
<1>4. \A u \in UserSlot, d \in DeviceSlot, t \in SocketType : Entry(u, d, t)' = Entry(u, d, t)
  BY <1>2 DEF Entry
<1> QED
  BY <1>2, <1>3, <1>4, SameOnline

\* A login attaches its connection.
LEMMA LoginAttaches ==
  ASSUME Invariant, Invariant', NEW k \in Connection, Login(k)
  PROVE  Directory!Attach(k[1], device[k[1]], k[2])
<1> DEFINE c  == k[1]
           id == device[c]
           Match(x) == x.user = UserOf[c] /\ x.device = id /\ x.role = k[2]
           new == [user |-> UserOf[c], device |-> id, role |-> k[2], client |-> c]
<1>1. /\ k = <<c, k[2]>> /\ c \in Client /\ k[2] \in SocketType
      /\ socket(k) \in Descriptor /\ id \in DeviceId /\ UserOf[c] \in UserName
  BY ThreadIs DEF Login
<1>2. file' = file /\ file[socket(k)] = k
  BY DEF Login, Invariant, Bookkeeping, Undecided, socket
<1>3. PICK u \in UserSlot, d \in DeviceSlot : Seats(k, u, d)
  BY LoginSeats
<1>4. users'[u].name = UserOf[c] /\ users'[u].devices[d].id = id /\ Entry(u, d, k[2])' = socket(k)
  BY <1>1, <1>3 DEF Seats, Entry
<1>5. Row(u, d, k[2])' = new /\ Entry(u, d, k[2])' # NoSocket
  BY <1>1, <1>2, <1>4, UserTableAssumption DEF Row
<1>6. UniqueNames(users') /\ UniqueIds(users') /\ UserOf[c] # NoName /\ id # NoId
  BY <1>1, LoginSeats, UserTableAssumption DEF WellFormed
\* The other rows stay, and none of them is the device's connection of this type.
<1>7. ASSUME NEW v \in UserSlot, NEW e \in DeviceSlot, NEW t \in SocketType,
             ~ (v = u /\ e = d /\ t = k[2]),
             Entry(v, e, t) # NoSocket \/ Entry(v, e, t)' # NoSocket
      PROVE  /\ Entry(v, e, t)' = Entry(v, e, t)
             /\ Row(v, e, t)' = Row(v, e, t)
             /\ ~ Match(Row(v, e, t))
  <2>1. /\ Entry(v, e, t)' = Entry(v, e, t)
        /\ users'[v].name = users[v].name
        /\ users'[v].devices[e].id = users[v].devices[e].id
    BY <1>3, <1>7, SeatsRest
  <2>2. Row(v, e, t)' = Row(v, e, t)
    BY <1>2, <2>1 DEF Row
  <2>3. ASSUME Match(Row(v, e, t))
        PROVE  FALSE
    <3>1. /\ users'[v].name = UserOf[c] /\ users'[v].devices[e].id = id /\ t = k[2]
      BY <2>1, <2>3 DEF Row
    <3>2. v = u
      BY <1>4, <1>6, <3>1 DEF UniqueNames
    <3>3. e = d
      BY <1>4, <1>6, <3>1, <3>2 DEF UniqueIds
    <3> QED
      BY <1>7, <3>1, <3>2, <3>3
  <2> QED
    BY <2>1, <2>2, <2>3
\* The row that was in the place is the device's, if there was one.
<1>8. Entry(u, d, k[2]) # NoSocket => Match(Row(u, d, k[2]))
  <2> HAVE Entry(u, d, k[2]) # NoSocket
  <2>1. PICK b \in Client : UserOf[b] = users[u].name /\ device[b] = users[u].devices[d].id
    BY <1>1, ListedIs
  <2>2. users[u].name # NoName
    BY <2>1, SessionsAssumption, UserTableAssumption
  <2>3. users[u].devices[d].id # NoId
    <3>1. users[u].devices[d].socket # NoSockets
      BY <1>1 DEF Entry, NoSockets
    <3> QED
      BY <3>1 DEF Invariant, TableOK, WellFormed, SocketsOfDevices
  <2>4. users[u].name = UserOf[c] /\ users[u].devices[d].id = id
    BY <1>3, <2>2, <2>3 DEF Seats, SeatFor
  <2> QED
    BY <2>4 DEF Row
<1> HIDE DEF new, Match
<1>9. ASSUME NEW x, x \in Online'
      PROVE  x = new \/ (x \in Online /\ ~ Match(x))
  <2>1. PICK v \in UserSlot, e \in DeviceSlot, t \in SocketType :
          Entry(v, e, t)' # NoSocket /\ x = Row(v, e, t)'
    BY <1>9, InOnlineNext
  <2>2. CASE v = u /\ e = d /\ t = k[2]
    BY <1>5, <2>1, <2>2
  <2>3. CASE ~ (v = u /\ e = d /\ t = k[2])
    BY <1>7, <2>1, <2>3, RowOnline
  <2> QED
    BY <2>2, <2>3
<1>10. ASSUME NEW x, x \in Online, ~ Match(x)
       PROVE  x \in Online'
  <2>1. PICK v \in UserSlot, e \in DeviceSlot, t \in SocketType :
          Entry(v, e, t) # NoSocket /\ x = Row(v, e, t)
    BY <1>10, InOnline
  <2>2. ~ (v = u /\ e = d /\ t = k[2])
    BY <1>8, <1>10, <2>1
  <2> QED
    BY <1>7, <2>1, <2>2, RowOnlineNext
<1>11. new \in Online'
  BY <1>1, <1>5, RowOnlineNext
<1>12. Online' = {x \in Online : ~ Match(x)} \cup {new}
  BY <1>9, <1>10, <1>11
<1>13. Directory!Room(Online')
  BY OnlineHasRoomNext
<1>14. ASSUME NEW x \in Online, x.client = c
       PROVE  x.device = id
  <2>1. PICK v \in UserSlot, e \in DeviceSlot, t \in SocketType :
          Entry(v, e, t) # NoSocket /\ x = Row(v, e, t)
    BY InOnline
  <2>2. PICK b \in Client : /\ file[Entry(v, e, t)] = <<b, t>>
                            /\ device[b] = users[v].devices[e].id
    BY <2>1, ListedIs
  <2>3. x.client = b /\ x.device = device[b]
    BY <2>1, <2>2 DEF Row
  <2> QED
    BY <1>14, <2>3
<1> QED
  BY <1>12, <1>13, <1>14 DEF Directory!Attach, new, Match

\* An exit detaches one device.
LEMMA ExitDetachesDevice ==
  ASSUME Invariant, NEW k \in Connection, Exit(k), down' = "no"
  PROVE  \E name \in UserName, id \in DeviceId : Directory!Detach(name, id)
<1>1. PICK u \in UserSlot, d \in DeviceSlot : Clears(u, d)
  BY ExitClears
<1> DEFINE name == users[u].name
           id   == users[u].devices[d].id
           Match(x) == x.user = name /\ x.device = id
<1>2. UniqueNames(users) /\ UniqueIds(users) /\ SocketsOfDevices(users) /\ users \in Table
  BY DEF Invariant, TypeOK, TableOK, WellFormed
<1>3. id # NoId /\ users'[u].devices[d] = EmptyDevice
  BY <1>1 DEF Clears
<1>4. PICK t \in SocketType : Entry(u, d, t) # NoSocket
  <2>1. users[u].devices[d].socket # NoSockets
    BY <1>2, <1>3 DEF SocketsOfDevices
  <2>2. users[u].devices[d].socket \in [SocketType -> Descriptor \cup {NoSocket}]
    BY <1>2, TableEntry
  <2> QED
    BY <2>1, <2>2 DEF Entry, NoSockets
<1>5. Row(u, d, t) \in Online /\ Match(Row(u, d, t))
  BY <1>4, RowOnline DEF Row
<1>6. PICK c \in Client : UserOf[c] = name /\ device[c] = id
  BY <1>4, ListedIs
<1>7. name \in UserName /\ id \in DeviceId /\ name # NoName
  <2>1. name \in UserName /\ name # NoName
    BY <1>6, SessionsAssumption, UserTableAssumption
  <2>2. id \in DeviceId \cup {NoId}
    BY <1>2, TableEntry
  <2> QED
    BY <1>3, <2>1, <2>2
<1>8. ASSUME NEW v \in UserSlot, NEW e \in DeviceSlot, NEW r \in SocketType,
             Entry(v, e, r)' # NoSocket \/ (Entry(v, e, r) # NoSocket /\ ~ (v = u /\ e = d))
      PROVE  /\ Entry(v, e, r)' = Entry(v, e, r)
             /\ Row(v, e, r)' = Row(v, e, r)
             /\ ~ Match(Row(v, e, r))
  <2>1. /\ Entry(v, e, r)' = Entry(v, e, r)
        /\ users'[v].name = users[v].name
        /\ users'[v].devices[e].id = users[v].devices[e].id
        /\ file'[Entry(v, e, r)] = file[Entry(v, e, r)]
        /\ ~ (v = u /\ e = d)
    BY <1>1, <1>8, ClearsRest
  <2>2. Row(v, e, r)' = Row(v, e, r)
    BY <2>1 DEF Row
  <2>3. ASSUME Match(Row(v, e, r))
        PROVE  FALSE
    <3>1. users[v].name = name /\ users[v].devices[e].id = id
      BY <2>3 DEF Row
    <3>2. v = u
      BY <1>2, <1>7, <3>1 DEF UniqueNames
    <3>3. e = d
      BY <1>2, <1>3, <3>1, <3>2 DEF UniqueIds
    <3> QED
      BY <2>1, <3>2, <3>3
  <2> QED
    BY <2>1, <2>2, <2>3
<1>9. \A r \in SocketType : Match(Row(u, d, r))
  BY DEF Row
<1> HIDE DEF Match
<1>10. ASSUME NEW x, x \in Online'
       PROVE  x \in Online /\ ~ Match(x)
  <2>1. PICK v \in UserSlot, e \in DeviceSlot, r \in SocketType :
          Entry(v, e, r)' # NoSocket /\ x = Row(v, e, r)'
    BY <1>10, InOnlineNext
  <2> QED
    BY <1>8, <2>1, RowOnline
<1>11. ASSUME NEW x, x \in Online, ~ Match(x)
       PROVE  x \in Online'
  <2>1. PICK v \in UserSlot, e \in DeviceSlot, r \in SocketType :
          Entry(v, e, r) # NoSocket /\ x = Row(v, e, r)
    BY <1>11, InOnline
  <2>2. ~ (v = u /\ e = d)
    BY <1>9, <1>11, <2>1
  <2> QED
    BY <1>8, <2>1, <2>2, RowOnlineNext
<1>12. Online' = {x \in Online : ~ Match(x)}
  BY <1>10, <1>11
<1>13. Directory!Detach(name, id)
  BY <1>5, <1>12 DEF Directory!Detach, Match
<1> QED
  BY <1>7, <1>13

-----------------------------------------------------------------------------
(* The theorem *)

\* The whole session layer, mediatorThread, the command threads and exitCommand
\* with the table, the lock and the descriptors, implements the directory: no
\* interleaving attaches a connection to a foreign device, seats more users or
\* devices than fit, or takes away anything but one whole device.
THEOREM ImplementsDirectoryHolds == Spec => ImplementsDirectory
<1>1. Init => Directory!Init
  <2> HAVE Init
  <2>1. \A u \in UserSlot, d \in DeviceSlot, t \in SocketType : Entry(u, d, t) = NoSocket
    BY DEF Init, EmptyTable, EmptyDevice, NoSockets, Entry
  <2>2. \A x : x \notin Online
    BY <2>1, InOnline
  <2> QED
    BY <2>2 DEF Directory!Init
<1>2. ASSUME Invariant, Invariant', Next
      PROVE  Directory!Next \/ Online' = Online
  <2>1. ASSUME NEW c \in Client, NEW type \in SocketType, NEW next \in ClientState,
               Connects(c, type, next)
        PROVE  Online' = Online
    BY <1>2, <2>1, ConnectChangesNoSession
  <2>2. ASSUME users' = users, file' = file
        PROVE  Online' = Online
    BY <2>2 DEF Online
  <2>3. ASSUME NEW c \in Client, Proceeds(c)
        PROVE  Online' = Online
    BY <2>2, <2>3 DEF Proceeds, serverVars
  <2>4. ASSUME NEW k \in Connection, Moves(k) \/ Dies(k)
        PROVE  Online' = Online
    BY <2>2, <2>4 DEF Moves, Dies
  <2>5. ASSUME NEW k \in Connection, Login(k)
        PROVE  Directory!Next
    <3>1. k[1] \in Client /\ k[2] \in SocketType /\ device[k[1]] \in DeviceId
      BY <1>2, <2>5, ThreadIs DEF Login
    <3>2. Directory!Attach(k[1], device[k[1]], k[2])
      BY <1>2, <2>5, LoginAttaches
    <3> QED
      BY <3>1, <3>2 DEF Directory!Next
  <2>6. ASSUME NEW k \in Connection, Exit(k), down' = "no"
        PROVE  Directory!Next
    BY <1>2, <2>6, ExitDetachesDevice DEF Directory!Next
  <2> QED
    BY <1>2, <2>1, <2>3, <2>4, <2>5, <2>6, StepIs
<1>3. UNCHANGED vars => Online' = Online
  BY DEF vars, Online
<1>4. Invariant /\ Invariant' /\ [Next]_vars => [Directory!Next]_Online
  BY <1>2, <1>3
<1> QED
  BY <1>1, <1>4, InvariantHolds, PTL DEF Spec, ImplementsDirectory, Directory!Spec
=============================================================================
