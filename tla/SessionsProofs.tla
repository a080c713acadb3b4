--------------------------- MODULE SessionsProofs ---------------------------
(***************************************************************************)
(* Theorems about Sessions, for every number of clients, users, devices    *)
(* and descriptors: types, mutual exclusion, the user table's form and the *)
(* ownership of the sockets in it, by the inductive Invariant.             *)
(***************************************************************************)
EXTENDS Sessions, UserTableProofs

\* The server and its clients start in the invariant.
LEMMA InitInvariant == Init => Invariant
<1> SUFFICES ASSUME Init PROVE Invariant
  OBVIOUS
<1> USE DEF Init
<1>1. TypeOK
  BY EmptyTableWellFormed, SessionsAssumption
     DEF TypeOK, Pc, ClientState, Request, Reply
<1>2. Exclusion
  BY DEF Exclusion, Critical
<1>3. TableOK
  BY EmptyTableWellFormed DEF TableOK
<1>4. \A u \in UserSlot, d \in DeviceSlot, t \in SocketType :
         users[u].devices[d].socket[t] = NoSocket
  BY DEF EmptyTable, EmptyDevice, NoSockets
<1>5. Bookkeeping
  BY <1>4 DEF Bookkeeping, Undecided, Connection, SocketType
<1>6. SocketsOwned
  BY <1>4 DEF SocketsOwned
<1> QED
  BY <1>1, <1>2, <1>3, <1>5, <1>6 DEF Invariant

-----------------------------------------------------------------------------
(* What the steps do to the table, the descriptors and the threads. *)

Thread == [pc     : Pc,
           socket : Descriptor \cup {NoSocket},
           source : Connection \cup {Nobody}]

\* accept() takes a free descriptor.
LEMMA AcceptIs ==
  ASSUME TypeOK, NEW k \in Connection, Accept(k)
  PROVE  /\ \E s \in Descriptor :
              /\ file[s] = Nobody
              /\ file' = [file EXCEPT ![s] = k]
              /\ thread' = [thread EXCEPT ![k] = [pc     |-> "mediator",
                                                  socket |-> s,
                                                  source |-> Nobody]]
         /\ file' \in [Descriptor -> Connection \cup {Nobody}]
         /\ thread' \in [Connection -> Thread]
         /\ request' \in [Connection -> Request]
<1>1. Free \in SUBSET Nat /\ Free # {}
  BY UserTableAssumption DEF Free, Accept
<1>2. Min(Free) \in Free
  BY <1>1, MinNat
<1>3. PICK s \in Descriptor : s = Min(Free) /\ file[s] = Nobody
  BY <1>2 DEF Free
<1> QED
  BY <1>3 DEF Accept, TypeOK, Thread, Pc, Request

\* What a write to a descriptor leaves for the client is an answer.
LEMMA WrittenType ==
  ASSUME TypeOK, NEW s \in Descriptor, NEW r \in Reply
  PROVE  Written(s, r) \in [Connection -> Reply]
BY DEF TypeOK, Written, Reachable

\* A step of thread k to another pc leaves the other threads alone.
LEMMA GotoIs ==
  ASSUME TypeOK, NEW k \in Connection, NEW pc \in Pc, NEW source \in Connection \cup {Nobody},
         GotoOn(k, pc, source)
  PROVE  /\ thread' \in [Connection -> Thread]
         /\ thread'[k].pc = pc
         /\ thread'[k].socket = thread[k].socket
         /\ thread'[k].source = source
         /\ \A h \in Connection \ {k} : thread'[h] = thread[h]
BY DEF TypeOK, GotoOn, Thread

\* A thread that was created has a descriptor, and a client with a device number.
LEMMA ThreadIs ==
  ASSUME Invariant, NEW k \in Connection, thread[k].pc # "none"
  PROVE  /\ k = <<k[1], k[2]>>
         /\ k[1] \in Client
         /\ k[2] \in SocketType
         /\ socket(k) \in Descriptor
         /\ client[k[1]] # "off"
         /\ device[k[1]] \in DeviceId
         /\ UserOf[k[1]] \in UserName
<1>1. k = <<k[1], k[2]>> /\ k[1] \in Client /\ k[2] \in SocketType
  BY DEF Connection
<1> QED
  BY <1>1, SessionsAssumption DEF Invariant, Bookkeeping, socket

\* A login takes a seat for the client's connection in the table, or nothing.
LEMMA DecisionIs ==
  ASSUME Invariant, NEW k \in Connection, thread[k].pc = "login"
  PROVE  \/ Decision(k).reply \in {"nack1", "nack3"} /\ Decision(k).users = users
         \/ /\ Decision(k).reply = "ack"
            /\ \E u \in UserSlot, d \in DeviceSlot :
                  /\ SeatFor(users, u, d, UserOf[k[1]], device[k[1]])
                  /\ Decision(k).users =
                        Seated(users, u, d, UserOf[k[1]], device[k[1]], k[2], socket(k))
<1>1. /\ k[2] \in SocketType /\ socket(k) \in Descriptor
      /\ device[k[1]] \in DeviceId /\ UserOf[k[1]] \in UserName
  BY ThreadIs
<1>2. users \in Table /\ NamedWhileConnected(users)
  BY DEF Invariant, TypeOK, TableOK, WellFormed
<1> QED
  BY <1>1, <1>2, LoginEffect DEF Decision

\* An exit closes the sockets of one entry, the client's device, and clears it.
LEMMA ExitIs ==
  ASSUME Invariant, NEW k \in Connection, Exit(k), down' = "no"
  PROVE  \E u \in UserSlot, d \in DeviceSlot :
            /\ users[u].devices[d].id # NoId
            /\ users' = Cleared(users, u, d)
            /\ file' = [s \in Descriptor |->
                          IF \E t \in SocketType : users[u].devices[d].socket[t] = s
                            THEN Nobody ELSE file[s]]
            /\ mutex' = Nobody
            /\ Goto(k, "ended")
<1> DEFINE name == UserOf[k[1]]
           id   == device[k[1]]
           u    == get_user(users, name)
           d    == get_device(users, id, name)
<1>1. id \in DeviceId /\ name \in UserName
  BY ThreadIs DEF Exit
<1>2. d # 0
  BY DEF Exit, Crash
<1>3. /\ u \in UserSlot
      /\ d \in DeviceSlot
      /\ users[u].devices[d].id = id
  BY <1>2, GetDevice
<1>4. users \in Table /\ UniqueNames(users)
  BY DEF Invariant, TypeOK, TableOK, WellFormed
<1>5. Logout(users, name, id) = Cleared(users, u, d)
  BY <1>1, <1>2, <1>4, LogoutEffect
<1>6. id # NoId
  BY <1>1, UserTableAssumption
<1>7. /\ file' = [s \in Descriptor |->
                    IF s \in Closes(users[u].devices[d]) THEN Nobody ELSE file[s]]
      /\ users' = Logout(users, name, id)
      /\ mutex' = Nobody
      /\ Goto(k, "ended")
  BY <1>2 DEF Exit
<1> HIDE DEF u, d, name, id
<1>8. \A s : s \in Closes(users[u].devices[d]) <=>
               \E t \in SocketType : users[u].devices[d].socket[t] = s
  BY DEF Closes
<1>9. file' = [s \in Descriptor |->
                 IF \E t \in SocketType : users[u].devices[d].socket[t] = s
                   THEN Nobody ELSE file[s]]
  BY <1>7, <1>8
<1>10. users[u].devices[d].id # NoId /\ users' = Cleared(users, u, d)
  BY <1>3, <1>5, <1>6, <1>7
<1> QED
  BY <1>3, <1>7, <1>9, <1>10

\* Changes are propagated on connections, those that sockets in the table name.
LEMMA ReceiversAre ==
  ASSUME TypeOK, NEW k \in Connection, get_user(users, UserOf[k[1]]) # 0
  PROVE  Receivers(k) \subseteq Connection
<1> DEFINE u       == get_user(users, UserOf[k[1]])
           sockets == {users[u].devices[d].socket["T3"] : d \in Targets(k)}
<1>1. Receivers(k) = {file[s] : s \in sockets \ {NoSocket}} \ {Nobody}
  BY DEF Receivers
<1>2. sockets \subseteq Descriptor \cup {NoSocket}
  <2>1. Targets(k) \subseteq DeviceSlot
    BY DEF Targets
  <2>2. u \in UserSlot
    BY GetUser
  <2>3. "T3" \in SocketType
    BY DEF SocketType
  <2>4. \A d \in DeviceSlot : users[u].devices[d].socket \in [SocketType -> Descriptor \cup {NoSocket}]
    BY <2>2, TableEntry DEF TypeOK
  <2> QED
    BY <2>1, <2>3, <2>4
<1> QED
  BY <1>1, <1>2 DEF TypeOK

-----------------------------------------------------------------------------
(* Type correctness *)

\* Client steps keep the types.
LEMMA ClientTypes ==
  ASSUME Invariant, NEW c \in Client, ClientStep(c) \/ ClientChoice(c), down = "no"
  PROVE  TypeOK'
<1>1. /\ TypeOK
      /\ \A t \in SocketType : <<c, t>> \in Connection
  BY DEF Invariant, Connection
<1>2. {"T1", "T2", "T3"} \subseteq SocketType
  BY DEF SocketType
<1>3. CASE Open(c)
  BY <1>1, <1>2, <1>3, AcceptIs DEF Open, TypeOK, ClientState, Thread
<1>4. ASSUME NEW t \in {"T1", "T2"}, NEW n \in {"T2", "T3"}, OpenNext(c, t, n)
      PROVE  TypeOK'
  BY <1>1, <1>2, <1>4, AcceptIs DEF OpenNext, TypeOK, ClientState, Thread, Reply
<1>5. CASE StartThreads(c)
  BY <1>1, <1>2, <1>5 DEF StartThreads, TypeOK, ClientState, Reply, serverVars
<1>6. CASE Refused(c)
  BY <1>1, <1>6 DEF Refused, TypeOK, ClientState, serverVars
<1>7. ASSUME NEW t \in {"T1", "T2"}, Answered(<<c, t>>)
      PROVE  TypeOK'
  BY <1>1, <1>2, <1>7 DEF Answered, TypeOK, Reply, serverVars
<1>8. Drained(c) \in [Connection -> Reply]
  BY <1>1 DEF TypeOK, Drained, Reply
<1>9. CASE Finish(c)
  BY <1>1, <1>8, <1>9 DEF Finish, TypeOK, ClientState, serverVars
<1>10. ASSUME NEW t \in {"T1", "T2"}, NEW r \in Commands, Command(<<c, t>>, r)
       PROVE  TypeOK'
  BY <1>1, <1>2, <1>10, SessionsAssumption DEF Command, Send, TypeOK, Request, serverVars
<1>11. CASE SendExit(c)
  BY <1>1, <1>2, <1>11 DEF SendExit, Send, TypeOK, Request, ClientState, serverVars
<1>12. ASSUME NEW t \in {"T1", "T2"}, SendFails(<<c, t>>)
       PROVE  TypeOK'
  BY <1>1, <1>8, <1>12 DEF SendFails, TypeOK, ClientState, serverVars
<1>13. CASE Kill(c)
  BY <1>1, <1>8, <1>13, SessionsAssumption DEF Kill, TypeOK, Request, ClientState, serverVars
<1>14. CASE ServerComm(c)
  BY <1>1, <1>14 DEF ServerComm, TypeOK
<1> QED
  BY <1>3, <1>4, <1>5, <1>6, <1>7, <1>9, <1>10, <1>11, <1>12, <1>13, <1>14
     DEF ClientStep, ClientChoice

\* Steps of server threads keep the types.
LEMMA ThreadTypes ==
  ASSUME Invariant, NEW k \in Connection, ThreadStep(k), down = "no"
  PROVE  TypeOK'
<1>1. TypeOK
  BY DEF Invariant
<1>2. \A p, q : p \in Pc /\ q \in Connection \cup {Nobody} /\ GotoOn(k, p, q) =>
                  thread' \in [Connection -> Thread]
  BY <1>1, GotoIs
<1>3. \A p \in Pc : Goto(k, p) => thread' \in [Connection -> Thread]
  BY <1>2 DEF Goto
<1>4. thread[k].pc # "none" => socket(k) \in Descriptor
  BY ThreadIs
<1>5. \A r \in Reply : socket(k) \in Descriptor => Written(socket(k), r) \in [Connection -> Reply]
  BY <1>1, WrittenType
<1>6. CASE ReadConnection(k)
  BY <1>1, <1>3, <1>6 DEF ReadConnection, TypeOK, Pc, Request, Thread, clientVars
<1>7. CASE ReadConnectionFails(k)
  BY <1>1, <1>3, <1>7 DEF ReadConnectionFails, TypeOK, Pc, Thread, clientVars
<1>8. ASSUME NEW from \in Pc, NEW to \in Pc, SemWait(k, from, to)
      PROVE  TypeOK'
  BY <1>1, <1>3, <1>8 DEF SemWait, TypeOK, Thread, clientVars
<1>9. CASE Login(k)
  <2>1. thread[k].pc = "login" /\ Decision(k).reply = "ack"
    BY <1>9 DEF Login
  <2>2. PICK u \in UserSlot, d \in DeviceSlot :
          Decision(k).users = Seated(users, u, d, UserOf[k[1]], device[k[1]], k[2], socket(k))
    BY <2>1, DecisionIs
  <2>3. users' \in Table
    <3>1. /\ UserOf[k[1]] \in UserName /\ device[k[1]] \in DeviceId
          /\ k[2] \in SocketType /\ socket(k) \in Descriptor
      BY <2>1, ThreadIs
    <3>2. users \in Table
      BY <1>1 DEF TypeOK
    <3>3. Decision(k).users \in Table
      BY <2>2, <3>1, <3>2, SeatedIs
    <3> QED
      BY <1>9, <3>3 DEF Login
  <2> QED
    BY <1>1, <1>3, <1>4, <1>5, <1>9, <2>1, <2>3 DEF Login, TypeOK, Pc, Reply, Thread, clientVars
<1>10. CASE Refuse(k)
  <2>1. thread[k].pc = "login" /\ Decision(k).reply # "ack"
    BY <1>10 DEF Refuse
  <2>2. Decision(k).reply \in {"nack1", "nack3"} /\ Decision(k).users = users
    BY <2>1, DecisionIs
  <2> QED
    BY <1>1, <1>3, <1>4, <1>5, <1>10, <2>1, <2>2
       DEF Refuse, TypeOK, Pc, Reply, Nack, Thread, clientVars
<1>11. CASE Read(k)
  BY <1>1, <1>2, <1>3, <1>4, <1>11 DEF Read, TypeOK, Pc, Thread, clientVars
<1>12. CASE ReadCommand(k)
  <2>1. Dispatch(thread[k].source) \in Pc
    BY DEF Dispatch, Pc
  <2>2. Written(socket(k), "ack") \in [Connection -> Reply]
    BY <1>4, <1>5, <1>12 DEF ReadCommand, Reply
  <2> QED
    BY <1>1, <1>3, <1>12, <2>1, <2>2 DEF ReadCommand, TypeOK, Request, Thread, clientVars
<1>13. CASE ReadFails(k)
  BY <1>1, <1>3, <1>13 DEF ReadFails, TypeOK, Pc, Thread, clientVars
<1>14. CASE ReceiveFile(k)
  BY <1>1, <1>3, <1>4, <1>5, <1>14 DEF ReceiveFile, TypeOK, Pc, Reply, Thread, clientVars
<1>15. CASE TransferFails(k)
  BY <1>1, <1>3, <1>15 DEF TransferFails, Crash, TypeOK, Pc, Thread, clientVars
<1>16. CASE TransferOfAnother(k)
  BY <1>1, <1>3, <1>4, <1>5, <1>16
     DEF TransferOfAnother, TypeOK, Pc, Request, Reply, Thread, clientVars
<1>17. CASE Notify(k)
  <2>1. thread[k].pc = "notify"
    BY <1>17 DEF Notify
  <2>2. get_user(users, UserOf[k[1]]) # 0 => Receivers(k) \subseteq Connection
    BY <1>1, ReceiversAre
  <2>3. told' \subseteq Connection
    BY <1>1, <1>17, <2>2 DEF Notify, TypeOK
  <2> QED
    BY <1>1, <1>3, <1>17, <2>3 DEF Notify, Crash, TypeOK, Pc, Thread
<1>18. CASE Exit(k)
  <2>1. CASE down' = "no"
    <3>1. PICK u \in UserSlot, d \in DeviceSlot :
            /\ users' = Cleared(users, u, d)
            /\ file' = [s \in Descriptor |->
                          IF \E t \in SocketType : users[u].devices[d].socket[t] = s
                            THEN Nobody ELSE file[s]]
            /\ mutex' = Nobody
            /\ Goto(k, "ended")
      BY <1>18, <2>1, ExitIs
    <3>2. users' \in Table
      BY <1>1, <3>1, ClearedIs DEF TypeOK
    <3>3. file' \in [Descriptor -> Connection \cup {Nobody}]
      BY <1>1, <3>1 DEF TypeOK
    <3> QED
      BY <1>1, <1>3, <1>18, <2>1, <3>1, <3>2, <3>3 DEF Exit, TypeOK, Pc, Thread, clientVars
  <2>2. CASE down' # "no"
    BY <1>1, <1>18, <2>2 DEF Exit, Crash, TypeOK, clientVars
  <2> QED
    BY <2>1, <2>2
<1>19. CASE ReadRemainder(k)
  BY <1>1, <1>19 DEF ReadRemainder, Crash, TypeOK, clientVars
<1> QED
  BY <1>6, <1>7, <1>8, <1>9, <1>10, <1>11, <1>12, <1>13, <1>14, <1>15, <1>16, <1>17, <1>18, <1>19
     DEF ThreadStep, FreeStep, LockedStep, Pc

\* Every step keeps the types.
LEMMA TypesKept ==
  ASSUME Invariant, [Next]_vars
  PROVE  TypeOK'
<1>1. CASE Next
  BY <1>1, ClientTypes, ThreadTypes DEF Next
<1>2. CASE UNCHANGED vars
  BY <1>2 DEF Invariant, TypeOK, vars
<1> QED
  BY <1>1, <1>2

-----------------------------------------------------------------------------
(* Mutual exclusion *)

\* The lock passes to a thread that enters a critical section when nobody has
\* it, and is only posted by the thread that leaves one.
LEMMA ExclusionKept ==
  ASSUME Invariant, [Next]_vars
  PROVE  Exclusion'
<1>1. TypeOK /\ Exclusion
  BY DEF Invariant
<1>2. ASSUME NEW k \in Connection, Accept(k), mutex' = mutex
      PROVE  Exclusion'
  BY <1>1, <1>2, AcceptIs DEF Exclusion, Critical, TypeOK
<1>3. ASSUME NEW c \in Client, ClientStep(c) \/ ClientChoice(c)
      PROVE  Exclusion'
  <2>1. \A t \in SocketType : <<c, t>> \in Connection
    BY DEF Connection
  <2>2. {"T1", "T2", "T3"} \subseteq SocketType
    BY DEF SocketType
  <2>3. mutex' = mutex /\ (thread' = thread \/ \E t \in SocketType : Accept(<<c, t>>))
    BY <1>3, <2>2 DEF ClientStep, ClientChoice, Open, OpenNext, StartThreads, Refused, Answered,
                      Finish, ServerComm, Command, SendExit, SendFails, Kill, serverVars
  <2> QED
    BY <1>1, <1>2, <2>1, <2>3 DEF Exclusion
<1>4. ASSUME NEW k \in Connection, ThreadStep(k)
      PROVE  Exclusion'
  <2>1. ASSUME NEW p \in Pc, NEW q \in Connection \cup {Nobody}, GotoOn(k, p, q),
               p \in Critical => mutex' = k,
               mutex' = mutex \/ mutex = Nobody \/ mutex = k
        PROVE  Exclusion'
    BY <1>1, <2>1, GotoIs, SessionsAssumption DEF Exclusion
  <2>2. ASSUME NEW p \in Pc \ Critical, Goto(k, p), mutex' = mutex \/ mutex = k
        PROVE  Exclusion'
    BY <2>1, <2>2 DEF Goto
  <2>3. thread[k].pc \in Critical => mutex = k
    BY <1>1 DEF Exclusion
  <2>4. CASE ReadConnection(k) \/ ReadConnectionFails(k)
    BY <2>2, <2>4 DEF ReadConnection, ReadConnectionFails, Pc, Critical
  <2>5. ASSUME NEW from \in Pc, NEW to \in Pc, SemWait(k, from, to)
        PROVE  Exclusion'
    BY <2>1, <2>5 DEF SemWait, Goto
  <2>6. CASE Login(k) \/ Refuse(k)
    BY <2>2, <2>3, <2>6 DEF Login, Refuse, Pc, Critical
  <2>7. CASE Read(k)
    <3>1. CASE file[socket(k)] = Nobody
      BY <2>2, <2>7, <3>1 DEF Read, Pc, Critical
    <3>2. CASE file[socket(k)] # Nobody
      <4>1. file[socket(k)] \in Connection
        BY <1>1, <2>7, <3>2, ThreadIs DEF Read, TypeOK
      <4> QED
        BY <2>1, <2>7, <3>2, <4>1 DEF Read, Pc, Critical
    <3> QED
      BY <3>1, <3>2
  <2>8. CASE ReadCommand(k) \/ ReadFails(k)
    <3>1. Dispatch(thread[k].source) \in Pc \ Critical
      BY DEF Dispatch, Pc, Critical
    <3> QED
      BY <2>2, <2>8, <3>1 DEF ReadCommand, ReadFails, Pc, Critical
  <2>9. CASE ReceiveFile(k) \/ TransferOfAnother(k)
    BY <2>2, <2>9 DEF ReceiveFile, TransferOfAnother, Pc, Critical
  <2>10. CASE TransferFails(k)
    BY <1>1, <2>2, <2>10 DEF TransferFails, Crash, Exclusion, Pc, Critical
  <2>11. CASE Notify(k)
    BY <1>1, <2>2, <2>3, <2>11 DEF Notify, Crash, Exclusion, Pc, Critical
  <2>12. CASE Exit(k)
    BY <1>1, <2>2, <2>3, <2>12 DEF Exit, Crash, Exclusion, Pc, Critical
  <2>13. CASE ReadRemainder(k)
    BY <1>1, <2>13 DEF ReadRemainder, Crash, Exclusion
  <2> QED
    BY <1>4, <2>4, <2>5, <2>6, <2>7, <2>8, <2>9, <2>10, <2>11, <2>12, <2>13
       DEF ThreadStep, FreeStep, LockedStep, Pc
<1>5. CASE UNCHANGED vars
  BY <1>1, <1>5 DEF Exclusion, vars
<1> QED
  BY <1>3, <1>4, <1>5 DEF Next

-----------------------------------------------------------------------------
(* Who owns the sockets *)

\* The socket of type t in entry d of slot u.
Entry(u, d, t) == users[u].devices[d].socket[t]

\* A socket in the table is a descriptor, of a connection that was decided on.
LEMMA ListedIs ==
  ASSUME Invariant, NEW u \in UserSlot, NEW d \in DeviceSlot, NEW t \in SocketType,
         Entry(u, d, t) # NoSocket
  PROVE  /\ Entry(u, d, t) \in Descriptor
         /\ thread[file[Entry(u, d, t)]].pc \notin Undecided
         /\ \E c \in Client : /\ file[Entry(u, d, t)] = <<c, t>>
                              /\ <<c, t>> \in Connection
                              /\ UserOf[c] = users[u].name
                              /\ device[c] = users[u].devices[d].id
<1>1. users \in Table
  BY DEF Invariant, TypeOK
<1>2. Entry(u, d, t) \in Descriptor
  <2>1. users[u].devices[d].socket \in [SocketType -> Descriptor \cup {NoSocket}]
    BY <1>1, TableEntry
  <2> QED
    BY <2>1 DEF Entry
<1>3. \A c \in Client : <<c, t>> \in Connection
  BY DEF Connection
<1> QED
  BY <1>2, <1>3 DEF Invariant, SocketsOwned, Bookkeeping, Entry

\* A step that leaves the table, the descriptors and the device numbers alone.
QuietStep ==
  /\ users' = users /\ file' = file /\ device' = device
  /\ \A c \in Client : /\ client'[c] = "off" <=> client[c] = "off"
                       /\ Opened(client[c]) \subseteq Opened(client'[c])
  /\ \A k \in Connection :
        \/ thread'[k] = thread[k]
        \/ /\ thread'[k].socket = thread[k].socket
           /\ thread[k].pc # "none"
           /\ thread'[k].pc \in Undecided => thread[k].pc \in Undecided

\* A step that touches neither the table nor the descriptors, and in which no
\* thread becomes undecided again, keeps the rest of the invariant.
LEMMA QuietKeeps ==
  ASSUME Invariant, QuietStep
  PROVE  Bookkeeping' /\ SocketsOwned'
<1>1. SocketsOwned'
  BY DEF Invariant, SocketsOwned, QuietStep
<1>2. \A c \in Client : client'[c] # "off" => device'[c] \in DeviceId
  BY DEF Invariant, Bookkeeping, QuietStep
<1>3. \A s \in Descriptor : file'[s] # Nobody => file'[s][2] \in Opened(client'[file'[s][1]])
  <2> SUFFICES ASSUME NEW s \in Descriptor, file[s] # Nobody
               PROVE  file[s][2] \in Opened(client'[file[s][1]])
    BY DEF QuietStep
  <2>1. file[s] \in Connection
    BY DEF Invariant, TypeOK
  <2>2. file[s][1] \in Client
    BY <2>1 DEF Connection
  <2> QED
    BY <2>2 DEF Invariant, Bookkeeping, QuietStep
<1>4. \A k \in Connection : thread'[k].pc # "none" =>
          thread'[k].socket \in Descriptor /\ client'[k[1]] # "off"
  <2> TAKE k \in Connection
  <2>1. k[1] \in Client
    BY DEF Connection
  <2> QED
    BY <2>1 DEF Invariant, Bookkeeping, QuietStep
<1>5. \A k \in Connection : thread'[k].pc \in Undecided => file'[thread'[k].socket] = k
  BY DEF Invariant, Bookkeeping, QuietStep
<1>6. ASSUME NEW u \in UserSlot, NEW d \in DeviceSlot, NEW t \in SocketType,
             users'[u].devices[d].socket[t] # NoSocket
      PROVE  thread'[file'[users'[u].devices[d].socket[t]]].pc \notin Undecided
  <2>1. Entry(u, d, t) # NoSocket
    BY <1>6 DEF QuietStep, Entry
  <2>2. file[Entry(u, d, t)] \in Connection /\ thread[file[Entry(u, d, t)]].pc \notin Undecided
    BY <2>1, ListedIs
  <2> QED
    BY <2>2 DEF QuietStep, Entry
<1> QED
  BY <1>1, <1>2, <1>3, <1>4, <1>5, <1>6 DEF Bookkeeping

\* A client that opens its next connection.
LEMMA ConnectKeeps ==
  ASSUME Invariant, NEW c \in Client, NEW type \in SocketType, NEW next,
         Accept(<<c, type>>), users' = users,
         type \notin Opened(client[c]),
         next # "off", Opened(client[c]) \cup {type} \subseteq Opened(next),
         client' = [client EXCEPT ![c] = next],
         \/ client[c] # "off" /\ device' = device
         \/ client[c] = "off" /\ \E i \in DeviceId : device' = [device EXCEPT ![c] = i]
  PROVE  Bookkeeping' /\ SocketsOwned'
<1> DEFINE k == <<c, type>>
<1>1. TypeOK /\ k \in Connection
  BY DEF Invariant, Connection
<1>2. PICK s \in Descriptor :
        /\ file[s] = Nobody
        /\ file' = [file EXCEPT ![s] = k]
        /\ thread' = [thread EXCEPT ![k] = [pc |-> "mediator", socket |-> s, source |-> Nobody]]
  BY <1>1, AcceptIs
<1>3. /\ thread'[k].pc = "mediator" /\ thread'[k].socket = s
      /\ \A h \in Connection \ {k} : thread'[h] = thread[h]
      /\ file'[s] = k
      /\ \A r \in Descriptor \ {s} : file'[r] = file[r]
  BY <1>1, <1>2 DEF TypeOK
<1>4. client'[c] = next /\ \A b \in Client \ {c} : client'[b] = client[b] /\ device'[b] = device[b]
  BY <1>1 DEF TypeOK
<1>5. \A r \in Descriptor : file[r] # k
  <2> SUFFICES ASSUME NEW r \in Descriptor, file[r] = k PROVE FALSE
    OBVIOUS
  <2>1. k[1] = c /\ k[2] = type /\ k # Nobody
    BY <1>1, SessionsAssumption
  <2> QED
    BY <2>1 DEF Invariant, Bookkeeping
<1>6. \A b \in Client : client[b] # "off" => device'[b] = device[b]
  BY <1>4
<1>7. \A b \in Client : client'[b] # "off" => device'[b] \in DeviceId
  BY <1>1, <1>4 DEF Invariant, Bookkeeping, TypeOK
<1>8. \A b \in Client : Opened(client[b]) \subseteq Opened(client'[b]) /\ (client[b] # "off" => client'[b] # "off")
  BY <1>4
<1>9. ASSUME NEW u \in UserSlot, NEW d \in DeviceSlot, NEW t \in SocketType,
             Entry(u, d, t) # NoSocket
      PROVE  \E b \in Client :
                /\ file'[Entry(u, d, t)] = <<b, t>>
                /\ <<b, t>> \in Connection
                /\ UserOf[b] = users[u].name
                /\ device'[b] = users[u].devices[d].id
                /\ thread'[<<b, t>>].pc \notin Undecided
  <2> DEFINE r == Entry(u, d, t)
  <2>1. r \in Descriptor /\ thread[file[r]].pc \notin Undecided
    BY <1>9, ListedIs
  <2>2. PICK b \in Client : /\ file[r] = <<b, t>>
                            /\ <<b, t>> \in Connection
                            /\ UserOf[b] = users[u].name
                            /\ device[b] = users[u].devices[d].id
    BY <1>9, ListedIs
  <2>3. r # s /\ <<b, t>> # k
    BY <1>2, <1>5, <2>1, <2>2, SessionsAssumption
  <2>4. client[b] # "off"
    <3>1. t \in Opened(client[b])
      <4>1. r \in Descriptor /\ file[r] = <<b, t>> /\ <<b, t>> # Nobody
        BY <2>1, <2>2, SessionsAssumption
      <4>2. file[r] # Nobody => file[r][2] \in Opened(client[file[r][1]])
        BY <4>1 DEF Invariant, Bookkeeping
      <4> QED
        BY <4>1, <4>2
    <3> QED
      BY <3>1 DEF Opened
  <2> QED
    BY <1>3, <1>6, <2>1, <2>2, <2>3, <2>4
<1>10. SocketsOwned'
  <2> SUFFICES ASSUME NEW u \in UserSlot, NEW d \in DeviceSlot, NEW t \in SocketType,
                      Entry(u, d, t) # NoSocket
               PROVE  \E b \in Client : /\ file'[Entry(u, d, t)] = <<b, t>>
                                        /\ UserOf[b] = users[u].name
                                        /\ device'[b] = users[u].devices[d].id
    BY DEF SocketsOwned, Entry
  <2> QED
    BY <1>9
<1>11. \A r \in Descriptor : file'[r] # Nobody => file'[r][2] \in Opened(client'[file'[r][1]])
  <2> TAKE r \in Descriptor
  <2>1. CASE r = s
    BY <1>3, <1>4, <2>1
  <2>2. CASE r # s
    <3> HAVE file'[r] # Nobody
    <3>1. file'[r] = file[r] /\ file[r] \in Connection
      BY <1>1, <1>3, <2>2 DEF TypeOK
    <3>2. file[r][1] \in Client /\ file[r][2] \in Opened(client[file[r][1]])
      BY <3>1, SessionsAssumption DEF Connection, Invariant, Bookkeeping
    <3> QED
      BY <1>8, <3>1, <3>2
  <2> QED
    BY <2>1, <2>2
<1>12. \A h \in Connection : thread'[h].pc # "none" =>
          thread'[h].socket \in Descriptor /\ client'[h[1]] # "off"
  <2> TAKE h \in Connection
  <2>1. h[1] \in Client
    BY DEF Connection
  <2>2. CASE h = k
    BY <1>3, <1>4, <2>2
  <2>3. CASE h # k
    BY <1>3, <1>8, <2>1, <2>3 DEF Invariant, Bookkeeping
  <2> QED
    BY <2>2, <2>3
<1>13. \A h \in Connection : thread'[h].pc \in Undecided => file'[thread'[h].socket] = h
  <2> TAKE h \in Connection
  <2>1. CASE h = k
    BY <1>3, <2>1
  <2>2. CASE h # k
    <3> HAVE thread'[h].pc \in Undecided
    <3>1. thread'[h] = thread[h]
      BY <1>3, <2>2
    <3>2. file[thread[h].socket] = h /\ thread[h].socket \in Descriptor
      BY <3>1 DEF Invariant, Bookkeeping, Undecided
    <3>3. thread[h].socket # s
      BY <1>2, <3>2, SessionsAssumption
    <3> QED
      BY <1>3, <3>1, <3>2, <3>3
  <2> QED
    BY <2>1, <2>2
<1>14. ASSUME NEW u \in UserSlot, NEW d \in DeviceSlot, NEW t \in SocketType,
              Entry(u, d, t) # NoSocket
       PROVE  thread'[file'[Entry(u, d, t)]].pc \notin Undecided
  BY <1>9, <1>14
<1> QED
  BY <1>7, <1>10, <1>11, <1>12, <1>13, <1>14 DEF Bookkeeping, Entry

\* Connection k takes its seat in entry d of slot u, and all else stays.
Seats(k, u, d) ==
  /\ SeatFor(users, u, d, UserOf[k[1]], device[k[1]])
  /\ users'[u].name = UserOf[k[1]]
  /\ users'[u].devices[d].id = device[k[1]]
  /\ \A s \in SocketType :
        users'[u].devices[d].socket[s] =
           IF s = k[2] THEN socket(k) ELSE users[u].devices[d].socket[s]
  /\ \A f \in DeviceSlot \ {d} : users'[u].devices[f] = users[u].devices[f]
  /\ \A w \in UserSlot \ {u} : users'[w] = users[w]

\* A login takes a seat, which keeps the table well-formed.
LEMMA LoginSeats ==
  ASSUME Invariant, NEW k \in Connection, Login(k)
  PROVE  WellFormed(users') /\ \E u \in UserSlot, d \in DeviceSlot : Seats(k, u, d)
<1>1. /\ k[2] \in SocketType /\ socket(k) \in Descriptor
      /\ device[k[1]] \in DeviceId /\ UserOf[k[1]] \in UserName
  BY ThreadIs DEF Login
<1>2. PICK u \in UserSlot, d \in DeviceSlot :
        /\ SeatFor(users, u, d, UserOf[k[1]], device[k[1]])
        /\ users' = Seated(users, u, d, UserOf[k[1]], device[k[1]], k[2], socket(k))
  BY DecisionIs DEF Login
<1>3. users \in Table /\ WellFormed(users)
  BY DEF Invariant, TypeOK, TableOK
<1>4. Seats(k, u, d)
  BY <1>1, <1>2, <1>3, SeatedIs DEF Seats
<1>5. WellFormed(users')
  BY <1>1, <1>2, <1>3, SeatedWellFormed
<1> QED
  BY <1>4, <1>5

\* A socket that stays in the table when k takes its seat belonged to a device
\* that is still there, because an entry with sockets has a name and an id.
LEMMA SeatsRest ==
  ASSUME Invariant, NEW k \in Connection, NEW u \in UserSlot, NEW d \in DeviceSlot,
         Seats(k, u, d),
         NEW v \in UserSlot, NEW e \in DeviceSlot, NEW t \in SocketType,
         ~ (v = u /\ e = d /\ t = k[2]),
         Entry(v, e, t) # NoSocket \/ Entry(v, e, t)' # NoSocket
  PROVE  /\ Entry(v, e, t)' = Entry(v, e, t)
         /\ users'[v].name = users[v].name
         /\ users'[v].devices[e].id = users[v].devices[e].id
<1>1. Entry(v, e, t)' = Entry(v, e, t)
  BY DEF Entry, Seats
<1>2. PICK b \in Client : UserOf[b] = users[v].name /\ device[b] = users[v].devices[e].id
  BY <1>1, ListedIs
<1>3. users[v].name # NoName
  BY <1>2, SessionsAssumption, UserTableAssumption
<1>4. users[v].devices[e].id # NoId
  <2>1. users[v].devices[e].socket # NoSockets
    BY <1>1 DEF Entry, NoSockets
  <2> QED
    BY <2>1 DEF Invariant, TableOK, WellFormed, SocketsOfDevices
<1>5. CASE v # u
  BY <1>1, <1>5 DEF Seats
<1>6. CASE v = u
  <2>1. users[u].name = UserOf[k[1]]
    BY <1>3, <1>6 DEF Seats, SeatFor
  <2>2. users[u].devices[d].id \in {device[k[1]], NoId}
    BY DEF Seats, SeatFor
  <2> QED
    BY <1>1, <1>4, <1>6, <2>1, <2>2 DEF Seats
<1> QED
  BY <1>5, <1>6

\* A login writes the descriptor of its own connection into the table.
LEMMA LoginKeeps ==
  ASSUME Invariant, NEW k \in Connection, Login(k)
  PROVE  TableOK' /\ Bookkeeping' /\ SocketsOwned'
<1> DEFINE c == k[1]
<1>1. /\ k = <<c, k[2]>> /\ c \in Client /\ k[2] \in SocketType
      /\ socket(k) \in Descriptor /\ client[c] # "off"
      /\ device[c] \in DeviceId /\ UserOf[c] \in UserName
  BY ThreadIs DEF Login
<1>2. /\ client' = client /\ device' = device /\ file' = file
  BY DEF Login, clientVars
<1>3. PICK u \in UserSlot, d \in DeviceSlot : Seats(k, u, d)
  BY LoginSeats
<1>4. /\ users'[u].name = UserOf[c]
      /\ users'[u].devices[d].id = device[c]
      /\ users'[u].devices[d].socket[k[2]] = socket(k)
  BY <1>1, <1>3 DEF Seats
<1>5. PICK p \in {"ended", "ready"} : Goto(k, p)
  BY DEF Login
<1>6. /\ thread'[k].pc \in {"ended", "ready"}
      /\ thread'[k].socket = thread[k].socket
      /\ \A h \in Connection \ {k} : thread'[h] = thread[h]
  BY <1>5, GotoIs DEF Goto, Pc, Invariant
<1>7. file[socket(k)] = k
  BY DEF Login, Invariant, Bookkeeping, Undecided, socket
<1>8. ASSUME NEW v \in UserSlot, NEW e \in DeviceSlot, NEW t \in SocketType,
              ~ (v = u /\ e = d /\ t = k[2]), Entry(v, e, t)' # NoSocket
       PROVE  /\ Entry(v, e, t)' = Entry(v, e, t)
              /\ users'[v].name = users[v].name
              /\ users'[v].devices[e].id = users[v].devices[e].id
  BY <1>3, <1>8, SeatsRest
<1>9. SocketsOwned'
  <2> SUFFICES ASSUME NEW v \in UserSlot, NEW e \in DeviceSlot, NEW t \in SocketType,
                      Entry(v, e, t)' # NoSocket
               PROVE  \E b \in Client : /\ file'[Entry(v, e, t)'] = <<b, t>>
                                        /\ UserOf[b] = users'[v].name
                                        /\ device'[b] = users'[v].devices[e].id
    BY DEF SocketsOwned, Entry
  <2>1. CASE v = u /\ e = d /\ t = k[2]
    BY <1>1, <1>2, <1>4, <1>7, <2>1 DEF Entry
  <2>2. CASE ~ (v = u /\ e = d /\ t = k[2])
    <3>1. Entry(v, e, t) # NoSocket
      BY <1>8, <2>2
    <3>2. PICK b \in Client : /\ file[Entry(v, e, t)] = <<b, t>>
                              /\ UserOf[b] = users[v].name
                              /\ device[b] = users[v].devices[e].id
      BY <3>1, ListedIs
    <3> QED
      BY <1>2, <1>8, <2>2, <3>2
  <2> QED
    BY <2>1, <2>2
<1>10. ASSUME NEW v \in UserSlot, NEW e \in DeviceSlot, NEW t \in SocketType,
              Entry(v, e, t)' # NoSocket
       PROVE  thread'[file'[Entry(v, e, t)']].pc \notin Undecided
  <2>1. CASE v = u /\ e = d /\ t = k[2]
    BY <1>2, <1>4, <1>6, <1>7, <2>1 DEF Entry, Undecided
  <2>2. CASE ~ (v = u /\ e = d /\ t = k[2])
    <3>1. Entry(v, e, t)' = Entry(v, e, t) /\ Entry(v, e, t) # NoSocket
      BY <1>8, <1>10, <2>2
    <3>2. thread[file[Entry(v, e, t)]].pc \notin Undecided
      BY <3>1, ListedIs
    <3>3. PICK b \in Client : file[Entry(v, e, t)] = <<b, t>> /\ <<b, t>> \in Connection
      BY <3>1, ListedIs
    <3> QED
      BY <1>2, <1>6, <3>1, <3>2, <3>3 DEF Undecided
  <2> QED
    BY <2>1, <2>2
<1>11. \A h \in Connection : thread'[h].pc # "none" =>
          thread'[h].socket \in Descriptor /\ client'[h[1]] # "off"
  BY <1>1, <1>2, <1>6 DEF Invariant, Bookkeeping, socket
<1>12. \A h \in Connection : thread'[h].pc \in Undecided => file'[thread'[h].socket] = h
  BY <1>2, <1>6 DEF Invariant, Bookkeeping, Undecided
<1>13. /\ \A b \in Client : client'[b] # "off" => device'[b] \in DeviceId
       /\ \A s \in Descriptor :
             file'[s] # Nobody => file'[s][2] \in Opened(client'[file'[s][1]])
  BY <1>2 DEF Invariant, Bookkeeping
<1>14. TableOK'
  BY LoginSeats DEF TableOK
<1> QED
  BY <1>14, <1>9, <1>10, <1>11, <1>12, <1>13 DEF Bookkeeping, Entry

\* Entry d of slot u is cleared and its sockets are closed, and all else stays.
Clears(u, d) ==
  /\ users[u].devices[d].id # NoId
  /\ users'[u].name = IF Connected(users, u) \subseteq {d} THEN NoName ELSE users[u].name
  /\ users'[u].devices[d] = EmptyDevice
  /\ \A f \in DeviceSlot \ {d} : users'[u].devices[f] = users[u].devices[f]
  /\ \A w \in UserSlot \ {u} : users'[w] = users[w]
  /\ file' = [s \in Descriptor |->
                IF \E r \in SocketType : Entry(u, d, r) = s THEN Nobody ELSE file[s]]

\* An exit clears one entry, which keeps the table well-formed.
LEMMA ExitClears ==
  ASSUME Invariant, NEW k \in Connection, Exit(k), down' = "no"
  PROVE  WellFormed(users') /\ \E u \in UserSlot, d \in DeviceSlot : Clears(u, d)
<1>1. PICK u \in UserSlot, d \in DeviceSlot :
        /\ users[u].devices[d].id # NoId
        /\ users' = Cleared(users, u, d)
        /\ file' = [s \in Descriptor |->
                      IF \E r \in SocketType : users[u].devices[d].socket[r] = s
                        THEN Nobody ELSE file[s]]
  BY ExitIs
<1>2. users \in Table /\ WellFormed(users)
  BY DEF Invariant, TypeOK, TableOK
<1>3. Clears(u, d)
  BY <1>1, <1>2, ClearedIs DEF Clears, Entry
<1>4. WellFormed(users')
  BY <1>1, <1>2, ClearedWellFormed
<1> QED
  BY <1>3, <1>4

\* The entries that are left keep their sockets, and these stay open.
LEMMA ClearsRest ==
  ASSUME Invariant, NEW u \in UserSlot, NEW d \in DeviceSlot, Clears(u, d),
         NEW v \in UserSlot, NEW e \in DeviceSlot, NEW t \in SocketType,
         Entry(v, e, t)' # NoSocket \/ (Entry(v, e, t) # NoSocket /\ ~ (v = u /\ e = d))
  PROVE  /\ Entry(v, e, t)' = Entry(v, e, t)
         /\ users'[v].name = users[v].name
         /\ users'[v].devices[e].id = users[v].devices[e].id
         /\ file'[Entry(v, e, t)] = file[Entry(v, e, t)]
         /\ ~ (v = u /\ e = d)
<1>1. ~ (v = u /\ e = d)
  <2>1. EmptyDevice.socket[t] = NoSocket
    BY DEF EmptyDevice, NoSockets
  <2> QED
    BY <2>1 DEF Entry, Clears
<1>2. users'[v].devices[e] = users[v].devices[e]
  BY <1>1 DEF Clears
<1>3. Entry(v, e, t)' = Entry(v, e, t) /\ Entry(v, e, t) # NoSocket
  BY <1>1, <1>2 DEF Entry
<1>4. users[v].devices[e].id # NoId
  <2>1. users[v].devices[e].socket # NoSockets
    BY <1>3 DEF Entry, NoSockets
  <2> QED
    BY <2>1 DEF Invariant, TableOK, WellFormed, SocketsOfDevices
<1>5. users'[v].name = users[v].name
  <2>1. CASE v = u
    <3>1. e \in Connected(users, u) /\ e # d
      BY <1>1, <1>4, <2>1 DEF Connected
    <3> QED
      BY <2>1, <3>1 DEF Clears
  <2>2. CASE v # u
    BY <2>2 DEF Clears
  <2> QED
    BY <2>1, <2>2
<1>6. \A r \in SocketType : Entry(u, d, r) # Entry(v, e, t)
  <2> SUFFICES ASSUME NEW r \in SocketType, Entry(u, d, r) = Entry(v, e, t)
               PROVE  FALSE
    OBVIOUS
  <2>1. PICK b \in Client : /\ file[Entry(v, e, t)] = <<b, t>>
                            /\ UserOf[b] = users[v].name
                            /\ device[b] = users[v].devices[e].id
    BY <1>3, ListedIs
  <2>2. Entry(u, d, r) # NoSocket
    BY <1>3
  <2>3. PICK a \in Client : /\ file[Entry(u, d, r)] = <<a, r>>
                            /\ UserOf[a] = users[u].name
                            /\ device[a] = users[u].devices[d].id
    BY <2>2, ListedIs
  <2>4. a = b
    BY <2>1, <2>3
  <2>5. users[u].name = users[v].name /\ users[u].name # NoName
    BY <2>1, <2>3, <2>4, SessionsAssumption, UserTableAssumption
  <2>6. u = v
    BY <2>5 DEF Invariant, TableOK, WellFormed, UniqueNames
  <2>7. d = e
    BY <1>4, <2>1, <2>3, <2>4, <2>6 DEF Invariant, TableOK, WellFormed, UniqueIds
  <2> QED
    BY <1>1, <2>6, <2>7
<1>7. Entry(v, e, t) \in Descriptor
  BY <1>3, ListedIs
<1> QED
  BY <1>1, <1>2, <1>3, <1>5, <1>6, <1>7 DEF Clears

\* An exit closes descriptors of one device only: by their owners, no other entry
\* and no thread that has not decided yet uses one of them.
LEMMA ExitKeeps ==
  ASSUME Invariant, NEW k \in Connection, Exit(k), down' = "no"
  PROVE  TableOK' /\ Bookkeeping' /\ SocketsOwned'
<1>1. Goto(k, "ended")
  BY ExitIs
<1>2. client' = client /\ device' = device
  BY DEF Exit, clientVars
<1>3. PICK u \in UserSlot, d \in DeviceSlot : Clears(u, d)
  BY ExitClears
<1>4. TableOK'
  BY ExitClears DEF TableOK
<1>5. /\ thread'[k].pc = "ended"
      /\ thread'[k].socket = thread[k].socket
      /\ \A h \in Connection \ {k} : thread'[h] = thread[h]
  BY <1>1, GotoIs DEF Goto, Pc, Invariant
<1>6. \A s \in Descriptor :
        \/ file'[s] = file[s] /\ \A t \in SocketType : Entry(u, d, t) # s
        \/ file'[s] = Nobody /\ \E t \in SocketType : Entry(u, d, t) = s
  BY <1>3 DEF Clears
<1>7. ASSUME NEW v \in UserSlot, NEW e \in DeviceSlot, NEW t \in SocketType,
             Entry(v, e, t)' # NoSocket
      PROVE  /\ Entry(v, e, t)' = Entry(v, e, t)
             /\ users'[v].name = users[v].name
             /\ users'[v].devices[e].id = users[v].devices[e].id
             /\ file'[Entry(v, e, t)] = file[Entry(v, e, t)]
  BY <1>3, <1>7, ClearsRest
<1>8. SocketsOwned'
  <2> SUFFICES ASSUME NEW v \in UserSlot, NEW e \in DeviceSlot, NEW t \in SocketType,
                      Entry(v, e, t)' # NoSocket
               PROVE  \E b \in Client : /\ file'[Entry(v, e, t)'] = <<b, t>>
                                        /\ UserOf[b] = users'[v].name
                                        /\ device'[b] = users'[v].devices[e].id
    BY DEF SocketsOwned, Entry
  <2>1. Entry(v, e, t) # NoSocket
    BY <1>7
  <2>2. PICK b \in Client : /\ file[Entry(v, e, t)] = <<b, t>>
                            /\ UserOf[b] = users[v].name
                            /\ device[b] = users[v].devices[e].id
    BY <2>1, ListedIs
  <2> QED
    BY <1>2, <1>7, <2>2
<1>9. ASSUME NEW v \in UserSlot, NEW e \in DeviceSlot, NEW t \in SocketType,
              Entry(v, e, t)' # NoSocket
       PROVE  thread'[file'[Entry(v, e, t)']].pc \notin Undecided
  <2>1. /\ Entry(v, e, t)' = Entry(v, e, t) /\ Entry(v, e, t) # NoSocket
        /\ file'[Entry(v, e, t)] = file[Entry(v, e, t)]
    BY <1>7, <1>9
  <2>2. file[Entry(v, e, t)] \in Connection /\ thread[file[Entry(v, e, t)]].pc \notin Undecided
    BY <2>1, ListedIs
  <2> QED
    BY <1>5, <2>1, <2>2 DEF Undecided
<1>10. \A h \in Connection : thread'[h].pc \in Undecided => file'[thread'[h].socket] = h
  <2> TAKE h \in Connection
  <2> HAVE thread'[h].pc \in Undecided
  <2>1. thread'[h] = thread[h] /\ thread[h].pc \in Undecided
    BY <1>5 DEF Undecided
  <2>2. thread[h].socket \in Descriptor /\ file[thread[h].socket] = h
    BY <2>1 DEF Invariant, Bookkeeping, Undecided
  <2>3. \A t \in SocketType : Entry(u, d, t) # thread[h].socket
    <3> SUFFICES ASSUME NEW t \in SocketType, Entry(u, d, t) = thread[h].socket
                 PROVE  FALSE
      OBVIOUS
    <3>1. Entry(u, d, t) # NoSocket
      BY <2>2, UserTableAssumption
    <3>2. thread[file[Entry(u, d, t)]].pc \notin Undecided
      BY <3>1, ListedIs
    <3> QED
      BY <2>1, <2>2, <3>2
  <2> QED
    BY <1>6, <2>1, <2>2, <2>3
<1>11. \A h \in Connection : thread'[h].pc # "none" =>
          thread'[h].socket \in Descriptor /\ client'[h[1]] # "off"
  <2>1. thread[k].pc # "none"
    BY DEF Exit
  <2> QED
    BY <1>2, <1>5, <2>1 DEF Invariant, Bookkeeping
<1>12. \A b \in Client : client'[b] # "off" => device'[b] \in DeviceId
  BY <1>2 DEF Invariant, Bookkeeping
<1>13. \A s \in Descriptor : file'[s] # Nobody => file'[s][2] \in Opened(client'[file'[s][1]])
  BY <1>2, <1>6 DEF Invariant, Bookkeeping
<1> QED
  BY <1>4, <1>8, <1>9, <1>10, <1>11, <1>12, <1>13 DEF Bookkeeping, Entry

-----------------------------------------------------------------------------
(* The invariant *)

\* What a client does to the table, the descriptors and the threads.
LEMMA ClientKeeps ==
  ASSUME Invariant, NEW c \in Client, ClientStep(c) \/ ClientChoice(c)
  PROVE  TableOK' /\ Bookkeeping' /\ SocketsOwned'
<1>1. TypeOK
  BY DEF Invariant
<1>2. {"T1", "T2", "T3"} \subseteq SocketType /\ \A t \in SocketType : <<c, t>> \in Connection
  BY DEF SocketType, Connection
<1>3. ASSUME users' = users
      PROVE  TableOK'
  BY <1>3 DEF TableOK, Invariant
<1>4. CASE Open(c)
  <2>1. Bookkeeping' /\ SocketsOwned'
    BY <1>2, <1>4, ConnectKeeps DEF Open, Opened
  <2> QED
    BY <1>3, <1>4, <2>1 DEF Open
<1>5. CASE OpenNext(c, "T1", "T2")
  <2>1. Bookkeeping' /\ SocketsOwned'
    BY <1>2, <1>5, ConnectKeeps DEF OpenNext, Opened
  <2> QED
    BY <1>3, <1>5, <2>1 DEF OpenNext
<1>6. CASE OpenNext(c, "T2", "T3")
  <2>1. Bookkeeping' /\ SocketsOwned'
    BY <1>2, <1>6, ConnectKeeps DEF OpenNext, Opened, SocketType
  <2> QED
    BY <1>3, <1>6, <2>1 DEF OpenNext
<1>7. ASSUME users' = users, file' = file, thread' = thread, device' = device,
             \/ client' = client
             \/ client[c] # "off" /\ \E next \in ClientState \ {"off", "T1", "T2"} :
                                        client' = [client EXCEPT ![c] = next]
      PROVE  TableOK' /\ Bookkeeping' /\ SocketsOwned'
  <2>1. \A next \in ClientState \ {"off", "T1", "T2"}, state \in ClientState :
           next # "off" /\ Opened(state) \subseteq Opened(next)
    BY DEF ClientState, Opened, SocketType
  <2>2. \A b \in Client : /\ client'[b] = "off" <=> client[b] = "off"
                          /\ Opened(client[b]) \subseteq Opened(client'[b])
    <3>1. CASE client' = client
      BY <3>1
    <3>2. CASE client[c] # "off" /\ \E next \in ClientState \ {"off", "T1", "T2"} :
                                       client' = [client EXCEPT ![c] = next]
      <4>1. PICK next \in ClientState \ {"off", "T1", "T2"} :
              client' = [client EXCEPT ![c] = next]
        BY <3>2
      <4>2. /\ client'[c] = next
            /\ \A b \in Client \ {c} : client'[b] = client[b]
        BY <1>1, <4>1 DEF TypeOK
      <4>3. client[c] \in ClientState
        BY <1>1 DEF TypeOK
      <4> QED
        BY <2>1, <3>2, <4>2, <4>3
    <3> QED
      BY <1>7, <3>1, <3>2
  <2>3. QuietStep
    BY <1>7, <2>2 DEF QuietStep
  <2> QED
    BY <1>7, <2>3, QuietKeeps DEF TableOK, Invariant
<1>8. CASE \/ StartThreads(c) \/ Refused(c) \/ Finish(c) \/ SendExit(c)
           \/ \E t \in {"T1", "T2"} : SendFails(<<c, t>>)
           \/ Kill(c)
  BY <1>7, <1>8 DEF StartThreads, Refused, Finish, SendExit, SendFails, Kill, Typing,
                    ClientState, serverVars
<1>9. CASE \/ \E t \in {"T1", "T2"} : Answered(<<c, t>>)
           \/ \E t \in {"T1", "T2"}, r \in Commands : Command(<<c, t>>, r)
           \/ ServerComm(c)
  BY <1>7, <1>9 DEF Answered, Command, ServerComm, serverVars
<1> QED
  BY <1>4, <1>5, <1>6, <1>8, <1>9 DEF ClientStep, ClientChoice

\* What a server thread does to them.
LEMMA ThreadKeeps ==
  ASSUME Invariant, NEW k \in Connection, ThreadStep(k), down = "no"
  PROVE  TableOK' /\ Bookkeeping' /\ SocketsOwned'
<1>1. TypeOK
  BY DEF Invariant
<1>2. ASSUME users' = users, file' = file, client' = client, device' = device,
             \/ thread' = thread
             \/ \E p \in Pc, q \in Connection \cup {Nobody} :
                   /\ GotoOn(k, p, q)
                   /\ thread[k].pc # "none"
                   /\ p \in Undecided => thread[k].pc \in Undecided
      PROVE  TableOK' /\ Bookkeeping' /\ SocketsOwned'
  <2>2. \A h \in Connection :
          \/ thread'[h] = thread[h]
          \/ /\ thread'[h].socket = thread[h].socket
             /\ thread[h].pc # "none"
             /\ thread'[h].pc \in Undecided => thread[h].pc \in Undecided
    BY <1>1, <1>2, GotoIs
  <2>3. QuietStep
    BY <1>2, <2>2 DEF QuietStep
  <2> QED
    BY <1>2, <2>3, QuietKeeps DEF TableOK, Invariant
<1>3. ASSUME users' = users, file' = file, client' = client, device' = device,
             NEW p \in Pc, Goto(k, p), thread[k].pc # "none",
             p \in Undecided => thread[k].pc \in Undecided
      PROVE  TableOK' /\ Bookkeeping' /\ SocketsOwned'
  BY <1>2, <1>3 DEF Goto
<1> USE DEF Pc, Undecided
<1>4. CASE \/ ReadConnection(k) \/ ReadConnectionFails(k)
           \/ SemWait(k, "login_wait", "login")
           \/ SemWait(k, "notify_wait", "notify")
           \/ SemWait(k, "exit_wait", "exit")
  BY <1>3, <1>4 DEF ReadConnection, ReadConnectionFails, SemWait, clientVars
<1>5. CASE Login(k)
  BY <1>5, LoginKeeps
<1>6. CASE Refuse(k)
  <2>1. users' = users
    BY <1>6, DecisionIs DEF Refuse
  <2> QED
    BY <1>3, <1>6, <2>1 DEF Refuse, clientVars
<1>7. CASE Read(k)
  <2>1. CASE file[socket(k)] = Nobody
    BY <1>3, <1>7, <2>1 DEF Read, clientVars
  <2>2. CASE file[socket(k)] # Nobody
    <3>1. file[socket(k)] \in Connection \cup {Nobody}
      BY <1>1, <1>7, ThreadIs DEF Read, TypeOK
    <3> QED
      BY <1>2, <1>7, <2>2, <3>1 DEF Read, clientVars
  <2> QED
    BY <2>1, <2>2
<1>8. CASE ReadCommand(k)
  <2>1. Dispatch(thread[k].source) \in Pc \ Undecided
    BY DEF Dispatch
  <2> QED
    BY <1>3, <1>8, <2>1 DEF ReadCommand, clientVars
<1>9. CASE ReadFails(k) \/ ReceiveFile(k) \/ TransferOfAnother(k)
  BY <1>3, <1>9 DEF ReadFails, ReceiveFile, TransferOfAnother, clientVars
<1>10. CASE TransferFails(k)
  BY <1>2, <1>3, <1>10 DEF TransferFails, Crash, clientVars
<1>11. CASE Notify(k)
  BY <1>2, <1>3, <1>11 DEF Notify, Crash, clientVars
<1>12. CASE Exit(k)
  <2>1. CASE down' = "no"
    BY <1>12, <2>1, ExitKeeps
  <2>2. CASE down' # "no"
    <3>1. Crash("nullDevice") /\ client' = client /\ device' = device
      BY <1>12, <2>2 DEF Exit, clientVars
    <3> QED
      BY <1>2, <3>1 DEF Crash
  <2> QED
    BY <2>1, <2>2
<1>13. CASE ReadRemainder(k)
  BY <1>2, <1>13 DEF ReadRemainder, Crash, clientVars
<1> HIDE DEF Pc, Undecided
<1> QED
  BY <1>4, <1>5, <1>6, <1>7, <1>8, <1>9, <1>10, <1>11, <1>12, <1>13
     DEF ThreadStep, FreeStep, LockedStep

\* Every step of the system keeps the invariant.
LEMMA InvariantKept ==
  ASSUME Invariant, [Next]_vars
  PROVE  Invariant'
<1>1. CASE UNCHANGED vars
  <2>1. QuietStep
    BY <1>1 DEF QuietStep, vars
  <2>2. TableOK'
    BY <1>1 DEF TableOK, Invariant, vars
  <2> QED
    BY <2>1, <2>2, QuietKeeps, TypesKept, ExclusionKept DEF Invariant
<1>2. CASE Next
  <2>1. TableOK' /\ Bookkeeping' /\ SocketsOwned'
    BY <1>2, ClientKeeps, ThreadKeeps DEF Next
  <2> QED
    BY <2>1, TypesKept, ExclusionKept DEF Invariant
<1> QED
  BY <1>1, <1>2

\* The inductive invariant holds in every behaviour: types, the lock, the form
\* of the table and whose the descriptors are, each resting on the others.
THEOREM InvariantHolds == Spec => []Invariant
BY InitInvariant, InvariantKept, PTL DEF Spec

-----------------------------------------------------------------------------
(* The theorems *)

\* Every variable keeps its type; the table stays an array of MAX_USERS users
\* with MAX_DEVICES devices each (Server.cpp:617-806).
THEOREM TypesCorrect == Spec => []TypeOK
<1>1. Invariant => TypeOK
  BY DEF Invariant
<1> QED
  BY <1>1, InvariantHolds, PTL

\* mediatorThread, uploadFileCommand, deleteFileCommand, terminalThreadFunction
\* and iNotifyThreadFunction never work on the table at the same time.
THEOREM ExclusionHolds == Spec => []Exclusion
<1>1. Invariant => Exclusion
  BY DEF Invariant
<1> QED
  BY <1>1, InvariantHolds, PTL

\* Logins and exits of any number of clients, in any order, leave no double
\* name, no double device, no socket at a free entry and no user without device.
THEOREM TableHolds == Spec => []TableOK
<1>1. Invariant => TableOK
  BY DEF Invariant
<1> QED
  BY <1>1, InvariantHolds, PTL

\* The sockets in the table are open and belong to the user, device and type
\* they are listed under, although descriptors are closed and reused behind the
\* back of the threads that hold them.
THEOREM SocketsOwnedHolds == Spec => []SocketsOwned
<1>1. Invariant => SocketsOwned
  BY DEF Invariant
<1> QED
  BY <1>1, InvariantHolds, PTL

\* Once a refusal has left the lock behind, no step changes the table or the
\* lock any more.
THEOREM FrozenHolds == Spec => FrozenAfterRefusal
<1>1. ASSUME Invariant, [Next]_vars, Abandoned
      PROVE  users' = users /\ mutex' = mutex
  <2>1. /\ mutex # Nobody
        /\ thread[mutex].pc \notin Critical
        /\ \A k \in Connection : thread[k].pc \in Critical => mutex = k
    BY <1>1 DEF Abandoned, Critical, Invariant, Exclusion
  <2>2. \A k \in Connection : thread[k].pc \notin {"login", "notify", "exit"}
    BY <2>1 DEF Critical
  <2>3. ASSUME NEW c \in Client, ClientStep(c) \/ ClientChoice(c)
        PROVE  users' = users /\ mutex' = mutex
    BY <2>3 DEF ClientStep, ClientChoice, Open, OpenNext, StartThreads, Refused, Answered,
                Finish, ServerComm, Command, SendExit, SendFails, Kill, serverVars
  <2>4. ASSUME NEW k \in Connection, ThreadStep(k)
        PROVE  users' = users /\ mutex' = mutex
    <3>1. ~ Login(k) /\ ~ Refuse(k) /\ ~ Notify(k) /\ ~ Exit(k)
      BY <2>2 DEF Login, Refuse, Notify, Exit
    <3>2. \A from, to : ~ SemWait(k, from, to)
      BY <2>1 DEF SemWait
    <3> QED
      BY <2>4, <3>1, <3>2
         DEF ThreadStep, FreeStep, LockedStep, ReadConnection, ReadConnectionFails, ReadRemainder, Read, ReadCommand,
             ReadFails, ReceiveFile, TransferFails, TransferOfAnother, Crash
  <2>5. CASE UNCHANGED vars
    BY <2>5 DEF vars
  <2> QED
    BY <1>1, <2>3, <2>4, <2>5 DEF Next
<1>2. Invariant /\ [Next]_vars => [Abandoned => users' = users /\ mutex' = mutex]_vars
  BY <1>1
<1> QED
  BY <1>2, InvariantHolds, PTL DEF Spec, FrozenAfterRefusal
=============================================================================
