----------------------- MODULE SessionsConnectionProofs -----------------------
(***************************************************************************)
(* Theorems about the connections of Sessions, for every number of         *)
(* clients, users, devices and descriptors: which are in the table, how    *)
(* they leave it, who is written to, and what has happened when the server *)
(* follows a null pointer or never posts its lock.                         *)
(***************************************************************************)
EXTENDS SessionsProofs

(* The kinds of steps the properties tell apart. *)

\* A client opens its next connection.
Connects(c, type, next) ==
  /\ Accept(<<c, type>>)
  /\ client' = [client EXCEPT ![c] = next]
  /\ \/ type = "T1" /\ client[c] = "off" /\ \E i \in DeviceId : device' = [device EXCEPT ![c] = i]
     \/ type = "T2" /\ client[c] = "T1" /\ device' = device
     \/ type = "T3" /\ client[c] = "T2" /\ device' = device
  /\ next = type
  /\ users' = users /\ mutex' = mutex /\ down' = down

\* A client goes on without opening a connection, and leaves the server alone.
Proceeds(c) ==
  /\ UNCHANGED <<users, mutex, file, thread, down, device>>
  /\ \/ client' = client
     \/ /\ client[c] # "off"
        /\ \E next \in ClientState \ {"off", "T1", "T2"} : client' = [client EXCEPT ![c] = next]

\* A thread goes on without touching the table or the descriptors.
Moves(k) ==
  /\ users' = users /\ file' = file /\ down' = down
  /\ \E p \in Pc, q \in Connection \cup {Nobody} :
        /\ GotoOn(k, p, q)
        /\ thread[k].pc \notin {"none", "ended"}
        /\ p \in Serving => thread[k].pc \in Serving
        /\ p \in Undecided => thread[k].pc \in Undecided
        /\ \/ mutex' = mutex /\ thread[k].pc \notin Critical /\ p \notin Critical
           \/ mutex = Nobody /\ mutex' = k /\ p \in Critical
           \/ mutex' = Nobody /\ thread[k].pc = "notify" /\ p = "ready"
           \/ mutex' = mutex /\ Refuse(k) /\ p = "ended"

\* The server dies in a step of thread k.
Dies(k) ==
  /\ UNCHANGED <<users, mutex, file, thread>>
  /\ \/ down' \in {"sigpipe", "badSize", "noDevice"}
     \/ /\ thread[k].pc = "notify" /\ down' = "nullUser"
        /\ get_user(users, UserOf[k[1]]) = 0
     \/ /\ thread[k].pc = "exit" /\ down' = "nullDevice"
        /\ get_device(users, device[k[1]], UserOf[k[1]]) = 0

\* What a step of a client is.
LEMMA ClientStepIs ==
  ASSUME NEW c \in Client, ClientStep(c) \/ ClientChoice(c)
  PROVE  (\E type \in SocketType, next \in ClientState : Connects(c, type, next)) \/ Proceeds(c)
<1> USE DEF ClientState, SocketType
<1>1. CASE Open(c)
  <2>1. Connects(c, "T1", "T1")
    BY <1>1 DEF Open, Connects
  <2> QED
    BY <2>1
<1>2. CASE OpenNext(c, "T1", "T2")
  <2>1. Connects(c, "T2", "T2")
    BY <1>2 DEF OpenNext, Connects
  <2> QED
    BY <2>1
<1>3. CASE OpenNext(c, "T2", "T3")
  <2>1. Connects(c, "T3", "T3")
    BY <1>3 DEF OpenNext, Connects
  <2> QED
    BY <2>1
<1>4. CASE StartThreads(c) \/ Refused(c) \/ SendExit(c) \/ Kill(c)
  BY <1>4 DEF StartThreads, Refused, SendExit, Kill, Proceeds, serverVars
<1>5. ASSUME NEW t \in {"T1", "T2"}, SendFails(<<c, t>>)
      PROVE  Proceeds(c)
  <2>1. /\ client[c] # "off"
        /\ client' = [client EXCEPT ![c] = "killed"]
        /\ UNCHANGED <<users, mutex, file, thread, down, device>>
    BY <1>5 DEF SendFails, Typing, serverVars
  <2>2. "killed" \in ClientState \ {"off", "T1", "T2"}
    OBVIOUS
  <2> HIDE DEF ClientState
  <2> QED
    BY <2>1, <2>2 DEF Proceeds
<1>6. CASE Finish(c)
  BY <1>6 DEF Finish, Proceeds, serverVars
<1>7. CASE \/ \E t \in {"T1", "T2"} : Answered(<<c, t>>)
           \/ \E t \in {"T1", "T2"}, r \in Commands : Command(<<c, t>>, r)
           \/ ServerComm(c)
  BY <1>7 DEF Answered, Command, ServerComm, Proceeds, serverVars
<1> QED
  BY <1>1, <1>2, <1>3, <1>4, <1>5, <1>6, <1>7 DEF ClientStep, ClientChoice

\* What a step of a server thread is.
LEMMA ThreadStepIs ==
  ASSUME Invariant, NEW k \in Connection, ThreadStep(k), down = "no"
  PROVE  /\ device' = device /\ client' = client
         /\ Login(k) \/ (Exit(k) /\ down' = "no") \/ Moves(k) \/ Dies(k)
<1>1. device' = device /\ client' = client
  BY DEF ThreadStep, FreeStep, LockedStep, ReadConnection, ReadConnectionFails, ReadRemainder,
         SemWait, Login, Refuse, Read, ReadCommand, ReadFails, ReceiveFile, TransferFails, TransferOfAnother,
         Notify, Exit, clientVars
<1> DEFINE Target == Login(k) \/ (Exit(k) /\ down' = "no") \/ Moves(k) \/ Dies(k)
<1>2. TypeOK /\ (thread[k].pc \in Critical => mutex = k)
  BY DEF Invariant, Exclusion
<1>3. ASSUME NEW p \in Pc, NEW q \in Connection \cup {Nobody}, GotoOn(k, p, q),
             UNCHANGED <<users, mutex, file, down>>,
             thread[k].pc \notin {"none", "ended"} \cup Critical, p \notin Critical,
             p \in Serving => thread[k].pc \in Serving,
             p \in Undecided => thread[k].pc \in Undecided
      PROVE  Target
  BY <1>3 DEF Moves
<1>4. ASSUME NEW p \in Pc, Goto(k, p),
             UNCHANGED <<users, mutex, file, down>>,
             thread[k].pc \notin {"none", "ended"} \cup Critical, p \notin Critical,
             p \in Serving => thread[k].pc \in Serving,
             p \in Undecided => thread[k].pc \in Undecided
      PROVE  Target
  BY <1>3, <1>4 DEF Goto
<1> SUFFICES Target
  BY <1>1
<1> HIDE DEF Target
<1> USE DEF Serving, Undecided, Critical
<1>5. CASE ReadConnection(k) \/ ReadConnectionFails(k) \/ ReadFails(k)
  BY <1>4, <1>5 DEF ReadConnection, ReadConnectionFails, ReadFails, Pc
<1>6. ASSUME NEW x \in {<<"login_wait", "login">>, <<"notify_wait", "notify">>, <<"exit_wait", "exit">>},
             SemWait(k, x[1], x[2])
      PROVE  Target
  <2>1. /\ GotoOn(k, x[2], Nobody) /\ thread[k].pc = x[1] /\ mutex = Nobody /\ mutex' = k
        /\ users' = users /\ file' = file /\ down' = down
    BY <1>6 DEF SemWait, Goto
  <2>2. x[2] \in Pc /\ x[2] \in Critical /\ x[1] \notin {"none", "ended"}
    BY DEF Pc
  <2>3. /\ x[2] \in Serving => x[1] \in Serving
        /\ x[2] \in Undecided => x[1] \in Undecided
    OBVIOUS
  <2>4. Moves(k)
    BY <2>1, <2>2, <2>3 DEF Moves
  <2> QED
    BY <2>4 DEF Target
<1>7. CASE Refuse(k)
  <2>1. users' = users /\ GotoOn(k, "ended", Nobody) /\ mutex' = mutex /\ file' = file /\ down' = down
    BY <1>7, DecisionIs DEF Refuse, Goto
  <2>2. thread[k].pc = "login"
    BY <1>7 DEF Refuse
  <2>3. Moves(k)
    BY <1>7, <2>1, <2>2 DEF Moves, Pc
  <2> QED
    BY <2>3 DEF Target
<1>8. CASE Read(k)
  <2>1. CASE file[socket(k)] = Nobody
    BY <1>4, <1>8, <2>1 DEF Read, Pc
  <2>2. CASE file[socket(k)] # Nobody
    <3>1. file[socket(k)] \in Connection \cup {Nobody}
      BY <1>2, <1>8, ThreadIs DEF Read, TypeOK
    <3> QED
      BY <1>3, <1>8, <2>2, <3>1 DEF Read, Pc
  <2> QED
    BY <2>1, <2>2
<1>9. CASE ReadCommand(k)
  <2>1. Dispatch(thread[k].source) \in {"exit_wait", "notify_wait", "receive", "ready"}
    BY DEF Dispatch
  <2> QED
    BY <1>4, <1>9, <2>1 DEF ReadCommand, Pc
<1>10. CASE ReceiveFile(k) \/ TransferOfAnother(k)
  BY <1>4, <1>10 DEF ReceiveFile, TransferOfAnother, Pc
<1>11. CASE TransferFails(k)
  <2>1. CASE \E p \in {"ended", "notify_wait"} : Goto(k, p) /\ UNCHANGED <<users, mutex, file, down>>
    BY <1>4, <1>11, <2>1 DEF TransferFails, Pc
  <2>2. CASE Crash("badSize") \/ Crash("sigpipe")
    BY <2>2 DEF Crash, Dies, Target
  <2> QED
    BY <1>11, <2>1, <2>2 DEF TransferFails
<1>12. CASE Notify(k)
  <2>1. thread[k].pc = "notify"
    BY <1>12 DEF Notify
  <2>2. CASE Goto(k, "ready") /\ mutex' = Nobody /\ UNCHANGED <<users, file, down>>
    <3>1. GotoOn(k, "ready", Nobody)
      BY <2>2 DEF Goto
    <3>2. Moves(k)
      BY <2>1, <2>2, <3>1 DEF Moves, Pc
    <3> QED
      BY <3>2 DEF Target
  <2>3. CASE Crash("sigpipe") \/ (get_user(users, UserOf[k[1]]) = 0 /\ Crash("nullUser"))
    BY <2>1, <2>3 DEF Crash, Dies, Target
  <2> QED
    BY <1>12, <2>2, <2>3 DEF Notify
<1>13. CASE Exit(k)
  <2>1. CASE get_device(users, device[k[1]], UserOf[k[1]]) = 0
    BY <1>13, <2>1 DEF Exit, Crash, Dies, Target
  <2>2. CASE get_device(users, device[k[1]], UserOf[k[1]]) # 0
    BY <1>13, <2>2 DEF Exit, Target
  <2> QED
    BY <2>1, <2>2
<1>14. CASE Login(k)
  BY <1>14 DEF Target
<1>15. CASE ReadRemainder(k)
  BY <1>15 DEF ReadRemainder, Crash, Dies, Target
<1> QED
  BY <1>5, <1>6, <1>7, <1>8, <1>9, <1>10, <1>11, <1>12, <1>13, <1>14, <1>15
     DEF ThreadStep, FreeStep, LockedStep

\* What a step of the system is.
LEMMA StepIs ==
  ASSUME Invariant, Next
  PROVE  \/ \E c \in Client, type \in SocketType, next \in ClientState : Connects(c, type, next)
         \/ \E c \in Client : Proceeds(c)
         \/ \E k \in Connection :
               /\ device' = device /\ client' = client
               /\ Login(k) \/ (Exit(k) /\ down' = "no") \/ Moves(k) \/ Dies(k)
<1>1. ASSUME NEW c \in Client, ClientStep(c) \/ ClientChoice(c)
      PROVE  \/ \E type \in SocketType, next \in ClientState : Connects(c, type, next)
             \/ Proceeds(c)
  BY <1>1, ClientStepIs
<1>2. ASSUME NEW k \in Connection, ThreadStep(k)
      PROVE  /\ device' = device /\ client' = client
             /\ Login(k) \/ (Exit(k) /\ down' = "no") \/ Moves(k) \/ Dies(k)
  BY <1>2, ThreadStepIs DEF Next
<1> QED
  BY <1>1, <1>2 DEF Next

\* A new connection gets a descriptor that named none, and a thread of its own.
LEMMA ConnectsIs ==
  ASSUME Invariant, NEW c \in Client, NEW type \in SocketType, NEW next \in ClientState,
         Connects(c, type, next)
  PROVE  /\ <<c, type>> \in Connection
         /\ type \notin Opened(client[c]) /\ type \in Opened(next)
         /\ Opened(client[c]) \subseteq Opened(next)
         /\ next \notin {"off", "done", "refused"}
         /\ client'[c] = next
         /\ \A b \in Client \ {c} : client'[b] = client[b] /\ device'[b] = device[b]
         /\ client[c] # "off" => device' = device
         /\ thread'[<<c, type>>].pc = "mediator"
         /\ \A h \in Connection \ {<<c, type>>} : thread'[h] = thread[h]
<1>1. TypeOK /\ <<c, type>> \in Connection
  BY DEF Invariant, Connection
<1>2. PICK s \in Descriptor :
        thread' = [thread EXCEPT ![<<c, type>>] =
                        [pc |-> "mediator", socket |-> s, source |-> Nobody]]
  BY <1>1, AcceptIs DEF Connects
<1>3. /\ thread'[<<c, type>>].pc = "mediator"
      /\ \A h \in Connection \ {<<c, type>>} : thread'[h] = thread[h]
  BY <1>1, <1>2 DEF TypeOK
<1>5. /\ client'[c] = next
      /\ \A b \in Client \ {c} : client'[b] = client[b] /\ device'[b] = device[b]
      /\ client[c] # "off" => device' = device
  BY <1>1 DEF TypeOK, Connects
<1>6. /\ type \notin Opened(client[c]) /\ type \in Opened(next)
      /\ Opened(client[c]) \subseteq Opened(next)
      /\ next \notin {"off", "done", "refused"}
  BY DEF Connects, Opened, SocketType
<1> QED
  BY <1>1, <1>2, <1>3, <1>5, <1>6

\* The descriptor it gets named no connection.
LEMMA ConnectsFile ==
  ASSUME Invariant, NEW c \in Client, NEW type \in SocketType, NEW next,
         Connects(c, type, next)
  PROVE  \E s \in Descriptor : /\ file[s] = Nobody
                              /\ file'[s] = <<c, type>>
                              /\ \A r \in Descriptor \ {s} : file'[r] = file[r]
<1>1. TypeOK /\ <<c, type>> \in Connection
  BY DEF Invariant, Connection
<1>2. PICK s \in Descriptor : file[s] = Nobody /\ file' = [file EXCEPT ![s] = <<c, type>>]
  BY <1>1, AcceptIs DEF Connects
<1>3. /\ file'[s] = <<c, type>>
      /\ \A r \in Descriptor \ {s} : file'[r] = file[r]
  BY <1>1, <1>2 DEF TypeOK
<1> QED
  BY <1>2, <1>3

\* A client that goes on keeps what it has opened.
LEMMA ProceedsIs ==
  ASSUME Invariant, NEW c \in Client, Proceeds(c)
  PROVE  /\ UNCHANGED <<users, mutex, file, thread, down, device>>
         /\ \A b \in Client :
              /\ client'[b] = "off" <=> client[b] = "off"
              /\ Opened(client[b]) \subseteq Opened(client'[b])
<1>1. UNCHANGED <<users, mutex, file, thread, down, device>>
  BY DEF Proceeds
<1>2. CASE client' = client
  BY <1>1, <1>2
<1>3. CASE client[c] # "off" /\ client' # client
  <2>1. PICK next \in ClientState \ {"off", "T1", "T2"} : client' = [client EXCEPT ![c] = next]
    BY <1>3 DEF Proceeds
  <2>2. client'[c] = next /\ \A b \in Client \ {c} : client'[b] = client[b]
    BY <2>1 DEF Invariant, TypeOK
  <2>3. Opened(client[c]) \subseteq SocketType /\ Opened(next) = SocketType
    BY DEF Opened, SocketType, ClientState
  <2> QED
    BY <1>1, <1>3, <2>1, <2>2, <2>3
<1> QED
  BY <1>2, <1>3 DEF Proceeds

-----------------------------------------------------------------------------
(* The lock holder, the device numbers and the connections of a client *)

\* They hold at the start.
LEMMA InitStanding == Init => Standing
BY DEF Init, Standing

\* Every step keeps them.
LEMMA StandingKept ==
  ASSUME Invariant, Standing, Next
  PROVE  Standing'
<1>1. TypeOK
  BY DEF Invariant
<1>2. ASSUME NEW c \in Client, NEW type \in SocketType, NEW next \in ClientState,
             Connects(c, type, next)
      PROVE  Standing'
  <2> DEFINE n == <<c, type>>
  <2>1. /\ n \in Connection /\ n[1] = c /\ n[2] = type
        /\ type \notin Opened(client[c]) /\ type \in Opened(next)
        /\ Opened(client[c]) \subseteq Opened(next)
        /\ next \notin {"off", "done", "refused"}
        /\ client'[c] = next
        /\ \A b \in Client \ {c} : client'[b] = client[b] /\ device'[b] = device[b]
        /\ thread'[n].pc = "mediator"
        /\ \A h \in Connection \ {n} : thread'[h] = thread[h]
        /\ mutex' = mutex
    BY <1>2, ConnectsIs DEF Connects
  <2> HIDE DEF n
  <2>3. mutex' # Nobody => thread'[mutex'].pc \in Critical \cup {"ended"}
    <3> HAVE mutex' # Nobody
    <3>1. mutex \in Connection /\ thread[mutex].pc \in Critical \cup {"ended"}
      BY <1>1, <2>1 DEF TypeOK, Standing
    <3>2. mutex[2] \in Opened(client[mutex[1]])
      BY <3>1 DEF Standing, Critical
    <3>3. mutex # n
      BY <2>1, <3>2
    <3> QED
      BY <2>1, <3>1, <3>3
  <2>4. \A b \in Client : client'[b] = "off" => device'[b] = NoId
    BY <2>1 DEF Standing
  <2>5. \A h \in Connection : thread'[h].pc # "none" => h[2] \in Opened(client'[h[1]])
    <3> TAKE h \in Connection
    <3>1. h[1] \in Client
      BY DEF Connection
    <3> QED
      BY <2>1, <3>1 DEF Standing
  <2> QED
    BY <2>3, <2>4, <2>5 DEF Standing
<1>3. ASSUME NEW c \in Client, Proceeds(c)
      PROVE  Standing'
  <2>1. /\ UNCHANGED <<users, mutex, file, thread, down, device>>
        /\ \A b \in Client :
              /\ client'[b] = "off" <=> client[b] = "off"
              /\ Opened(client[b]) \subseteq Opened(client'[b])
    BY <1>3, ProceedsIs
  <2>2. \A h \in Connection : thread'[h].pc # "none" => h[2] \in Opened(client'[h[1]])
    <3> TAKE h \in Connection
    <3>1. h[1] \in Client
      BY DEF Connection
    <3> QED
      BY <2>1, <3>1 DEF Standing
  <2> QED
    BY <2>1, <2>2 DEF Standing
\* A step of a thread: only the lock matters.
<1>4. ASSUME NEW k \in Connection, device' = device, client' = client,
             NEW p \in Pc, NEW q \in Connection \cup {Nobody}, GotoOn(k, p, q),
             thread[k].pc # "none",
             \/ mutex' = Nobody
             \/ mutex' = mutex /\ (mutex = k => p \in Critical \cup {"ended"})
             \/ mutex' = k /\ p \in Critical
      PROVE  Standing'
  <2>1. /\ thread'[k].pc = p
        /\ \A h \in Connection \ {k} : thread'[h] = thread[h]
    BY <1>1, <1>4, GotoIs
  <2>2. mutex' # Nobody => thread'[mutex'].pc \in Critical \cup {"ended"}
    BY <1>1, <1>4, <2>1 DEF Standing, TypeOK
  <2>3. \A h \in Connection : thread'[h].pc # "none" => h[2] \in Opened(client'[h[1]])
    BY <1>4, <2>1 DEF Standing
  <2> QED
    BY <1>4, <2>2, <2>3 DEF Standing
<1>5. ASSUME NEW k \in Connection, device' = device, client' = client, Login(k)
      PROVE  Standing'
  <2>1. PICK p \in {"ended", "ready"} : GotoOn(k, p, Nobody)
    BY <1>5 DEF Login, Goto
  <2> QED
    BY <1>4, <1>5, <2>1 DEF Login, Pc
<1>6. ASSUME NEW k \in Connection, device' = device, client' = client, Exit(k), down' = "no"
      PROVE  Standing'
  <2>1. mutex' = Nobody /\ GotoOn(k, "ended", Nobody)
    BY <1>6, ExitIs DEF Goto
  <2> QED
    BY <1>4, <1>6, <2>1 DEF Exit, Pc
<1>7. ASSUME NEW k \in Connection, device' = device, client' = client, Moves(k)
      PROVE  Standing'
  <2>1. PICK p \in Pc, q \in Connection \cup {Nobody} :
          /\ GotoOn(k, p, q)
          /\ thread[k].pc \notin {"none", "ended"}
          /\ \/ mutex' = mutex /\ thread[k].pc \notin Critical /\ p \notin Critical
             \/ mutex = Nobody /\ mutex' = k /\ p \in Critical
             \/ mutex' = Nobody /\ thread[k].pc = "notify" /\ p = "ready"
             \/ mutex' = mutex /\ Refuse(k) /\ p = "ended"
    BY <1>7 DEF Moves
  <2>2. mutex = k => thread[k].pc \in Critical
    BY <1>1, <2>1, SessionsAssumption DEF Standing, TypeOK
  <2> QED
    BY <1>4, <1>7, <2>1, <2>2 DEF Moves
<1>8. ASSUME NEW k \in Connection, device' = device, client' = client, Dies(k)
      PROVE  Standing'
  BY <1>8 DEF Dies, Standing
<1> QED
  BY <1>2, <1>3, <1>5, <1>6, <1>7, <1>8, StepIs

-----------------------------------------------------------------------------
(* Open connections are listed *)

\* The entry of connection h in the table is entry d of slot u.
ListedAt(h, u, d) ==
  /\ users[u].name = UserOf[h[1]]
  /\ users[u].devices[d].id = device[h[1]]
  /\ users[u].devices[d].socket[h[2]] = socket(h)

\* A step that adds nobody to those who must be listed and touches no entry.
LEMMA UntouchedListed ==
  ASSUME OpenConnectionListed, users' = users,
         \A h \in Connection :
            thread'[h].pc \in Serving /\ file'[thread'[h].socket] = h /\ ~ Shared(h[1])' =>
               /\ thread[h].pc \in Serving
               /\ thread'[h].socket = thread[h].socket
               /\ file[thread[h].socket] = h
               /\ ~ Shared(h[1])
               /\ device'[h[1]] = device[h[1]]
  PROVE  OpenConnectionListed'
BY DEF OpenConnectionListed, socket

\* A login puts its own connection into the table and displaces none but those
\* of a client with the same device.
LEMMA LoginLists ==
  ASSUME Invariant, OpenConnectionListed, NEW k \in Connection, Login(k)
  PROVE  OpenConnectionListed'
<1> DEFINE c == k[1]
<1>1. /\ k = <<c, k[2]>> /\ c \in Client /\ k[2] \in SocketType
      /\ socket(k) \in Descriptor /\ client[c] # "off"
      /\ device[c] \in DeviceId /\ UserOf[c] \in UserName
  BY ThreadIs DEF Login
<1>2. client' = client /\ device' = device /\ file' = file
  BY DEF Login, clientVars
<1>3. PICK u \in UserSlot, d \in DeviceSlot : Seats(k, u, d)
  BY LoginSeats
<1>4. PICK p \in {"ended", "ready"} : Goto(k, p)
  BY DEF Login
<1>5. /\ thread'[k].pc = p
      /\ thread'[k].socket = thread[k].socket
      /\ \A h \in Connection \ {k} : thread'[h] = thread[h]
  BY <1>4, GotoIs DEF Goto, Pc, Invariant
<1> SUFFICES ASSUME NEW h \in Connection,
                    thread'[h].pc \in Serving, file'[thread'[h].socket] = h, ~ Shared(h[1])'
             PROVE  \E v \in UserSlot, e \in DeviceSlot :
                       /\ users'[v].name = UserOf[h[1]]
                       /\ users'[v].devices[e].id = device'[h[1]]
                       /\ users'[v].devices[e].socket[h[2]] = thread'[h].socket
  BY DEF OpenConnectionListed, socket
<1>6. CASE h = k
  BY <1>1, <1>2, <1>3, <1>5, <1>6 DEF socket, Seats
<1>7. CASE h # k
  <2>1. /\ thread'[h] = thread[h] /\ thread[h].pc \in Serving /\ file[socket(h)] = h
        /\ ~ Shared(h[1])
    BY <1>2, <1>5, <1>7 DEF socket, Shared
  <2>2. PICK v \in UserSlot, e \in DeviceSlot : ListedAt(h, v, e)
    BY <2>1 DEF OpenConnectionListed, ListedAt
  <2>3. /\ h[1] \in Client /\ h[2] \in SocketType /\ h = <<h[1], h[2]>>
        /\ UserOf[h[1]] \in UserName /\ device[h[1]] \in DeviceId
    BY <2>1, ThreadIs DEF Serving
  <2>4. users'[v].name = users[v].name
    BY <1>3, <2>2, <2>3, UserTableAssumption DEF SeatFor, ListedAt, Seats
  <2>5. CASE v = u /\ e = d
    <3>1. users[u].name = UserOf[c]
      BY <1>3, <2>4, <2>5 DEF Seats
    <3>2. users[u].devices[d].id = device[c]
      BY <1>3, <2>2, <2>3, <2>5, UserTableAssumption DEF SeatFor, ListedAt, Seats
    <3>3. h[1] = c
      BY <1>1, <2>1, <2>2, <2>3, <2>5, <3>1, <3>2 DEF Shared, ListedAt
    <3>4. h[2] # k[2]
      BY <1>1, <1>7, <2>3, <3>3
    <3> QED
      BY <1>2, <1>3, <2>1, <2>2, <2>3, <2>4, <2>5, <3>2, <3>4 DEF ListedAt, socket, Seats
  <2>6. CASE ~ (v = u /\ e = d)
    <3>1. users'[v].devices[e] = users[v].devices[e]
      BY <1>3, <2>6 DEF Seats
    <3> QED
      BY <1>2, <2>1, <2>2, <2>4, <3>1 DEF ListedAt, socket
  <2> QED
    BY <2>5, <2>6
<1> QED
  BY <1>6, <1>7

\* An exit takes an entry away together with the connections listed there.
LEMMA ExitLists ==
  ASSUME Invariant, OpenConnectionListed, NEW k \in Connection, Exit(k), down' = "no"
  PROVE  OpenConnectionListed'
<1>1. PICK u \in UserSlot, d \in DeviceSlot : Clears(u, d)
  BY ExitClears
<1>2. client' = client /\ device' = device /\ Goto(k, "ended")
  BY ExitIs DEF Exit, clientVars
<1>3. /\ thread'[k].pc = "ended"
      /\ \A h \in Connection \ {k} : thread'[h] = thread[h]
  BY <1>2, GotoIs DEF Goto, Pc, Invariant
<1> SUFFICES ASSUME NEW h \in Connection,
                    thread'[h].pc \in Serving, file'[thread'[h].socket] = h, ~ Shared(h[1])'
             PROVE  \E v \in UserSlot, e \in DeviceSlot :
                       /\ users'[v].name = UserOf[h[1]]
                       /\ users'[v].devices[e].id = device'[h[1]]
                       /\ users'[v].devices[e].socket[h[2]] = thread'[h].socket
  BY DEF OpenConnectionListed, socket
<1>4. thread'[h] = thread[h] /\ thread[h].pc \in Serving
  BY <1>3 DEF Serving
<1>5. /\ h[1] \in Client /\ h[2] \in SocketType
      /\ socket(h) \in Descriptor /\ device[h[1]] \in DeviceId
  BY <1>4, ThreadIs DEF Serving
<1>6. /\ file[socket(h)] = h /\ ~ Shared(h[1])
      /\ \A t \in SocketType : Entry(u, d, t) # socket(h)
  BY <1>1, <1>2, <1>4, <1>5, SessionsAssumption DEF socket, Shared, Clears
<1>7. PICK v \in UserSlot, e \in DeviceSlot : ListedAt(h, v, e)
  BY <1>4, <1>6 DEF OpenConnectionListed, ListedAt
<1>8. ~ (v = u /\ e = d)
  BY <1>5, <1>6, <1>7 DEF ListedAt, Entry
<1>9. e \in Connected(users, v)
  BY <1>5, <1>7, UserTableAssumption DEF Connected, ListedAt
<1>10. users'[v].name = users[v].name /\ users'[v].devices[e] = users[v].devices[e]
  BY <1>1, <1>8, <1>9 DEF Clears
<1> QED
  BY <1>2, <1>4, <1>7, <1>10 DEF ListedAt, socket

\* Every step keeps open connections listed.
LEMMA ListedKept ==
  ASSUME Invariant, Standing, OpenConnectionListed, Next
  PROVE  OpenConnectionListed'
<1>1. TypeOK
  BY DEF Invariant
<1>2. ASSUME NEW c \in Client, NEW type \in SocketType, NEW next \in ClientState,
             Connects(c, type, next)
      PROVE  OpenConnectionListed'
  <2> DEFINE n == <<c, type>>
  <2>1. /\ n \in Connection
        /\ client'[c] = next /\ next # "off"
        /\ \A b \in Client \ {c} : client'[b] = client[b] /\ device'[b] = device[b]
        /\ client[c] # "off" => device' = device
        /\ thread'[n].pc = "mediator"
        /\ \A h \in Connection \ {n} : thread'[h] = thread[h]
        /\ users' = users
    BY <1>2, ConnectsIs DEF Connects
  <2>2. PICK s \in Descriptor : /\ file[s] = Nobody
                                /\ file'[s] = <<c, type>>
                                /\ \A r \in Descriptor \ {s} : file'[r] = file[r]
    BY <1>2, ConnectsFile
  <2>3. ASSUME NEW h \in Connection,
               thread'[h].pc \in Serving, file'[thread'[h].socket] = h, ~ Shared(h[1])'
        PROVE  /\ thread[h].pc \in Serving
               /\ thread'[h].socket = thread[h].socket
               /\ file[thread[h].socket] = h
               /\ ~ Shared(h[1])
               /\ device'[h[1]] = device[h[1]]
    <3>1. h # n /\ thread'[h] = thread[h]
      BY <2>1, <2>3 DEF Serving
    <3>2. /\ h[1] \in Client /\ socket(h) \in Descriptor
          /\ client[h[1]] # "off" /\ device[h[1]] \in DeviceId
      BY <2>3, <3>1, ThreadIs DEF Serving
    <3>3. file[thread[h].socket] = h
      BY <2>2, <2>3, <3>1, <3>2 DEF socket
    <3>4. device'[h[1]] = device[h[1]]
      BY <2>1, <3>2
    <3>5. \A b \in Client : device[b] = device[h[1]] => client[b] # "off" /\ device'[b] = device[b]
      <4> TAKE b \in Client
      <4> HAVE device[b] = device[h[1]]
      <4>1. client[b] # "off"
        BY <3>2, UserTableAssumption DEF Standing
      <4> QED
        BY <2>1, <4>1
    <3>6. ~ Shared(h[1])
      BY <2>3, <3>4, <3>5 DEF Shared
    <3> QED
      BY <2>3, <3>1, <3>3, <3>4, <3>6
  <2> QED
    BY <2>1, <2>3, UntouchedListed
<1>3. ASSUME NEW c \in Client, Proceeds(c)
      PROVE  OpenConnectionListed'
  <2>1. UNCHANGED <<users, file, thread, device>>
    BY <1>3, ProceedsIs
  <2> QED
    BY <2>1 DEF OpenConnectionListed, Shared, socket
<1>4. ASSUME NEW k \in Connection, device' = device, Moves(k)
      PROVE  OpenConnectionListed'
  <2>1. PICK p \in Pc, q \in Connection \cup {Nobody} :
          GotoOn(k, p, q) /\ (p \in Serving => thread[k].pc \in Serving)
    BY <1>4 DEF Moves
  <2>2. /\ thread'[k].pc = p
        /\ thread'[k].socket = thread[k].socket
        /\ \A h \in Connection \ {k} : thread'[h] = thread[h]
    BY <1>1, <2>1, GotoIs
  <2>3. users' = users /\ file' = file
    BY <1>4 DEF Moves
  <2>4. \A h \in Connection : /\ thread'[h].socket = thread[h].socket
                              /\ thread'[h].pc \in Serving => thread[h].pc \in Serving
    BY <2>1, <2>2
  <2>5. \A h \in Connection : Shared(h[1])' = Shared(h[1])
    BY <1>4 DEF Shared
  <2> QED
    BY <1>4, <2>3, <2>4, <2>5, UntouchedListed
<1>5. ASSUME NEW k \in Connection, device' = device, Dies(k)
      PROVE  OpenConnectionListed'
  BY <1>5 DEF Dies, OpenConnectionListed, Shared, socket
<1> QED
  BY <1>2, <1>3, <1>4, <1>5, StepIs, LoginLists, ExitLists

-----------------------------------------------------------------------------
(* Null pointers and the abandoned lock *)

\* A listed connection's user and device are found.
LEMMA ListedFound ==
  ASSUME Invariant, NEW h \in Connection, thread[h].pc # "none",
         NEW u \in UserSlot, NEW d \in DeviceSlot, ListedAt(h, u, d)
  PROVE  /\ get_user(users, UserOf[h[1]]) # 0
         /\ get_device(users, device[h[1]], UserOf[h[1]]) # 0
<1> DEFINE name == UserOf[h[1]]
           v    == get_user(users, name)
<1>1. users[u].name = name /\ users[u].devices[d].id = device[h[1]]
  BY DEF ListedAt
<1>2. name # NoName
  BY ThreadIs, UserTableAssumption
<1>3. v # 0 /\ v \in UserSlot /\ users[v].name = name
  BY <1>1, GetUser
<1>4. v = u
  BY <1>1, <1>2, <1>3 DEF Invariant, TableOK, WellFormed, UniqueNames
<1>5. DeviceOf(users, u, device[h[1]]) # 0
  BY <1>1, FindDevice
<1> QED
  BY <1>3, <1>4, <1>5 DEF get_device

\* The server follows a null pointer for a displaced connection only.
LEMMA NullKept ==
  ASSUME Invariant, OpenConnectionListed, NullOnlyWhenDisplaced, Next
  PROVE  NullOnlyWhenDisplaced'
<1>1. ASSUME NEW k \in Connection, Dies(k), device' = device, down' \in {"nullUser", "nullDevice"}
      PROVE  NullOnlyWhenDisplaced'
  <2>1. /\ thread[k].pc \in Critical /\ thread[k].pc \in Serving /\ thread[k].pc # "none"
        /\ \/ get_user(users, UserOf[k[1]]) = 0
           \/ get_device(users, device[k[1]], UserOf[k[1]]) = 0
    BY <1>1 DEF Dies, Critical, Serving
  <2>2. mutex = k
    BY <2>1 DEF Invariant, Exclusion
  <2>3. \A u \in UserSlot, d \in DeviceSlot : ~ ListedAt(k, u, d)
    BY <2>1, ListedFound
  <2>4. file[socket(k)] # k \/ Shared(k[1])
    BY <2>1, <2>3 DEF OpenConnectionListed, ListedAt
  <2> QED
    BY <1>1, <2>2, <2>4 DEF Dies, NullOnlyWhenDisplaced, Shared, socket
<1>2. ASSUME NEW k \in Connection, Login(k) \/ Moves(k)
      PROVE  down' = down
  BY <1>2 DEF Login, Moves
<1>3. ASSUME NEW c \in Client, Proceeds(c) \/ \E t \in SocketType, s \in ClientState : Connects(c, t, s)
      PROVE  down' = down
  BY <1>3 DEF Proceeds, Connects, serverVars
<1>4. down = "no"
  BY DEF Next
<1>5. CASE down' \in {"nullUser", "nullDevice"}
  BY <1>1, <1>2, <1>3, <1>4, <1>5, StepIs
<1>6. CASE down' \notin {"nullUser", "nullDevice"}
  BY <1>6 DEF NullOnlyWhenDisplaced
<1> QED
  BY <1>5, <1>6

\* No room for the connection k, of this user and with this device number.
NoRoom(us, name, id) ==
  IF get_user(us, name) = 0
    THEN number_of_users_logged(us) = MaxUsers
    ELSE number_of_devices(us, name) = MaxDevices /\ get_device(us, id, name) = 0

\* Only a refusal leaves the lock behind, when there is no room.
LEMMA AbandonedKept ==
  ASSUME Invariant, Standing, AbandonedOnlyWhenFull, Next
  PROVE  AbandonedOnlyWhenFull'
<1>1. TypeOK
  BY DEF Invariant
<1> SUFFICES ASSUME Abandoned'
             PROVE  NoRoom(users', UserOf[(mutex')[1]], device'[(mutex')[1]])
  BY DEF AbandonedOnlyWhenFull, NoRoom
<1>2. mutex' # Nobody /\ thread'[mutex'].pc = "ended"
  BY DEF Abandoned
<1>3. CASE Abandoned
  <2>1. mutex \in Connection /\ thread[mutex].pc = "ended"
    BY <1>1, <1>3 DEF Abandoned, TypeOK
  <2>2. NoRoom(users, UserOf[mutex[1]], device[mutex[1]])
    BY <1>3 DEF AbandonedOnlyWhenFull, NoRoom
  <2>3. \A k \in Connection : thread[k].pc \notin Critical
    BY <2>1 DEF Invariant, Exclusion, Critical
  <2>4. mutex[1] \in Client /\ client[mutex[1]] # "off"
    BY <2>1, ThreadIs
  <2>5. ASSUME NEW c \in Client, NEW type \in SocketType, NEW next \in ClientState,
               Connects(c, type, next)
        PROVE  users' = users /\ mutex' = mutex /\ device'[mutex[1]] = device[mutex[1]]
    BY <2>4, <2>5, ConnectsIs DEF Connects
  <2>6. ASSUME NEW c \in Client, Proceeds(c)
        PROVE  users' = users /\ mutex' = mutex /\ device'[mutex[1]] = device[mutex[1]]
    BY <2>6, ProceedsIs
  <2>7. ASSUME NEW k \in Connection, device' = device,
               Login(k) \/ (Exit(k) /\ down' = "no") \/ Moves(k) \/ Dies(k)
        PROVE  users' = users /\ mutex' = mutex /\ device'[mutex[1]] = device[mutex[1]]
    BY <1>2, <2>1, <2>3, <2>7, SessionsAssumption DEF Login, Exit, Moves, Dies, Critical
  <2> QED
    BY <2>2, <2>5, <2>6, <2>7, StepIs
<1>4. CASE ~ Abandoned
  <2>1. ASSUME NEW c \in Client, NEW type \in SocketType, NEW next \in ClientState,
               Connects(c, type, next)
        PROVE  FALSE
    <3>1. /\ mutex' = mutex
          /\ <<c, type>> \in Connection
          /\ thread'[<<c, type>>].pc = "mediator"
          /\ \A h \in Connection \ {<<c, type>>} : thread'[h] = thread[h]
      BY <2>1, ConnectsIs DEF Connects
    <3> QED
      BY <1>1, <1>2, <1>4, <3>1 DEF Abandoned, TypeOK
  <2>2. ASSUME NEW c \in Client, Proceeds(c)
        PROVE  FALSE
    <3>1. mutex' = mutex /\ thread' = thread
      BY <2>2, ProceedsIs
    <3> QED
      BY <1>2, <1>4, <3>1 DEF Abandoned
  <2>3. ASSUME NEW k \in Connection, device' = device, Moves(k)
        PROVE  NoRoom(users', UserOf[(mutex')[1]], device'[(mutex')[1]])
    <3>1. PICK p \in Pc, q \in Connection \cup {Nobody} :
            /\ GotoOn(k, p, q)
            /\ \/ mutex' = mutex /\ thread[k].pc \notin Critical /\ p \notin Critical
               \/ mutex = Nobody /\ mutex' = k /\ p \in Critical
               \/ mutex' = Nobody /\ thread[k].pc = "notify" /\ p = "ready"
               \/ mutex' = mutex /\ Refuse(k) /\ p = "ended"
      BY <2>3 DEF Moves
    <3>2. thread'[k].pc = p /\ \A h \in Connection \ {k} : thread'[h] = thread[h]
      BY <1>1, <3>1, GotoIs
    <3>3. p \in Critical => p # "ended"
      BY DEF Critical
    <3>4. mutex' = mutex
      BY <1>2, <3>1, <3>2, <3>3
    <3>5. mutex \in Connection /\ thread[mutex].pc \in Critical \cup {"ended"}
      BY <1>1, <1>2, <3>4 DEF Standing, TypeOK
    <3>6. thread[mutex].pc \in Critical
      BY <1>2, <1>4, <3>4, <3>5 DEF Abandoned
    <3>7. mutex = k
      BY <1>2, <3>2, <3>4, <3>5, <3>6 DEF Critical
    <3>8. Refuse(k)
      BY <1>2, <3>1, <3>4, <3>6, <3>7
    <3>9. thread[k].pc = "login" /\ Decision(k).reply # "ack" /\ users' = users
      BY <3>8, DecisionIs DEF Refuse
    <3>10. /\ k[2] \in SocketType /\ socket(k) \in Descriptor
           /\ device[k[1]] \in DeviceId /\ UserOf[k[1]] \in UserName
      BY <3>9, ThreadIs
    <3>11. users \in Table /\ NamedWhileConnected(users)
      BY <1>1 DEF TypeOK, Invariant, TableOK, WellFormed
    <3>12. NoRoom(users, UserOf[k[1]], device[k[1]])
      BY <3>9, <3>10, <3>11, LoginRefused DEF Decision, NoRoom
    <3> QED
      BY <2>3, <3>4, <3>7, <3>9, <3>12
  <2>4. ASSUME NEW k \in Connection, Login(k) \/ (Exit(k) /\ down' = "no") \/ Dies(k)
        PROVE  FALSE
    <3>1. CASE Login(k)
      BY <1>2, <3>1 DEF Login
    <3>2. CASE Exit(k) /\ down' = "no"
      BY <1>2, <3>2, ExitIs
    <3>3. CASE Dies(k)
      BY <1>2, <1>4, <3>3 DEF Dies, Abandoned
    <3> QED
      BY <2>4, <3>1, <3>2, <3>3
  <2> QED
    BY <2>1, <2>2, <2>3, <2>4, StepIs
<1> QED
  BY <1>3, <1>4

-----------------------------------------------------------------------------
(* The theorems *)

\* Together they are inductive.
Connections ==
  /\ Invariant
  /\ Standing
  /\ OpenConnectionListed
  /\ NullOnlyWhenDisplaced
  /\ AbandonedOnlyWhenFull

\* They hold in every behaviour.
LEMMA ConnectionsAlways == Spec => []Connections
<1>1. Init => Connections
  <2> HAVE Init
  <2>1. OpenConnectionListed /\ NullOnlyWhenDisplaced /\ AbandonedOnlyWhenFull
    BY DEF Init, OpenConnectionListed, NullOnlyWhenDisplaced, AbandonedOnlyWhenFull,
           Abandoned, Serving
  <2> QED
    BY <2>1, InitInvariant, InitStanding DEF Connections
<1>2. Connections /\ [Next]_vars => Connections'
  <2> SUFFICES ASSUME Connections, [Next]_vars PROVE Connections'
    OBVIOUS
  <2> USE DEF Connections
  <2>1. CASE Next
    BY <2>1, InvariantKept, StandingKept, ListedKept, NullKept, AbandonedKept
  <2>2. CASE UNCHANGED vars
    <3>1. Invariant'
      BY InvariantKept
    <3>2. Standing'
      BY <2>2 DEF vars, Standing
    <3>3. OpenConnectionListed'
      BY <2>2 DEF vars, OpenConnectionListed, Shared, socket
    <3>4. NullOnlyWhenDisplaced'
      BY <2>2 DEF vars, NullOnlyWhenDisplaced, Shared, socket
    <3>5. AbandonedOnlyWhenFull'
      BY <2>2 DEF vars, AbandonedOnlyWhenFull, Abandoned
    <3> QED
      BY <3>1, <3>2, <3>3, <3>4, <3>5
  <2> QED
    BY <2>1, <2>2
<1> QED
  BY <1>1, <1>2, PTL DEF Spec

\* The lock (Server.cpp:44-46, 935, 1027, 1158) is held by a thread inside its
\* critical section or by one that has ended; a client draws one device number
\* (Box.cpp:29) and a thread serves a connection the client has opened.
THEOREM StandingHolds == Spec => []Standing
<1>1. Connections => Standing
  BY DEF Connections
<1> QED
  BY <1>1, ConnectionsAlways, PTL

\* A command connection that is open stands in the table under its user, device
\* and type (Server.cpp:834), whatever logins and exits of others come between,
\* unless a second client drew the same device number.
THEOREM OpenConnectionListedHolds == Spec => []OpenConnectionListed
<1>1. Connections => OpenConnectionListed
  BY DEF Connections
<1> QED
  BY <1>1, ConnectionsAlways, PTL

\* user_pointer (Server.cpp:937, 1029) and the device of exitCommand (:1106) are
\* only null for a connection that was closed or shares its device number.
THEOREM NullOnlyWhenDisplacedHolds == Spec => []NullOnlyWhenDisplaced
<1>1. Connections => NullOnlyWhenDisplaced
  BY DEF Connections
<1> QED
  BY <1>1, ConnectionsAlways, PTL

\* The pthread_exit before the sem_post (Server.cpp:819, 831) is the only way to
\* lose the lock, and it is only taken by a login there is no room for, then
\* and ever after.
THEOREM AbandonedOnlyWhenFullHolds == Spec => []AbandonedOnlyWhenFull
<1>1. Connections => AbandonedOnlyWhenFull
  BY DEF Connections
<1> QED
  BY <1>1, ConnectionsAlways, PTL

-----------------------------------------------------------------------------
(* How a connection leaves the table *)

\* The socket of type t in entry d of slot u leaves with its whole device, or
\* another client with the same device takes its place.
Detached(u, d, t) ==
  LET old == users[u].devices[d]
      new == users'[u].devices[d]
  IN \/ new = EmptyDevice /\ \A s \in SocketType :
          old.socket[s] # NoSocket => file'[old.socket[s]] = Nobody
     \/ new.id = old.id /\ Shared(file[old.socket[t]][1])

\* A login replaces a socket only for a client that shares the device.
LEMMA LoginDetaches ==
  ASSUME Invariant, NEW k \in Connection, Login(k),
         NEW v \in UserSlot, NEW e \in DeviceSlot, NEW t \in SocketType,
         Entry(v, e, t) \notin {NoSocket, users'[v].devices[e].socket[t]}
  PROVE  Detached(v, e, t)
<1> DEFINE c == k[1]
<1>1. k = <<c, k[2]>> /\ c \in Client /\ k[2] \in SocketType
  BY ThreadIs DEF Login
<1>2. PICK u \in UserSlot, d \in DeviceSlot : Seats(k, u, d)
  BY LoginSeats
<1>3. v = u /\ e = d /\ t = k[2]
  BY <1>2 DEF Entry, Seats
<1>4. PICK b \in Client : /\ file[Entry(u, d, t)] = <<b, t>>
                          /\ UserOf[b] = users[u].name
                          /\ device[b] = users[u].devices[d].id
  BY <1>3, ListedIs
<1>5. users[u].name # NoName /\ users[u].devices[d].id # NoId
  <2>1. users[u].name # NoName
    BY <1>4, SessionsAssumption, UserTableAssumption
  <2>2. users[u].devices[d].socket # NoSockets
    BY <1>3 DEF Entry, NoSockets
  <2> QED
    BY <2>1, <2>2 DEF Invariant, TableOK, WellFormed, SocketsOfDevices
<1>6. users[u].name = UserOf[c] /\ users[u].devices[d].id = device[c]
  BY <1>2, <1>5 DEF SeatFor, Seats
<1>7. b # c
  <2>1. thread[k].pc \in Undecided
    BY DEF Login, Undecided
  <2>2. thread[file[Entry(u, d, t)]].pc \notin Undecided
    BY <1>3, ListedIs
  <2> QED
    BY <1>1, <1>3, <1>4, <2>1, <2>2
<1>8. users'[u].devices[d].id = users[u].devices[d].id
  BY <1>2, <1>6 DEF Seats
<1>9. UserOf[b] = UserOf[c] /\ device[b] = device[c]
  BY <1>4, <1>6
<1>10. file[users[v].devices[e].socket[t]][1] = b
  <2>1. users[v].devices[e].socket[t] = Entry(u, d, t)
    BY <1>3 DEF Entry
  <2>2. file[users[v].devices[e].socket[t]] = <<b, t>>
    BY <1>4, <2>1
  <2> QED
    BY <2>2
<1> QED
  BY <1>1, <1>3, <1>7, <1>8, <1>9, <1>10 DEF Detached, Shared

\* An exit takes the whole device away and closes its connections.
LEMMA ExitDetaches ==
  ASSUME Invariant, NEW k \in Connection, Exit(k), down' = "no",
         NEW v \in UserSlot, NEW e \in DeviceSlot, NEW t \in SocketType,
         Entry(v, e, t) \notin {NoSocket, users'[v].devices[e].socket[t]}
  PROVE  Detached(v, e, t)
<1>1. PICK u \in UserSlot, d \in DeviceSlot : Clears(u, d)
  BY ExitClears
<1>2. v = u /\ e = d
  BY <1>1 DEF Entry, Clears
<1>3. \A s \in SocketType : Entry(u, d, s) # NoSocket => Entry(u, d, s) \in Descriptor
  BY ListedIs
<1> QED
  BY <1>1, <1>2, <1>3 DEF Detached, Entry, Clears

\* The only steps that take a connection out of the table are an exit of its
\* device (exitCommand, Server.cpp:1110) and a second login of the same type for
\* it (insert_socket, :834).
THEOREM OnlyExitDetachesHolds == Spec => OnlyExitDetaches
<1> DEFINE A == \A u \in UserSlot : \A d \in DeviceSlot : \A t \in SocketType :
                  LET old == users[u].devices[d]
                      new == users'[u].devices[d]
                  IN old.socket[t] \notin {NoSocket, new.socket[t]} =>
                       \/ new = EmptyDevice /\ \A s \in SocketType :
                            old.socket[s] # NoSocket => file'[old.socket[s]] = Nobody
                       \/ new.id = old.id /\ Shared(file[old.socket[t]][1])
<1>1. ASSUME Invariant, Next
      PROVE  A
  <2> SUFFICES ASSUME NEW u \in UserSlot, NEW d \in DeviceSlot, NEW t \in SocketType,
                      Entry(u, d, t) \notin {NoSocket, users'[u].devices[d].socket[t]}
               PROVE  Detached(u, d, t)
    BY DEF Detached, Entry
  <2>1. users' # users
    BY DEF Entry
  <2>2. ASSUME NEW c \in Client, Proceeds(c) \/ \E s \in SocketType, n \in ClientState : Connects(c, s, n)
        PROVE  FALSE
    BY <2>1, <2>2 DEF Proceeds, Connects, serverVars
  <2>3. ASSUME NEW k \in Connection, Moves(k) \/ Dies(k)
        PROVE  FALSE
    BY <2>1, <2>3 DEF Moves, Dies
  <2> QED
    BY <1>1, <2>2, <2>3, StepIs, LoginDetaches, ExitDetaches
<1>2. Invariant /\ [Next]_vars => [A]_vars
  BY <1>1
<1> QED
  BY <1>2, InvariantHolds, PTL DEF Spec, OnlyExitDetaches
=============================================================================
