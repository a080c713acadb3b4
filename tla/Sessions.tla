------------------------------ MODULE Sessions ------------------------------
(***************************************************************************)
(* The primary server's sessions: clients that open their three            *)
(* connections, the server thread of each connection, the user table under *)
(* mutex_user_structure, commands, propagation to the user's other devices *)
(* and exit.                                                               *)
(*                                                                         *)
(* Client side:  Box::open and the console, inotify and server_comm        *)
(*               threads (Box.cpp), as far as a session is concerned.      *)
(* Server side:  mediatorThread, terminalThreadFunction and                *)
(*               iNotifyThreadFunction (Server.cpp), which one thread per  *)
(*               connection runs one after the other.                      *)
(*                                                                         *)
(* File descriptors are modelled as the kernel hands them out: accept      *)
(* takes the lowest free number, exitCommand frees numbers that other      *)
(* threads may still hold, and read and write act on whatever connection   *)
(* the number names at that moment.  A read that is blocked keeps reading  *)
(* the connection it was called on.                                        *)
(*                                                                         *)
(* A command packet is one message, a file transfer one step, and the      *)
(* acks of one transfer are one answer.                                    *)
(***************************************************************************)
EXTENDS UserTable

CONSTANTS
  Client,       \* client processes: a restarted client is another element
  UserOf,       \* the user name each client was started with
  Commands,     \* the commands clients give besides exit
  MaxCommands,  \* bound: commands given in a behaviour
  MaxKills,     \* bound: clients that die without a word
  MaxOpening,   \* bound: clients in the middle of Box::open at a time
  Nobody        \* not a connection: a free mutex, a free descriptor

Connection == Client \X SocketType

ASSUME SessionsAssumption ==
  /\ UserOf \in [Client -> UserName]
  /\ Commands \subseteq {"UPLOAD", "DELETE", "LIST"}
  /\ MaxCommands \in Nat
  /\ MaxKills \in Nat
  /\ MaxOpening \in Nat
  /\ Nobody \notin Connection

VARIABLES
  users,       \* the user table
  mutex,       \* who took mutex_user_structure and has not posted it
  file,        \* the connection each descriptor of the server names
  thread,      \* the server thread of each connection
  client,      \* how far each client process is
  device,      \* the device number each client drew
  request,     \* the packet the server has not read yet, per connection
  reply,       \* the answer the client has not read yet, per connection
  waiting,     \* connections on which a running client awaits an answer
  told,        \* T3 connections with a propagated change not read yet
  down,        \* "no", or why the server process died
  commands,    \* commands given so far
  kills        \* clients killed so far

vars == <<users, mutex, file, thread, client, device, request, reply, waiting,
          told, down, commands, kills>>

\* What the clients' steps and the server's steps leave alone, but for a few.
serverVars == <<users, mutex, file, thread, told, down>>
clientVars == <<client, device, waiting, told, commands, kills>>

Pc == {"none", "mediator", "login_wait", "login", "ready", "reading", "receive",
       "notify_wait", "notify", "exit_wait", "exit", "ended"}

ClientState == {"off", "T1", "T2", "T3", "running", "leaving", "done", "refused", "killed"}

Request == {"none", "CONN", "EXIT", "UPLOAD", "DELETE", "LIST"}
Nack    == {"nack1", "nack2", "nack3", "nack5"}
Reply   == {"none", "ack"} \cup Nack

TypeOK ==
  /\ users \in Table
  /\ mutex \in Connection \cup {Nobody}
  /\ file \in [Descriptor -> Connection \cup {Nobody}]
  /\ thread \in [Connection -> [pc     : Pc,
                                socket : Descriptor \cup {NoSocket},
                                source : Connection \cup {Nobody}]]
  /\ client \in [Client -> ClientState]
  /\ device \in [Client -> DeviceId \cup {NoId}]
  /\ request \in [Connection -> Request]
  /\ reply \in [Connection -> Reply]
  /\ waiting \subseteq Connection
  /\ told \subseteq Connection
  /\ down \in {"no", "nullUser", "nullDevice", "sigpipe", "badSize", "noDevice"}
  /\ commands \in 0 .. MaxCommands
  /\ kills \in 0 .. MaxKills

Init ==
  /\ users = EmptyTable
  /\ mutex = Nobody
  /\ file = [s \in Descriptor |-> Nobody]
  /\ thread = [k \in Connection |-> [pc |-> "none", socket |-> NoSocket, source |-> Nobody]]
  /\ client = [c \in Client |-> "off"]
  /\ device = [c \in Client |-> NoId]
  /\ request = [k \in Connection |-> "none"]
  /\ reply = [k \in Connection |-> "none"]
  /\ waiting = {}
  /\ told = {}
  /\ down = "no"
  /\ commands = 0
  /\ kills = 0

-----------------------------------------------------------------------------
(* Connections *)

\* The client process of connection k exists no more.
Gone(k) == client[k[1]] \in {"done", "refused", "killed"}

\* A descriptor that is open and has a living client at the other end.
Reachable(s) == file[s] # Nobody /\ ~ Gone(file[s])

\* The client of k reads end of file: the server holds no descriptor of the
\* connection and no thread is blocked in a read of it.
ClosedByServer(k) ==
  /\ \A s \in Descriptor : file[s] # k
  /\ \A h \in Connection : ~ (thread[h].pc = "reading" /\ thread[h].source = k)

Free == {s \in Descriptor : file[s] = Nobody}

\* connect, accept and pthread_create: a mediator thread for connection k on
\* the lowest free descriptor, and the connection packet on its way to it.
Accept(k) ==
  /\ Free # {}
  /\ file' = [file EXCEPT ![Min(Free)] = k]
  /\ thread' = [thread EXCEPT ![k] = [pc     |-> "mediator",
                                      socket |-> Min(Free),
                                      source |-> Nobody]]
  /\ request' = [request EXCEPT ![k] = "CONN"]

\* What a write to descriptor s puts before the client, were it read now.
Written(s, r) ==
  IF Reachable(s) /\ reply[file[s]] = "none"
    THEN [reply EXCEPT ![file[s]] = r]
    ELSE reply

-----------------------------------------------------------------------------
(* Client processes *)

\* Box::open draws a device number and opens the first connection.
Open(c) ==
  /\ client[c] = "off"
  /\ Cardinality({b \in Client : client[b] \in {"T1", "T2", "T3"}}) < MaxOpening
  /\ \E d \in DeviceId : device' = [device EXCEPT ![c] = d]
  /\ client' = [client EXCEPT ![c] = "T1"]
  /\ Accept(<<c, "T1">>)
  /\ UNCHANGED <<users, mutex, reply, waiting, told, down, commands, kills>>

\* Only a nack on the first connection makes Box::open give up; on the others
\* it prints a message and goes on.
OpenNext(c, type, next) ==
  /\ client[c] = type
  /\ reply[<<c, type>>] # "none"
  /\ ~ (type = "T1" /\ reply[<<c, type>>] \in Nack)
  /\ client' = [client EXCEPT ![c] = next]
  /\ reply' = [reply EXCEPT ![<<c, type>>] = "none"]
  /\ Accept(<<c, next>>)
  /\ UNCHANGED <<users, mutex, device, waiting, told, down, commands, kills>>

Refused(c) ==
  /\ client[c] = "T1"
  /\ reply[<<c, "T1">>] \in Nack
  /\ client' = [client EXCEPT ![c] = "refused"]
  /\ UNCHANGED <<serverVars, device, request, reply, waiting, commands, kills>>

\* The third answer starts the console, inotify and server_comm threads.
StartThreads(c) ==
  /\ client[c] = "T3"
  /\ reply[<<c, "T3">>] # "none"
  /\ client' = [client EXCEPT ![c] = "running"]
  /\ reply' = [reply EXCEPT ![<<c, "T3">>] = "none"]
  /\ UNCHANGED <<serverVars, device, request, waiting, commands, kills>>

\* A packet for a connection that the server has closed is lost.
Send(k, r) ==
  /\ k \notin waiting
  /\ request[k] = "none"
  /\ request' = IF ClosedByServer(k) THEN request ELSE [request EXCEPT ![k] = r]
  /\ waiting' = waiting \cup {k}

\* The client thread of k may give a command: the console until exit is typed,
\* the inotify thread for the events it has already read even after that.
Typing(k) ==
  \/ client[k[1]] = "running" /\ k[2] \in {"T1", "T2"}
  \/ client[k[1]] = "leaving" /\ k[2] = "T2"

\* A console command, or the upload or delete of an inotify event.
Command(k, r) ==
  /\ Typing(k)
  /\ r = "LIST" => k[2] = "T1"
  /\ commands < MaxCommands
  /\ Send(k, r)
  /\ commands' = commands + 1
  /\ UNCHANGED <<serverVars, client, device, reply, kills>>


SendExit(c) ==
  /\ client[c] = "running"
  /\ Send(<<c, "T1">>, "EXIT")
  /\ client' = [client EXCEPT ![c] = "leaving"]
  /\ UNCHANGED <<serverVars, device, reply, commands, kills>>

\* waitForSocketAck ends with an answer, or with end of file, which it ignores.
Answered(k) ==
  /\ k \in waiting
  /\ ~ Gone(k)
  /\ reply[k] # "none" \/ ClosedByServer(k)
  /\ waiting' = waiting \ {k}
  /\ reply' = [reply EXCEPT ![k] = "none"]
  /\ UNCHANGED <<serverVars, client, device, request, commands, kills>>

\* What a client process has not read disappears with it.
Drained(c) == [k \in Connection |-> IF k[1] = c THEN "none" ELSE reply[k]]

\* server_comm reads a propagated change, carries it out and, finding that
\* exit_command_typed is not set yet, blocks in its read again.
ServerComm(c) ==
  /\ client[c] \in {"running", "leaving"}
  /\ <<c, "T3">> \in told
  /\ told' = told \ {<<c, "T3">>}
  /\ UNCHANGED <<users, mutex, file, thread, down, client, device, request, reply,
                 waiting, commands, kills>>

\* main returns from open() when the three threads have ended.  server_comm
\* only looks at exit_command_typed when its blocking read returns: because the
\* server has closed the connection, or with one more propagated change.
Finish(c) ==
  /\ client[c] = "leaving"
  /\ <<c, "T1">> \notin waiting
  /\ <<c, "T2">> \notin waiting
  /\ ClosedByServer(<<c, "T3">>) \/ <<c, "T3">> \in told
  /\ client' = [client EXCEPT ![c] = "done"]
  /\ reply' = Drained(c)
  /\ UNCHANGED <<serverVars, device, request, waiting, commands, kills>>

\* ... or, the packet being thirty writes, SIGPIPE ends the client.
SendFails(k) ==
  /\ Typing(k)
  /\ k \notin waiting
  /\ ClosedByServer(k)
  /\ client' = [client EXCEPT ![k[1]] = "killed"]
  /\ waiting' = {h \in waiting : h[1] # k[1]}
  /\ reply' = Drained(k[1])
  /\ UNCHANGED <<serverVars, device, request, commands, kills>>

\* The process dies.  A reset may take unread packets with it.
Kill(c) ==
  /\ client[c] \notin {"off", "done", "refused", "killed"}
  /\ kills < MaxKills
  /\ kills' = kills + 1
  /\ client' = [client EXCEPT ![c] = "killed"]
  /\ \/ request' = request
     \/ request' = [k \in Connection |-> IF k[1] = c THEN "none" ELSE request[k]]
  /\ waiting' = {k \in waiting : k[1] # c}
  /\ reply' = Drained(c)
  /\ UNCHANGED <<serverVars, device, commands>>

-----------------------------------------------------------------------------
(* Server threads *)

\* Thread k goes on at pc, blocked in a read of connection source if that is one.
GotoOn(k, pc, source) ==
  thread' = [thread EXCEPT ![k] = [pc     |-> pc,
                                   socket |-> thread[k].socket,
                                   source |-> source]]

Goto(k, pc) == GotoOn(k, pc, Nobody)

\* The server process dies.
Crash(cause) == down' = cause /\ UNCHANGED <<users, mutex, file, thread>>

\* The descriptor that thread k was given in accept().
socket(k) == thread[k].socket

\* mediatorThread reads the connection packet.
ReadConnection(k) ==
  /\ thread[k].pc = "mediator"
  /\ request[k] = "CONN"
  /\ request' = [request EXCEPT ![k] = "none"]
  /\ Goto(k, "login_wait")
  /\ UNCHANGED <<users, mutex, file, reply, down, clientVars>>

\* ... and ends the thread, not the descriptor, when there is none.
ReadConnectionFails(k) ==
  /\ thread[k].pc = "mediator"
  /\ request[k] = "none"
  /\ Gone(k)
  /\ Goto(k, "ended")
  /\ UNCHANGED <<users, mutex, file, request, reply, down, clientVars>>

\* Another client's thread has eaten the packet but for its last bytes, the
\* client went on, and its next command is read as the rest.  Its zeroes make an
\* empty user name, for which get_device runs off its end: undefined behaviour.
ReadRemainder(k) ==
  /\ thread[k].pc = "mediator"
  /\ request[k] \notin {"none", "CONN"}
  /\ Crash("noDevice")
  /\ UNCHANGED <<request, reply, clientVars>>

\* Mutation: a semaphore that starts with more than one place.
SemWait_Passes(k, from, to) ==
  /\ thread[k].pc = from
  /\ mutex' = k
  /\ Goto(k, to)
  /\ UNCHANGED <<users, file, request, reply, down, clientVars>>

\* sem_wait(&mutex_user_structure), in each of the three places.
SemWait(k, from, to) ==
  /\ thread[k].pc = from
  /\ mutex = Nobody
  /\ mutex' = k
  /\ Goto(k, to)
  /\ UNCHANGED <<users, file, request, reply, down, clientVars>>

Decision(k) ==
  handle_user_controller_structure(users, UserOf[k[1]], device[k[1]], k[2], socket(k))

\* Mutation: no sem_post.
Login_Keeps(k) ==
  /\ thread[k].pc = "login"
  /\ Decision(k).reply = "ack"
  /\ users' = Decision(k).users
  /\ reply' = Written(socket(k), "ack")
  /\ Goto(k, IF k[2] = "T3" THEN "ended" ELSE "ready")
  /\ UNCHANGED <<mutex, file, request, down, clientVars>>

\* The connection is accepted; after sem_post the thread becomes the terminal
\* or the inotify thread of the connection, or ends for T3.
Login(k) ==
  /\ thread[k].pc = "login"
  /\ Decision(k).reply = "ack"
  /\ users' = Decision(k).users
  /\ reply' = Written(socket(k), "ack")
  /\ mutex' = Nobody
  /\ Goto(k, IF k[2] = "T3" THEN "ended" ELSE "ready")
  /\ UNCHANGED <<file, request, down, clientVars>>

\* The connection is refused: pthread_exit, before the sem_post.
Refuse(k) ==
  /\ thread[k].pc = "login"
  /\ Decision(k).reply # "ack"
  /\ users' = Decision(k).users
  /\ reply' = Written(socket(k), Decision(k).reply)
  /\ Goto(k, "ended")
  /\ UNCHANGED <<mutex, file, request, down, clientVars>>

\* The command loop calls read() on its descriptor: it blocks on the
\* connection that has the number now, or fails and ends the thread.
Read(k) ==
  /\ thread[k].pc = "ready"
  /\ IF file[socket(k)] = Nobody
       THEN Goto(k, "ended")
       ELSE GotoOn(k, "reading", file[socket(k)])
  /\ UNCHANGED <<users, mutex, file, request, reply, down, clientVars>>

\* What the switch does with a packet read from the given connection.  The
\* second word of a connection packet is its socket type: T2 is UPLOAD, T3
\* DOWNLOAD, T1 no command.
Dispatch(source) ==
  CASE request[source] = "EXIT"   -> "exit_wait"
    [] request[source] = "DELETE" -> "notify_wait"
    [] request[source] = "UPLOAD" -> "receive"
    [] request[source] = "CONN" /\ source[2] = "T2" -> "receive"
    [] OTHER -> "ready"

\* A packet arrives; the ack goes to the connection that has the number now.
\* For an upload this stands for the first ack of the exchange.
ReadCommand(k) ==
  LET source == thread[k].source IN
  /\ thread[k].pc = "reading"
  /\ request[source] # "none"
  /\ request' = [request EXCEPT ![source] = "none"]
  /\ reply' = IF request[source] = "UPLOAD" THEN reply ELSE Written(socket(k), "ack")
  /\ Goto(k, Dispatch(source))
  /\ UNCHANGED <<users, mutex, file, down, clientVars>>

\* End of file: pthread_exit.  The table and the descriptor stay as they are.
ReadFails(k) ==
  LET source == thread[k].source IN
  /\ thread[k].pc = "reading"
  /\ request[source] = "none"
  /\ Gone(source)
  /\ Goto(k, "ended")
  /\ UNCHANGED <<users, mutex, file, request, reply, down, clientVars>>

\* uploadFileCommand up to its sem_wait, with the sender at the other end.
ReceiveFile(k) ==
  /\ thread[k].pc = "receive"
  /\ file[socket(k)] = k
  /\ Reachable(socket(k))
  /\ reply' = Written(socket(k), "ack")
  /\ Goto(k, "notify_wait")
  /\ UNCHANGED <<users, mutex, file, request, down, clientVars>>

\* The descriptor is closed, or its client is gone.  The failed reads leave
\* the size undefined: the thread ends in the payload's read, goes on with an
\* empty payload, or overflows its stack; acks to a dead peer raise SIGPIPE.
TransferFails(k) ==
  /\ thread[k].pc = "receive"
  /\ ~ Reachable(socket(k))
  /\ \/ Goto(k, "ended") /\ UNCHANGED <<users, mutex, file, down>>
     \/ Goto(k, "notify_wait") /\ UNCHANGED <<users, mutex, file, down>>
     \/ Crash("badSize")
     \/ file[socket(k)] # Nobody /\ Crash("sigpipe")
  /\ UNCHANGED <<request, reply, clientVars>>

\* The number names another client's connection: its next packet is read as
\* the file, and answered.
TransferOfAnother(k) ==
  /\ thread[k].pc = "receive"
  /\ file[socket(k)] # k
  /\ Reachable(socket(k))
  /\ request[file[socket(k)]] # "none"
  /\ request' = [request EXCEPT ![file[socket(k)]] = "none"]
  /\ reply' = Written(socket(k), "ack")
  /\ Goto(k, "notify_wait")
  /\ UNCHANGED <<users, mutex, file, down, clientVars>>

\* The devices that a change received by thread k is sent to.
Targets(k) ==
  LET u == get_user(users, UserOf[k[1]]) IN
  {d \in DeviceSlot : LET dev == users[u].devices[d] IN
     /\ dev.id # NoId
     /\ socket(k) # dev.socket["T2"]
     /\ device[k[1]] # dev.id}

\* The connections behind their socket3; writing to -1 fails silently.
Receivers(k) ==
  LET u == get_user(users, UserOf[k[1]])
      sockets == {users[u].devices[d].socket["T3"] : d \in Targets(k)}
  IN {file[s] : s \in sockets \ {NoSocket}} \ {Nobody}

\* The loop over user_pointer->devices in uploadFileCommand and
\* deleteFileCommand: user_pointer may be nullptr, a peer may be dead.
Notify(k) ==
  /\ thread[k].pc = "notify"
  /\ IF get_user(users, UserOf[k[1]]) = 0
       THEN Crash("nullUser") /\ told' = told
       ELSE \/ /\ mutex' = Nobody
               /\ Goto(k, "ready")
               /\ told' = told \cup {r \in Receivers(k) : ~ Gone(r)}
               /\ UNCHANGED <<users, file, down>>
            \/ /\ \E r \in Receivers(k) : Gone(r)
               /\ Crash("sigpipe")
               /\ told' = told
  /\ UNCHANGED <<request, reply, client, device, waiting, commands, kills>>

\* Mutations: one of the three connections stays open.
Closes_ButT2(dev) == {dev.socket[t] : t \in {"T1", "T3"}}
Closes_ButT3(dev) == {dev.socket[t] : t \in {"T1", "T2"}}

\* The descriptors exitCommand closes; close(-1) does nothing.
Closes(dev) == {dev.socket[t] : t \in SocketType}

\* exitCommand: the sockets of the device are closed, whoever owns them, and
\* the device and, after the last one, the user leave the table.
Exit(k) ==
  LET name == UserOf[k[1]]
      id   == device[k[1]]
      u    == get_user(users, name)
      d    == get_device(users, id, name)
  IN /\ thread[k].pc = "exit"
     /\ IF d = 0
          THEN Crash("nullDevice")
          ELSE /\ file' = [s \in Descriptor |->
                             IF s \in Closes(users[u].devices[d]) THEN Nobody ELSE file[s]]
               /\ users' = Logout(users, name, id)
               /\ mutex' = Nobody
               /\ Goto(k, "ended")
               /\ down' = down
     /\ UNCHANGED <<request, reply, clientVars>>

-----------------------------------------------------------------------------
ClientStep(c) ==
  \/ Open(c)
  \/ OpenNext(c, "T1", "T2")
  \/ OpenNext(c, "T2", "T3")
  \/ StartThreads(c)
  \/ Refused(c)
  \/ \E t \in {"T1", "T2"} : Answered(<<c, t>>)
  \/ ServerComm(c)
  \/ Finish(c)

ClientChoice(c) ==
  \/ \E t \in {"T1", "T2"}, r \in Commands : Command(<<c, t>>, r)
  \/ SendExit(c)
  \/ \E t \in {"T1", "T2"} : SendFails(<<c, t>>)
  \/ Kill(c)

\* Steps inside a critical section: one of them can always be taken there.
LockedStep(k) ==
  \/ Login(k)
  \/ Refuse(k)
  \/ Notify(k)
  \/ Exit(k)

FreeStep(k) ==
  \/ ReadConnection(k)
  \/ ReadConnectionFails(k)
  \/ ReadRemainder(k)
  \/ SemWait(k, "login_wait", "login")
  \/ Read(k)
  \/ ReadCommand(k)
  \/ ReadFails(k)
  \/ ReceiveFile(k)
  \/ TransferFails(k)
  \/ TransferOfAnother(k)
  \/ SemWait(k, "notify_wait", "notify")
  \/ SemWait(k, "exit_wait", "exit")

ThreadStep(k) == FreeStep(k) \/ LockedStep(k)

Next ==
  /\ down = "no"
  /\ \/ \E c \in Client : ClientStep(c) \/ ClientChoice(c)
     \/ \E k \in Connection : ThreadStep(k)

Critical == {"login", "notify", "exit"}

Work == (\E c \in Client : ClientStep(c)) \/ (\E k \in Connection : ThreadStep(k))

\* Work can be done.  ENABLED Work, without asking it of the locked steps, for
\* which TLC would compute every login.
Able ==
  /\ down = "no"
  /\ \/ \E k \in Connection : thread[k].pc \in Critical
     \/ ENABLED ((\E c \in Client : ClientStep(c)) \/ (\E k \in Connection : FreeStep(k)))

\* WF_vars(down = "no" /\ Work): the system does not stop while a thread of the
\* server or of a client has something to do.  It is less than the scheduling of
\* every single thread, and enough, as every thread runs out of work.  Nothing
\* forces a user to type, or a process to die.
Fairness == <>[]Able => []<><<down = "no" /\ Work>>_vars

Spec == Init /\ [][Next]_vars

FairSpec == Spec /\ Fairness

-----------------------------------------------------------------------------
(* Properties *)

\* Whoever reads or changes the table holds mutex_user_structure: the three
\* places that take it never overlap (Server.cpp:44, 935/1027, 1158/1197).
Exclusion ==
  \A k \in Connection : thread[k].pc \in Critical => mutex = k

\* After any interleaving of logins and exits, with devices shared or not,
\* names and ids are unique, a free entry holds no socket and a user is in
\* the table exactly while one of its devices is.
TableOK == WellFormed(users)

\* Every socket in the table is open and leads to a client that announced this
\* user, this device and this type, even after the numbers were used again:
\* exitCommand closes, and propagation writes to, nobody else's connection.
SocketsOwned ==
  \A u \in UserSlot : \A d \in DeviceSlot : \A t \in SocketType :
     LET dev == users[u].devices[d] IN
     dev.socket[t] # NoSocket =>
        \E c \in Client : /\ file[dev.socket[t]] = <<c, t>>
                         /\ UserOf[c] = users[u].name
                         /\ device[c] = dev.id

\* What SocketsOwned rests on: with it, an inductive invariant.

\* Threads that have not decided on their connection yet.
Undecided == {"mediator", "login_wait", "login"}

\* The connections a client in a state has opened at most.
Opened(state) ==
  CASE state = "off" -> {}
    [] state = "T1"  -> {"T1"}
    [] state = "T2"  -> {"T1", "T2"}
    [] OTHER         -> SocketType

\* Descriptors only name connections that were opened, by clients with a device;
\* a thread has a descriptor, its own connection's until it has decided on it,
\* and no connection is in the table before that.
Bookkeeping ==
  /\ \A c \in Client : client[c] # "off" => device[c] \in DeviceId
  /\ \A s \in Descriptor : file[s] # Nobody => file[s][2] \in Opened(client[file[s][1]])
  /\ \A k \in Connection : thread[k].pc # "none" =>
        thread[k].socket \in Descriptor /\ client[k[1]] # "off"
  /\ \A k \in Connection : thread[k].pc \in Undecided => file[thread[k].socket] = k
  /\ \A u \in UserSlot : \A d \in DeviceSlot : \A t \in SocketType :
        LET s == users[u].devices[d].socket[t] IN
        s # NoSocket => thread[file[s]].pc \notin Undecided

Invariant == TypeOK /\ Exclusion /\ TableOK /\ Bookkeeping /\ SocketsOwned

\* What the rest rests on, with Invariant: the lock is held inside a critical
\* section or by a thread that ended there, a device number is drawn once, a
\* thread belongs to a connection its client has opened.
Standing ==
  /\ mutex # Nobody => thread[mutex].pc \in Critical \cup {"ended"}
  /\ \A c \in Client : client[c] = "off" => device[c] = NoId
  /\ \A k \in Connection : thread[k].pc # "none" => k[2] \in Opened(client[k[1]])

\* Another client has announced the same user and the same device number.
Shared(c) ==
  \E b \in Client \ {c} : UserOf[b] = UserOf[c] /\ device[b] = device[c]

Serving == {"ready", "reading", "receive", "notify_wait", "notify", "exit_wait", "exit"}

\* A command connection that is still open is in the table under its user and
\* device, unless a second client drew the same number: so exitCommand finds
\* the device, and no descriptor is left that nobody will ever close.
OpenConnectionListed ==
  \A k \in Connection :
     /\ thread[k].pc \in Serving
     /\ file[socket(k)] = k
     /\ ~ Shared(k[1])
     => \E u \in UserSlot : \E d \in DeviceSlot :
           /\ users[u].name = UserOf[k[1]]
           /\ users[u].devices[d].id = device[k[1]]
           /\ users[u].devices[d].socket[k[2]] = socket(k)

\* The server only follows a null user or device (Server.cpp:937, 1029, 1106)
\* on behalf of a thread whose connection an exit has closed, or whose device
\* number is used by a second client.
NullOnlyWhenDisplaced ==
  down \in {"nullUser", "nullDevice"} =>
     file[socket(mutex)] # mutex \/ Shared(mutex[1])

\* The lock is held by a thread that has ended: nobody will ever post it.
Abandoned == mutex # Nobody /\ thread[mutex].pc = "ended"

\* The lock is only abandoned by a login there was no room for, and from then
\* on there is none: no slot for a new user, or no entry for a new device.
AbandonedOnlyWhenFull ==
  Abandoned =>
     LET name == UserOf[mutex[1]] IN
     IF get_user(users, name) = 0
       THEN number_of_users_logged(users) = MaxUsers
       ELSE /\ number_of_devices(users, name) = MaxDevices
            /\ get_device(users, device[mutex[1]], name) = 0

\* After a refusal the table never changes again: no login is accepted, no
\* exit is carried out, whatever the clients do.
FrozenAfterRefusal == [][Abandoned => users' = users /\ mutex' = mutex]_vars

\* A connection in the table leaves it only together with its whole device, or
\* because a login of the same type on the same device replaces it.
OnlyExitDetaches ==
  [][\A u \in UserSlot : \A d \in DeviceSlot : \A t \in SocketType :
        LET old == users[u].devices[d]
            new == users'[u].devices[d]
        IN old.socket[t] \notin {NoSocket, new.socket[t]} =>
             \/ new = EmptyDevice /\ \A s \in SocketType :
                  old.socket[s] # NoSocket => file'[old.socket[s]] = Nobody
             \/ new.id = old.id /\ Shared(file[old.socket[t]][1])]_vars

\* A descriptor of one of c's connections was given to another client's thread
\* earlier, which may read, and answer, the packets of c.
Inherited(c) ==
  \E k \in Connection : \E t \in SocketType :
     k[1] # c /\ thread[k].pc # "none" /\ file[socket(k)] = <<c, t>>


\* A thread of another client, its connection closed under it, is about to read,
\* or blocked in a read of, a connection of c, which was given the number.
Overheard(c) ==
  \E k \in Connection :
     /\ k[1] # c
     /\ thread[k].pc \in {"ready", "reading", "receive"}
     /\ \E t \in SocketType : <<c, t>> \in {file[socket(k)], thread[k].source}

\* What excuses a client that never gets its answer: the server died, another
\* client drew its device number, another client's thread ate its packets.
Excused(c) == down # "no" \/ Shared(c) \/ Overheard(c)

\* With room for everybody and nobody killed, a client that begins to connect
\* is connected, unless it is excused.
LoginCompletes ==
  \A c \in Client :
     (client[c] = "T1" ~> client[c] = "running") \/ <>Excused(c)

\* ... and one whose user types exit terminates: the server closes the
\* connection its server_comm thread is blocked on.
ExitCompletes ==
  \A c \in Client :
     (client[c] = "leaving" ~> client[c] \in {"done", "killed"}) \/ <>Excused(c)

\* The directory that the user table and the descriptors stand for.
Online ==
  {[user   |-> users[x[1]].name,
    device |-> users[x[1]].devices[x[2]].id,
    role   |-> x[3],
    client |-> file[users[x[1]].devices[x[2]].socket[x[3]]][1]] :
     x \in {y \in UserSlot \X DeviceSlot \X SocketType :
             users[y[1]].devices[y[2]].socket[y[3]] # NoSocket}}

Directory == INSTANCE SessionDirectory WITH online <- Online, Role <- SocketType

\* The server implements the directory: whatever the threads, the lock, lost
\* clients and reused descriptors do, each step attaches one connection where
\* there is room, takes one device away, or leaves the sessions as they are.
ImplementsDirectory == Directory!Spec

\* What the documentation says and the code does not do.

\* Server.cpp:46, "liberar secao critica": the section is left by its thread.
CriticalSectionReleased == ~ Abandoned

\* Client.cpp:49, nack4 is "this device is already connected": a device that
\* is connected is refused.
ConnectedDeviceRefused ==
  \A b, c \in Client :
     /\ client[b] = "running" /\ client[c] = "running"
     /\ UserOf[b] = UserOf[c] /\ device[b] = device[c]
     => b = c
=============================================================================
