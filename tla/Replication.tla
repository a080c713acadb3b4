---------------------------- MODULE Replication ----------------------------
(***************************************************************************)
(* Replication from the primary to the backup servers (Server.cpp): the    *)
(* frames INSERT_USER, EXIT, UPLOAD and DELETE that session threads write  *)
(* to every registered secondary, the registration of a secondary, and the *)
(* secondary's loop over the frames, second_server_processing, up to the   *)
(* election it holds when it believes the primary dead.                    *)
(*                                                                         *)
(* INSERT_USER and EXIT are sent under mutex_user_structure, UPLOAD and    *)
(* DELETE under mutex_server_structure, all to the same socket.  A frame   *)
(* is tens of four-byte writes; two halves are enough for frames to mix.   *)
(*                                                                         *)
(* The sessions themselves are module Sessions.  Here a session thread     *)
(* carries out operations of a workload, each legal when it begins, and    *)
(* the propagation to the clients is the one step Notify.  A stream has no *)
(* capacity, and a four-byte write is not split on its way.                *)
(***************************************************************************)
EXTENDS UserTable, Sequences

CONSTANTS
  Worker,      \* session threads of the primary
  Server,      \* backup servers: a restarted one is another element
  File,        \* paths of files below ./database
  MaxServers,  \* MAX_SERVERS
  Workload,    \* the operations sessions ask for
  MaxOps,      \* bound: operations begun in a behaviour
  MaxKills,    \* bound: servers, primary or secondary, that are killed
  OldUser,     \* bound: users with a directory from an earlier run, at some secondaries
  Nobody,      \* a free semaphore
  NoServer,    \* -1: no id, no socket
  NoFile       \* an operation without a file

\* An operation, or the frame that repeats it.  name is the user, and for a
\* file the directory it is in.
Op == [kind : {"LOGIN", "EXIT", "UPLOAD", "DELETE"},
       name : UserName,
       id   : DeviceId,
       type : SocketType,
       file : File \cup {NoFile}]

ASSUME ReplicationAssumption ==
  /\ Workload \subseteq Op
  /\ \A o \in Workload : o.kind \in {"UPLOAD", "DELETE"} <=> o.file # NoFile
  /\ \A o, p \in Workload : o.file = p.file /\ o.file # NoFile => o.name = p.name
  /\ MaxServers \in Nat \ {0}
  /\ MaxOps \in Nat
  /\ MaxKills \in Nat
  /\ OldUser \subseteq UserName
  /\ IsFiniteSet(Worker)
  /\ NoServer \notin Server
  /\ NoFile \notin File
  /\ Nobody \notin Worker \cup Server
  /\ Worker \cap Server = {}

VARIABLES
  users,         \* the user table of the primary
  dirs,          \* users a login of this run has made, or found, a directory for
  files,         \* contents of the primary's files
  mutex_user,    \* who took mutex_user_structure and has not posted it
  mutex_server,  \* who took mutex_server_structure and has not posted it
  backupServers, \* the array backupServers
  worker,        \* the session threads
  entering,      \* the mediator threads that register secondaries
  stream,        \* what each secondary has not read yet
  secondary,     \* the secondaries' processes
  down,          \* "no", or why the primary died
  ops,           \* operations begun so far
  kills,         \* servers killed so far
  past,          \* history: the users and devices after each change of the table
  unsure         \* history: files that no operation of this run has touched, or whose
                 \* last operations overlapped

vars == <<users, dirs, files, mutex_user, mutex_server, backupServers, worker, entering,
          stream, secondary, down, ops, kills, past, unsure>>

tableVars  == <<users, past>>
fileVars   == <<dirs, files, unsure>>
lockVars   == <<mutex_user, mutex_server>>
remoteVars == <<backupServers, entering, stream, secondary>>
countVars  == <<ops, kills>>

Slot == 1 .. MaxServers

\* A frame travels in two halves; n numbers the change of the table, or the upload.
NoOp   == [kind |-> "none"]
Unit   == [op : Op, n : 0 .. MaxOps, half : {1, 2}]
Ack    == [op |-> NoOp, n |-> 0, half |-> 1]
Stream == Seq(Unit \cup {Ack})

Idle == [pc |-> "idle", op |-> NoOp, n |-> 0, slot |-> 0, half |-> 0, to |-> NoServer]

\* A content is the number of an upload, 0 for a file that was deleted, what the
\* primary or a secondary held before this run, which may be nothing, or an empty
\* file where a frame was cut.
Ours    == MaxOps + 1
Theirs  == MaxOps + 2
Cut     == MaxOps + 3
Content == 0 .. MaxOps + 3

\* A backup server before it connects.  Its ./database, like the primary's, is as
\* earlier runs have left it; the table is empty.  first and last are the changes of
\* the table it has carried out, 0 for none.
Off == [state : {"off"}, users : {EmptyTable}, dirs : SUBSET OldUser,
        files : {[f \in File |-> Theirs]}, first : {0}, last : {0}]

\* The users and devices of a table.
View(us) ==
  {<<us[x[1]].name, us[x[1]].devices[x[2]].id>> :
     x \in {y \in UserSlot \X DeviceSlot : us[y[1]].devices[y[2]].id # NoId}}

WorkerState ==
  [pc   : {"idle", "user_wait", "write", "notify_wait", "server_wait", "slots", "send", "ended"},
   op   : Op \cup {NoOp},
   n    : 0 .. MaxOps,
   slot : 0 .. MaxServers + 1,
   half : 0 .. 2,
   to   : Server \cup {NoServer}]

EnteringState ==
  [pc   : {"none", "server_wait", "insert", "socket", "ack", "done"},
   slot : 0 .. MaxServers]

SecondaryState ==
  [state : {"off", "joining", "serving", "astray", "misled", "corrupt", "election", "primary",
            "loser", "crashed", "nullDevice", "killed"},
   users : Table,
   dirs  : SUBSET UserName,
   files : [File -> Content],
   first : 0 .. MaxOps,
   last  : 0 .. MaxOps]

TypeOK ==
  /\ users \in Table
  /\ dirs \subseteq UserName
  /\ files \in [File -> Content]
  /\ mutex_user \in Worker \cup {Nobody}
  /\ mutex_server \in Worker \cup Server \cup {Nobody}
  /\ backupServers \in [Slot -> [id : Server \cup {NoServer}, socket : Server \cup {NoServer}]]
  /\ worker \in [Worker -> WorkerState]
  /\ entering \in [Server -> EnteringState]
  /\ stream \in [Server -> Stream]
  /\ secondary \in [Server -> SecondaryState]
  /\ down \in {"no", "killed", "sigpipe", "nullUser", "nullDevice"}
  /\ ops \in 0 .. MaxOps
  /\ kills \in 0 .. MaxKills
  /\ past \in Seq(SUBSET (UserName \X DeviceId))
  /\ unsure \subseteq File

Init ==
  /\ users = EmptyTable
  /\ dirs = {}
  /\ files = [f \in File |-> Ours]
  /\ mutex_user = Nobody
  /\ mutex_server = Nobody
  /\ backupServers = [s \in Slot |-> [id |-> NoServer, socket |-> NoServer]]
  /\ worker = [w \in Worker |-> Idle]
  /\ entering = [n \in Server |-> [pc |-> "none", slot |-> 0]]
  /\ stream = [n \in Server |-> <<>>]
  /\ secondary \in [Server -> Off]
  /\ down = "no"
  /\ ops = 0
  /\ kills = 0
  /\ past = <<{}>>
  /\ unsure = File

-----------------------------------------------------------------------------
(* Session threads of the primary *)

Goto(w, pc) == worker' = [worker EXCEPT ![w].pc = pc]

\* The thread goes to the loop over backupServers, with the number of its frame.
GotoSlots(w, n) == worker' = [worker EXCEPT ![w].pc = "slots", ![w].n = n, ![w].slot = 1]

Busy(w) == worker[w].pc \notin {"idle", "ended"}

\* A connection packet arrives, or a command on a session whose thread exists:
\* the thread is created when the login has returned, and the directory with it.
Begin(w, op) ==
  /\ worker[w].pc = "idle"
  /\ ops < MaxOps
  /\ op.kind = "EXIT" => get_device(users, op.id, op.name) # 0
  /\ op.kind # "LOGIN" => op.name \in dirs /\ get_user(users, op.name) # 0
  /\ ops' = ops + 1
  /\ worker' = [worker EXCEPT
       ![w] = [Idle EXCEPT !.pc = IF op.file = NoFile THEN "user_wait" ELSE "write",
                           !.op = op,
                           !.n  = IF op.kind = "UPLOAD" THEN ops + 1 ELSE 0]]
  /\ unsure' = IF \E v \in Worker : Busy(v) /\ worker[v].op.kind # "none"
                                           /\ worker[v].op.file = op.file
                THEN unsure \cup ({op.file} \ {NoFile})
                ELSE unsure \ {op.file}
  /\ UNCHANGED <<tableVars, dirs, files, lockVars, remoteVars, down, kills>>

\* Mutation: the sem_wait is missing.
UserLockFree_Always == TRUE

\* sem_wait(&mutex_user_structure) can return.
UserLockFree == mutex_user = Nobody

Changed(us) ==
  /\ users' = us
  /\ past' = Append(past, View(us))

\* handle_user_controller_structure up to its loop over backupServers.
Login(w) ==
  LET op == worker[w].op IN
  /\ worker[w].pc = "user_wait"
  /\ op.kind = "LOGIN"
  /\ UserLockFree
  /\ mutex_user' = w
  /\ \E s \in Descriptor :
       LET decision == handle_user_controller_structure(users, op.name, op.id, op.type, s) IN
       /\ decision.reply = "ack"
       /\ Changed(decision.users)
  /\ GotoSlots(w, Len(past))
  /\ UNCHANGED <<fileVars, mutex_server, remoteVars, down, countVars>>

\* ... or the thread ends there, with the semaphore.
Refuse(w) ==
  LET op == worker[w].op IN
  /\ worker[w].pc = "user_wait"
  /\ op.kind = "LOGIN"
  /\ UserLockFree
  /\ mutex_user' = w
  /\ \E s \in Descriptor :
       handle_user_controller_structure(users, op.name, op.id, op.type, s).reply # "ack"
  /\ worker' = [worker EXCEPT ![w] = [Idle EXCEPT !.pc = "ended"]]
  /\ UNCHANGED <<tableVars, fileVars, mutex_server, remoteVars, down, countVars>>

\* The primary dies: nothing of it matters any more.
Crash(cause) ==
  /\ down' = cause
  /\ UNCHANGED <<tableVars, fileVars, lockVars, remoteVars, worker, countVars>>

\* exitCommand up to its loop over backupServers.
Exit(w) ==
  LET op == worker[w].op IN
  /\ worker[w].pc = "user_wait"
  /\ op.kind = "EXIT"
  /\ UserLockFree
  /\ IF get_device(users, op.id, op.name) = 0
       THEN Crash("nullDevice")
       ELSE /\ mutex_user' = w
            /\ Changed(Logout(users, op.name, op.id))
            /\ GotoSlots(w, Len(past))
            /\ UNCHANGED <<fileVars, mutex_server, remoteVars, down, countVars>>

\* uploadFileCommand and deleteFileCommand change the file outside every lock.
WriteFile(w) ==
  LET op == worker[w].op IN
  /\ worker[w].pc = "write"
  /\ files' = [files EXCEPT ![op.file] = worker[w].n]
  /\ Goto(w, "notify_wait")
  /\ UNCHANGED <<tableVars, dirs, unsure, lockVars, remoteVars, down, countVars>>

\* The propagation to the user's other devices, under mutex_user_structure.
Notify(w) ==
  /\ worker[w].pc = "notify_wait"
  /\ UserLockFree
  /\ IF get_user(users, worker[w].op.name) = 0
       THEN Crash("nullUser")
       ELSE /\ Goto(w, "server_wait")
            /\ UNCHANGED <<tableVars, fileVars, lockVars, remoteVars, down, countVars>>

\* Mutation: the sem_wait is missing.
ServerLockFree_Always == TRUE

\* sem_wait(&mutex_server_structure) can return.
ServerLockFree == mutex_server = Nobody

LockServers(w) ==
  /\ worker[w].pc = "server_wait"
  /\ ServerLockFree
  /\ mutex_server' = w
  /\ GotoSlots(w, worker[w].n)
  /\ UNCHANGED <<tableVars, fileVars, mutex_user, remoteVars, down, countVars>>

\* One round of the loop over backupServers: the id decides, the socket is kept.
VisitSlot(w) ==
  LET s == worker[w].slot IN
  /\ worker[w].pc = "slots"
  /\ s \in Slot
  /\ worker' = IF backupServers[s].id = NoServer
                 THEN [worker EXCEPT ![w].slot = s + 1]
                 ELSE [worker EXCEPT ![w].pc = "send", ![w].half = 1,
                                     ![w].to = backupServers[s].socket]
  /\ UNCHANGED <<tableVars, fileVars, lockVars, remoteVars, down, countVars>>

\* A write to n's connection: it fails on socket -1, is read some day by a
\* process that follows the protocol, is lost with one that does not, and may
\* raise SIGPIPE when the process is no more.
Write(n, unit) ==
  \/ /\ n # NoServer
     /\ secondary[n].state \in {"joining", "serving"}
     /\ stream' = [stream EXCEPT ![n] = Append(@, unit)]
     /\ UNCHANGED down
  \/ /\ n # NoServer => secondary[n].state \notin {"joining", "serving"}
     /\ UNCHANGED <<stream, down>>
  \/ /\ n # NoServer
     /\ secondary[n].state \in {"crashed", "nullDevice", "killed"}
     /\ down' = "sigpipe"
     /\ UNCHANGED stream

\* Mutation: the second half is forgotten.
SendHalf_Once(w) ==
  /\ worker[w].pc = "send"
  /\ Write(worker[w].to, [op |-> worker[w].op, n |-> worker[w].n, half |-> worker[w].half])
  /\ worker' = [worker EXCEPT ![w].pc = "slots", ![w].slot = @ + 1,
                              ![w].half = 0, ![w].to = NoServer]
  /\ UNCHANGED <<tableVars, fileVars, lockVars, backupServers, entering, secondary, countVars>>

\* sendLargePayloadToSocket, half a frame of it.
SendHalf(w) ==
  LET h == worker[w].half IN
  /\ worker[w].pc = "send"
  /\ Write(worker[w].to, [op |-> worker[w].op, n |-> worker[w].n, half |-> h])
  /\ worker' = IF h = 1
                 THEN [worker EXCEPT ![w].half = 2]
                 ELSE [worker EXCEPT ![w].pc = "slots", ![w].slot = @ + 1,
                                     ![w].half = 0, ![w].to = NoServer]
  /\ UNCHANGED <<tableVars, fileVars, lockVars, backupServers, entering, secondary, countVars>>

\* Mutation: no sem_post(&mutex_user_structure).
Finish_Keeps(w) ==
  /\ worker[w].pc = "slots"
  /\ worker[w].slot \notin Slot
  /\ worker' = [worker EXCEPT ![w] = Idle]
  /\ mutex_server' = IF mutex_server = w THEN Nobody ELSE mutex_server
  /\ dirs' = dirs \cup {o \in UserName : worker[w].op.kind = "LOGIN" /\ o = worker[w].op.name}
  /\ UNCHANGED <<tableVars, files, unsure, mutex_user, remoteVars, down, countVars>>

\* The loop is over: sem_post.  A login goes on to createUserDirectory.
Finish(w) ==
  /\ worker[w].pc = "slots"
  /\ worker[w].slot \notin Slot
  /\ worker' = [worker EXCEPT ![w] = Idle]
  /\ mutex_user' = IF mutex_user = w THEN Nobody ELSE mutex_user
  /\ mutex_server' = IF mutex_server = w THEN Nobody ELSE mutex_server
  /\ dirs' = dirs \cup {o \in UserName : worker[w].op.kind = "LOGIN" /\ o = worker[w].op.name}
  /\ UNCHANGED <<tableVars, files, unsure, remoteVars, down, countVars>>

-----------------------------------------------------------------------------
(* Registration of a secondary: its mediator thread and handle_one_secondary_server *)

Enter(n, pc) == entering' = [entering EXCEPT ![n].pc = pc]

\* The secondary connects and sends its SERVERCONN packet.
Connect(n) ==
  /\ secondary[n].state = "off"
  /\ secondary' = [secondary EXCEPT ![n].state = "joining"]
  /\ Enter(n, "server_wait")
  /\ UNCHANGED <<tableVars, fileVars, lockVars, backupServers, stream, worker, down, countVars>>

\* insert_server finds the first free slot,
FindSlot(n) ==
  /\ entering[n].pc = "server_wait"
  /\ ServerLockFree
  /\ mutex_server' = n
  /\ entering' = [entering EXCEPT ![n] = [pc   |-> "insert",
                       slot |-> First({s \in Slot : backupServers[s].id = NoServer})]]
  /\ UNCHANGED <<tableVars, fileVars, mutex_user, backupServers, stream, secondary, worker,
                 down, countVars>>

\* ... writes the id, by which user logins and exits find the secondary,
InsertId(n) ==
  /\ entering[n].pc = "insert"
  /\ entering[n].slot # 0
  /\ backupServers' = [backupServers EXCEPT ![entering[n].slot].id = n]
  /\ Enter(n, "socket")
  /\ UNCHANGED <<tableVars, fileVars, lockVars, stream, secondary, worker, down, countVars>>

\* ... and the socket.
InsertSocket(n) ==
  /\ entering[n].pc = "socket"
  /\ backupServers' = [backupServers EXCEPT ![entering[n].slot].socket = n]
  /\ mutex_server' = Nobody
  /\ Enter(n, "ack")
  /\ UNCHANGED <<tableVars, fileVars, mutex_user, stream, secondary, worker, down, countVars>>

\* There is no free slot: ERROR, which mediatorThread does not look at.
InsertFails(n) ==
  /\ entering[n].pc = "insert"
  /\ entering[n].slot = 0
  /\ mutex_server' = Nobody
  /\ Enter(n, "ack")
  /\ UNCHANGED <<tableVars, fileVars, mutex_user, backupServers, stream, secondary, worker,
                 down, countVars>>

\* handle_one_secondary_server, a thread of its own.
Acknowledge(n) ==
  /\ entering[n].pc = "ack"
  /\ Write(n, Ack)
  /\ Enter(n, "done")
  /\ UNCHANGED <<tableVars, fileVars, lockVars, backupServers, secondary, worker, countVars>>

-----------------------------------------------------------------------------
(* The secondary: second_server_processing *)

\* The secondary n becomes s, and its stream what rest says.
Becomes(n, s, rest) ==
  /\ secondary' = [secondary EXCEPT ![n] = s]
  /\ stream' = [stream EXCEPT ![n] = rest]
  /\ UNCHANGED <<tableVars, fileVars, lockVars, backupServers, entering, worker, down, countVars>>

Stops(n, state) == Becomes(n, [secondary[n] EXCEPT !.state = state], <<>>)

\* The ack is three bytes, and the read takes up to eight: it also takes the
\* beginning of a frame that has arrived behind the ack, or in front of it.
ReadAck(n) ==
  /\ secondary[n].state = "joining"
  /\ stream[n] # <<>>
  /\ \/ /\ Head(stream[n]) = Ack
        /\ Becomes(n, [secondary[n] EXCEPT !.state = "serving"], Tail(stream[n]))
     \/ /\ Head(stream[n]) # Ack \/ Len(stream[n]) > 1
        /\ Stops(n, "astray")

\* What the frame says about the table, with its place in the order of changes.
WithUsers(s, us, n) ==
  [s EXCEPT !.users = us, !.last = n, !.first = IF @ = 0 THEN n ELSE @]

\* Mutation: no createUserDirectory.
InsertUser_NoDirectory(s, op, n, socket) ==
  LET us == insert_device(insert_user(s.users, op.name).users, op.name, op.id).users IN
  IF get_device(us, op.id, op.name) = 0
    THEN [s EXCEPT !.state = "nullDevice"]
    ELSE WithUsers(s, insert_socket(us, op.name, op.id, socket, op.type), n)

\* insertUserConnectedInPrimary looks at no result: insert_socket follows the
\* device it finds.  The socket is the client's own descriptor.
InsertUser(s, op, n, socket) ==
  LET us == insert_device(insert_user(s.users, op.name).users, op.name, op.id).users IN
  IF get_device(us, op.id, op.name) = 0
    THEN [s EXCEPT !.state = "nullDevice"]
    ELSE [WithUsers(s, insert_socket(us, op.name, op.id, socket, op.type), n)
            EXCEPT !.dirs = @ \cup {op.name}]

\* Mutation: the table is left alone.
ReceiveExit_Forgets(s, op, n) == {WithUsers(s, s.users, n)}

\* The frame is a UserCurrentSocket with a std::string in it, a pointer into the
\* primary's memory.  Following it and freeing it finds the right name and does no
\* harm, or ends the process at once, or finds a wrong name, so that another device
\* or none is removed and the table is no longer the primary's, or leaves a heap
\* with which the process ends sooner or later.
ReceiveExit(s, op, n) ==
  {WithUsers(s, Logout(s.users, op.name, op.id), n)}
    \cup {[s EXCEPT !.state = state] : state \in {"crashed", "misled", "corrupt"}}

\* The stream cannot create a file in a directory that is not there; remove of a
\* file that is not there fails.  Neither is noticed.
ReceiveFile(s, op, n) ==
  IF op.kind = "DELETE" \/ op.name \in s.dirs
    THEN [s EXCEPT !.files[op.file] = n]
    ELSE s

\* The states the switch can leave the secondary in.
Received(s, op, n) ==
  CASE op.kind = "LOGIN" -> {InsertUser(s, op, n, socket) : socket \in Descriptor}
    [] op.kind = "EXIT"  -> ReceiveExit(s, op, n)
    [] OTHER             -> {ReceiveFile(s, op, n)}

\* The two halves at the front of a stream are those of one frame.
WholeFrame(q) ==
  /\ q[1].half = 1
  /\ q[2] = [q[1] EXCEPT !.half = 2]

ReadFrame(n) ==
  LET q == stream[n] IN
  /\ secondary[n].state = "serving"
  /\ Len(q) > 1
  /\ WholeFrame(q)
  /\ \E s \in Received(secondary[n], q[1].op, q[1].n) :
       Becomes(n, s, IF s.state = "serving" THEN Tail(Tail(q)) ELSE <<>>)

\* Halves of two frames are read as one.
ReadMixed(n) ==
  /\ secondary[n].state = "serving"
  /\ Len(stream[n]) > 1
  /\ ~ WholeFrame(stream[n])
  /\ Stops(n, "astray")

\* What half a frame can leave behind.  An UPLOAD without its size is read with a
\* size nobody has set: too large for the stack, or zero, and the file is emptied,
\* or another number, and the read of the payload is short.  In the middle of an
\* EXIT the exception destroys a std::string that is half the primary's.
Interrupted(s, op) ==
  CASE op.kind = "UPLOAD" -> {[s EXCEPT !.state = "election"], [s EXCEPT !.state = "crashed"],
                              [ReceiveFile(s, op, Cut) EXCEPT !.state = "election"]}
    [] op.kind = "EXIT"   -> {[s EXCEPT !.state = "election"], [s EXCEPT !.state = "crashed"]}
    [] OTHER              -> {[s EXCEPT !.state = "election"]}

\* End of file: a short read, and "Primary server died! Starting election...".
ReadFails(n) ==
  /\ down # "no"
  /\ \/ /\ \/ secondary[n].state = "serving" /\ stream[n] = <<>>
           \/ secondary[n].state = "joining" /\ stream[n] = <<>>
           \/ secondary[n].state = "misled"
        /\ Stops(n, "election")
     \/ /\ secondary[n].state = "serving"
        /\ Len(stream[n]) = 1
        /\ \E s \in Interrupted(secondary[n], stream[n][1].op) : Becomes(n, s, <<>>)

\* A secondary that lost its place in the stream: with the three bytes of the ack,
\* or the end of a file, in the middle of its four-byte reads, one of these is
\* short and starts the election, or what it takes for a size overflows the stack.
Stray(n) ==
  \/ /\ secondary[n].state = "astray"
     /\ entering[n].pc = "done"
     /\ \E state \in {"election", "crashed"} : Stops(n, state)
  \/ /\ secondary[n].state = "corrupt"
     /\ Stops(n, "crashed")

\* The election is held on a socket that no line of the program opens.  A failed
\* read leaves secondaryId 0, less than every id; a descriptor that happens to be
\* another one yields any number, or blocks.
Elect(n) ==
  /\ secondary[n].state = "election"
  /\ \E state \in {"primary", "loser"} : Stops(n, state)

\* The exception that catch(...) does not throw on is pthread_exit's: the end of
\* the block ends the process, before run() looks at isPrimary.
Abort(n) ==
  /\ secondary[n].state \in {"primary", "loser"}
  /\ Stops(n, "crashed")

-----------------------------------------------------------------------------
(* Failures *)

KillPrimary ==
  /\ down = "no"
  /\ kills < MaxKills
  /\ kills' = kills + 1
  /\ down' = "killed"
  /\ UNCHANGED <<tableVars, fileVars, lockVars, remoteVars, worker, ops>>

KillSecondary(n) ==
  /\ secondary[n].state \in {"joining", "serving", "astray", "misled", "corrupt"}
  /\ kills < MaxKills
  /\ kills' = kills + 1
  /\ secondary' = [secondary EXCEPT ![n].state = "killed"]
  /\ stream' = [stream EXCEPT ![n] = <<>>]
  /\ UNCHANGED <<tableVars, fileVars, lockVars, backupServers, entering, worker, down, ops>>

-----------------------------------------------------------------------------

\* A step of a session thread on its operation.
WorkerStep(w) ==
  \/ Login(w) \/ Refuse(w) \/ Exit(w)
  \/ WriteFile(w) \/ Notify(w) \/ LockServers(w)
  \/ VisitSlot(w) \/ SendHalf(w) \/ Finish(w)

EnterStep(n) ==
  \/ FindSlot(n) \/ InsertId(n) \/ InsertSocket(n) \/ InsertFails(n)
  \/ Acknowledge(n)

SecondaryStep(n) ==
  \/ ReadAck(n) \/ ReadFrame(n) \/ ReadMixed(n) \/ ReadFails(n) \/ Stray(n)
  \/ Elect(n) \/ Abort(n)

PrimaryUp == down = "no"

PrimaryStep ==
  /\ PrimaryUp
  /\ \/ \E w \in Worker : (\E op \in Workload : Begin(w, op)) \/ WorkerStep(w)
     \/ \E n \in Server : Connect(n) \/ EnterStep(n)

Next ==
  \/ PrimaryStep
  \/ \E n \in Server : SecondaryStep(n) \/ KillSecondary(n)
  \/ KillPrimary

Spec == Init /\ [][Next]_vars

\* The steps above can be taken: what ENABLED would say of them.
WorkerReady(w) ==
  /\ down = "no"
  /\ \/ worker[w].pc \in {"write", "slots", "send"}
     \/ worker[w].pc \in {"user_wait", "notify_wait"} /\ UserLockFree
     \/ worker[w].pc = "server_wait" /\ ServerLockFree

EnterReady(n) ==
  /\ down = "no"
  /\ \/ entering[n].pc \in {"insert", "socket", "ack"}
     \/ entering[n].pc = "server_wait" /\ ServerLockFree

SecondaryReady(n) ==
  \/ secondary[n].state = "joining" /\ (stream[n] # <<>> \/ down # "no")
  \/ secondary[n].state = "serving" /\ (Len(stream[n]) > 1 \/ down # "no")
  \/ secondary[n].state = "astray" /\ entering[n].pc = "done"
  \/ secondary[n].state = "misled" /\ down # "no"
  \/ secondary[n].state \in {"primary", "loser"}

\* Every thread and every process gets its turn: weak fairness of each.
\* Operations, registrations and deaths need not happen.
Fairness ==
  /\ \A w \in Worker : <>[]WorkerReady(w) => []<><<PrimaryUp /\ WorkerStep(w)>>_vars
  /\ \A n \in Server :
       /\ <>[]EnterReady(n) => []<><<PrimaryUp /\ EnterStep(n)>>_vars
       /\ <>[]SecondaryReady(n) => []<><<SecondaryStep(n)>>_vars

FairSpec == Spec /\ Fairness

-----------------------------------------------------------------------------
(* Properties *)

Serving(n) == secondary[n].state = "serving"

\* insertUserConnectedInPrimary (Server.cpp:247-261) and receiveExitFromPrimary
\* (:263-281) replay the changes of the primary's table in another array.  A
\* secondary that serves lists nobody whom the primary did not list after the same
\* change, and exactly the same devices if it has received the changes from the
\* first on, whatever file frames, deaths and late registrations came in between.
FollowsPrimary ==
  \A n \in Server : Serving(n) =>
     LET s == secondary[n] IN
     /\ View(s.users) \subseteq past[s.last + 1]
     /\ s.first = 1 => View(s.users) = past[s.last + 1]

\* The loops at Server.cpp:838, 857, 884 and 1115 run inside the critical section of
\* the change itself: a secondary that has heard of one change hears of the next
\* one next, although its socket appears while frames are being sent.
ChangesInOrder ==
  [][\A n \in Server :
       LET last == secondary[n].last IN
       last # 0 => secondary'[n].last \in {last, last + 1}]_vars

\* insertUserConnectedInPrimary ignores the results of insert_user and insert_device
\* (:258-259) and follows the device (:260): it is there, because what fits into the
\* primary's table fits into that of a secondary that knows less.
SecondaryHasRoom == \A n \in Server : secondary[n].state # "nullDevice"

\* INSERT_USER and EXIT are sent under one semaphore, UPLOAD and DELETE under the other.
UserKinds == {"LOGIN", "EXIT"}
FileKinds == {"UPLOAD", "DELETE"}

\* Entry i is the last one of these kinds before place j, or at all.
Prior(q, kinds, i, j) ==
  /\ i \in 1 .. j - 1 /\ q[i].op.kind \in kinds
  /\ \A k \in i + 1 .. j - 1 : q[k].op.kind \notin kinds

Latest(q, kinds, i) == Prior(q, kinds, i, Len(q) + 1)

\* Frames of these kinds arrive in one piece each.
Unbroken(q, kinds) ==
  \A j \in DOMAIN q : q[j].op.kind \in kinds =>
     IF q[j].half = 1
       THEN \A i \in DOMAIN q : Prior(q, kinds, i, j) => q[i].half = 2
       ELSE \E i \in DOMAIN q : Prior(q, kinds, i, j) /\ q[i] = [q[j] EXCEPT !.half = 1]

\* sendLargePayloadToSocket makes many writes of one frame.  Frames sent under the
\* same semaphore (:838-894 and 1115-1124, or :951-964 and 1037-1048) never mix;
\* only frames of the two different semaphores do.
OneLockNeverMixes ==
  \A n \in Server :
     Unbroken(stream[n], UserKinds) /\ Unbroken(stream[n], FileKinds)

\* Nothing is on its way to secondary n.
Settled(n) ==
  /\ down = "no"
  /\ \A w \in Worker : worker[w].pc = "idle"
  /\ Serving(n)
  /\ stream[n] = <<>>

\* Files are written before and outside the lock under which they are replicated
\* (:930-951, :1021-1037), and what a database holds from earlier runs is never
\* compared.  When all is quiet, a secondary that has heard of all users has each
\* file that was written or deleted in this run as the primary has it, whatever it
\* held before, unless the last operations on the file overlapped.
FilesMirrored ==
  \A n \in Server : Settled(n) /\ secondary[n].first = 1 =>
     \A f \in File \ unsure : secondary[n].files[f] = files[f]

\* insert_server (:444-453) gives each secondary a slot of its own, whichever of
\* them register together and whoever reads the array meanwhile.  One that is
\* acknowledged without a slot (:452, the ERROR is ignored) met a full array.
UnlistedOnlyWhenFull ==
  \A n \in Server : entering[n].pc \in {"ack", "done"} =>
     IF entering[n].slot # 0
       THEN backupServers[entering[n].slot] = [id |-> n, socket |-> n]
       ELSE \A s \in Slot : backupServers[s].id # NoServer

(***************************************************************************)
(* What the properties rest on.                                            *)
(***************************************************************************)
Sending(w) == worker[w].pc \in {"slots", "send"}
Hearing(n) == secondary[n].state \in {"joining", "serving"}
Listed(n)  == \E s \in Slot : backupServers[s].socket = n

\* What a thread at some place has taken, and has to do.
Locks ==
  /\ \A w \in Worker :
       LET o == worker[w].op IN
         /\ Busy(w) => o \in Workload
         /\ worker[w].pc = "user_wait" => o.kind \in UserKinds
         /\ worker[w].pc \in {"write", "notify_wait", "server_wait"} => o.kind \in FileKinds
         /\ Sending(w) => w = IF o.kind \in UserKinds THEN mutex_user ELSE mutex_server
         /\ Sending(w) => worker[w].slot \in 1 .. MaxServers + 1
         /\ worker[w].pc = "send" => worker[w].slot \in Slot /\ worker[w].half \in {1, 2}
         /\ worker[w].pc = "send" /\ o.kind \in FileKinds => worker[w].to # NoServer
  /\ \A n \in Server : entering[n].pc \in {"insert", "socket"} => mutex_server = n

\* Changes of the table that have begun are among the operations.
Counted ==
  Len(past) + Cardinality({w \in Worker : worker[w].pc = "user_wait"}) <= ops + 1

\* Slots are given once, and written by the thread that has mutex_server_structure.
Slots ==
  /\ \A n \in Server :
       LET slot == entering[n].slot IN
         /\ entering[n].pc = "none" <=> secondary[n].state = "off"
         /\ entering[n].pc \in {"none", "server_wait"} => slot = 0
         /\ entering[n].pc = "insert" =>
              IF slot # 0 THEN backupServers[slot] = [id |-> NoServer, socket |-> NoServer]
                          ELSE \A s \in Slot : backupServers[s].id # NoServer
         /\ entering[n].pc = "socket" => slot # 0 /\ backupServers[slot] = [id |-> n, socket |-> NoServer]
  /\ UnlistedOnlyWhenFull
  /\ \A s \in Slot :
       LET b == backupServers[s] IN
         /\ b.id # NoServer => entering[b.id].slot = s /\ entering[b.id].pc \in {"socket", "ack", "done"}
         /\ b.socket # NoServer => b.id = b.socket /\ entering[b.id].pc \in {"ack", "done"}
  /\ \A w \in Worker : worker[w].pc = "send" =>
         worker[w].to = NoServer \/ backupServers[worker[w].slot].socket = worker[w].to

\* The first half of the frame a thread is sending.
FirstHalf(w) == [op |-> worker[w].op, n |-> worker[w].n, half |-> 1]
Halfway(w, n) == worker[w].pc = "send" /\ worker[w].half = 2 /\ worker[w].to = n

\* A frame is in one piece, or its thread is about to send the rest.
Frames ==
  \A n \in Server :
    /\ ~ Hearing(n) => stream[n] = <<>>
    /\ ~ Listed(n) => \A i \in DOMAIN stream[n] : stream[n][i] = Ack
    /\ \A kinds \in {UserKinds, FileKinds} :
         /\ Unbroken(stream[n], kinds)
         /\ \A i \in DOMAIN stream[n] : Latest(stream[n], kinds, i) /\ stream[n][i].half = 1 =>
              \E w \in Worker : Halfway(w, n) /\ stream[n][i] = FirstHalf(w)
         /\ \A w \in Worker : Halfway(w, n) /\ Hearing(n) /\ worker[w].op.kind \in kinds =>
              \E i \in DOMAIN stream[n] : Latest(stream[n], kinds, i) /\ stream[n][i] = FirstHalf(w)

\* The loop of w has not come to n, or has not written to it.
Unsent(w, n) ==
  LET slot == entering[n].slot IN
    \/ (worker[w].pc = "slots" /\ worker[w].slot <= slot)
    \/ /\ worker[w].pc = "send"
       /\ worker[w].slot < slot \/ (worker[w].slot = slot /\ worker[w].half = 1)

\* The number of the last change, and of the last one sent to n.
Change  == Len(past) - 1
Sent(n) ==
  IF \E w \in Worker : worker[w].op.kind \in UserKinds /\ Unsent(w, n) THEN Change - 1 ELSE Change

\* What a change does to the users and devices.
Applied(op, view) ==
  IF op.kind = "LOGIN" THEN view \cup {<<op.name, op.id>>} ELSE view \ {<<op.name, op.id>>}

IsChange(op, n) == n \in 1 .. Change /\ past[n + 1] = Applied(op, past[n])

\* Changes are on their way to n in their order, up to the last one sent.
IsUser(q, i) == i \in DOMAIN q /\ q[i].op.kind \in UserKinds

InOrder(n) ==
  LET q    == stream[n]
      last == secondary[n].last
  IN /\ ~ Listed(n) => last = 0
     /\ \A i \in DOMAIN q : IsUser(q, i) => IsChange(q[i].op, q[i].n)
     /\ \A i, j \in DOMAIN q : IsUser(q, j) /\ q[j].half = 1 /\ Prior(q, UserKinds, i, j) =>
          q[j].n = q[i].n + 1
     /\ \A j \in DOMAIN q : IsUser(q, j) /\ last # 0 =>
          (\E i \in DOMAIN q : Prior(q, UserKinds, i, j)) \/ q[j].n = last + 1
     /\ \A i \in DOMAIN q : Latest(q, UserKinds, i) => q[i].n = Sent(n)
     /\ last # 0 => last = Sent(n) \/ \E i \in DOMAIN q : IsUser(q, i)
     /\ \A w \in Worker :
          /\ worker[w].pc = "send" /\ worker[w].op.kind \in UserKinds
          /\ worker[w].slot = entering[n].slot /\ worker[w].to # n
          => last = 0 /\ \A i \in DOMAIN q : ~ IsUser(q, i)

Changes ==
  /\ \A w \in Worker : Sending(w) /\ worker[w].op.kind \in UserKinds =>
       worker[w].n = Change /\ IsChange(worker[w].op, Change)
  /\ \A n \in Server : Hearing(n) => InOrder(n)

\* The users and devices fit into a table.
Fits(view) ==
  /\ IsFiniteSet(view)
  /\ Cardinality({x[1] : x \in view}) <= MaxUsers
  /\ \A name \in UserName : Cardinality({x \in view : x[1] = name}) <= MaxDevices

\* The tables are those of the changes.
Tables ==
  /\ WellFormed(users) /\ past # <<>> /\ past[1] = {} /\ past[Len(past)] = View(users)
  /\ \A i \in DOMAIN past : Fits(past[i])
  /\ \A n \in Server : secondary[n].state = "off" => secondary[n] \in Off
  /\ \A n \in Server : Hearing(n) =>
       LET s == secondary[n] IN
         /\ s.first = 0 <=> s.last = 0
         /\ s.last \in 0 .. Change
         /\ WellFormed(s.users)
         /\ View(s.users) \subseteq past[s.last + 1]
         /\ s.first = 1 => View(s.users) = past[s.last + 1]
         /\ s.last = 0 => View(s.users) = {}

\* Every change of the table is among those n has heard of or has on its way.
FromFirst(n) ==
  /\ Hearing(n)
  /\ \/ secondary[n].first = 1
     \/ \E i \in DOMAIN stream[n] : IsUser(stream[n], i) /\ stream[n][i].n = 1

\* The login of the user is among the first j - 1 entries, or carried out.
KnownBefore(n, name, j) ==
  \/ name \in secondary[n].dirs
  \/ \E i \in 1 .. j - 1 : stream[n][i].op.kind = "LOGIN" /\ stream[n][i].op.name = name

KnownTo(n, name) == KnownBefore(n, name, Len(stream[n]) + 1)

IsFile(q, i) == i \in DOMAIN q /\ q[i].op.kind \in FileKinds
IsWrite(q, f, i) == IsFile(q, i) /\ q[i].op.file = f

\* n has v in f, or will when it has read what is on its way.
WillHold(n, f, v) ==
  LET q == stream[n] IN
  /\ \A i \in DOMAIN q : IsWrite(q, f, i) /\ (\A k \in DOMAIN q : IsWrite(q, f, k) => k <= i) => q[i].n = v
  /\ (\A i \in DOMAIN q : ~ IsWrite(q, f, i)) => secondary[n].files[f] = v

\* w carries out an operation on file f.
Handles(w, f) == Busy(w) /\ worker[w].op.kind \in FileKinds /\ worker[w].op.file = f

\* Before the first session no file has been touched.
NoFilesYet ==
  IF dirs = {}
    THEN /\ unsure = File
         /\ \A n \in Server : \A i \in DOMAIN stream[n] : ~ IsFile(stream[n], i)
    ELSE Change > 0 /\ \A w \in Worker : Sending(w) /\ worker[w].op.kind \in UserKinds => Change > 1

\* What was written to a file comes to a secondary that can store it.
Copies ==
  /\ NoFilesYet
  /\ \A w \in Worker, f \in File : Handles(w, f) => worker[w].op.name \in dirs
  /\ \A f \in File \ unsure :
       \A w \in Worker : Handles(w, f) =>
         /\ \A v \in Worker : Handles(v, f) => v = w
         /\ worker[w].pc # "write" => files[f] = worker[w].n
  /\ \A n \in Server : FromFirst(n) =>
       /\ \A name \in dirs : KnownTo(n, name)
       /\ \A w \in Worker : Sending(w) /\ worker[w].op.kind = "LOGIN" /\ ~ Unsent(w, n) =>
            KnownTo(n, worker[w].op.name)
       /\ \A j \in DOMAIN stream[n] : IsFile(stream[n], j) => KnownBefore(n, stream[n][j].op.name, j)
       /\ \A f \in File \ unsure :
            (\A w \in Worker : Handles(w, f) => Sending(w) /\ ~ Unsent(w, n)) => WillHold(n, f, files[f])

Invariant ==
  TypeOK /\ Locks /\ Counted /\ Slots /\ Frames /\ Changes /\ Tables /\ SecondaryHasRoom /\ Copies

\* An operation of a session ends, whatever secondaries come and die, unless the
\* primary dies or a refused login keeps the user semaphore.
OperationsFinish ==
  \A w \in Worker :
     Busy(w) ~> ~ Busy(w) \/ down # "no" \/ \E v \in Worker : worker[v].pc = "ended"

\* Every byte for a secondary is read some day: none waits for a rest of its frame
\* that is not sent.
StreamsDrain == \A n \in Server : stream[n] # <<>> ~> stream[n] = <<>>

\* What the program says and does not do.

\* "I won the election, I am the new primary server!" (Server.cpp:208): there is
\* one primary at a time, the living one or one winner.
AtMostOnePrimary ==
  Cardinality({n \in Server : secondary[n].state = "primary"})
    + (IF PrimaryUp THEN 1 ELSE 0) <= 1
=============================================================================
