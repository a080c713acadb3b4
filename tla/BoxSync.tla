------------------------------ MODULE BoxSync ------------------------------
(***************************************************************************)
(* The boxes of one user and the server that keeps their folders alike:    *)
(* the three threads of a Box (Box.cpp: the console, the inotify thread    *)
(* and the thread for the server's commands), the static Instruction the   *)
(* first two share (Instruction.cpp), and the session threads of the       *)
(* server that carry out an upload or a delete and pass it on to the       *)
(* user's other devices (Server.cpp).                                      *)
(*                                                                         *)
(* Only the order of the steps is modelled: a file's contents are the      *)
(* number of the change that wrote them, and the bytes of a command arrive *)
(* together.  What module Transfer shows of the connections is kept: the   *)
(* ack an upload leaves lets the client run ahead of the session thread,   *)
(* and the name and the contents of a later upload may then be read as one *)
(* name; a download may go wrong as well.  From there on the session       *)
(* thread is "astray" and reads bytes for what they are not.  It is taken  *)
(* that no name and contents make another file's name, and that contents   *)
(* do not begin with a zero byte, so that what it stores is no known file. *)
(*                                                                         *)
(* Box::open fetches nothing, so folders and server may differ at first.   *)
(* The kernel's inotify queue merges an event with an equal one before it  *)
(* and does not overflow.  Files appear in the folder by one write and     *)
(* close.                                                                  *)
(***************************************************************************)
EXTENDS Integers, Sequences, FiniteSets

CONSTANTS
  Box,          \* the connected devices of the user
  File,         \* file names
  Before,       \* what each box has in its folder when the boxes connect
  Stored,       \* what the server has by then
  MaxActs,      \* bound: changes users make in folders and commands they type
  MaxAhead      \* bound: acks left in a stream that a client takes for later ones

Outside == MaxActs + 1   \* what the files outside the folders hold
Earlier == MaxActs + 2   \* what files held when a box was last connected,
Older   == MaxActs + 3   \* and what they may hold where it was not

ASSUME BoxSyncAssumption ==
  /\ MaxActs \in Nat /\ MaxAhead \in Nat
  /\ IsFiniteSet(Box) /\ "none" \notin File
  /\ Before \in [Box -> [File -> {0, Earlier, Older}]]
  /\ Stored \in [File -> {0, Earlier, Older}]

Thread == {"console", "inotify"}     \* the users of a box's Instruction

VARIABLES
  folder,    \* sync_dir of each box: what each file holds, 0 for no file
  events,    \* the kernel's inotify queue
  batch,     \* the events in the inotify thread's buffer, those examined removed
  source_is_server, \* instruction_source_is_server
  filename, path,   \* the static Instruction
  at,        \* where each user of it is
  hand,      \* the contents it has read from a file
  comm,      \* the command the thread for the server's commands carries out
  exiting,   \* exit_command_typed
  written,   \* commands on their way to each session thread
  ahead,     \* how many acks more than it needs the client may find
  session,   \* on the server: the command a session thread carries out
  closed,    \* on the server: the box's sockets are closed
  store,     \* on the server: the user's files
  pushed,    \* commands on their way to each box
  acts,      \* history: how many changes users made and lines they typed
  typed,     \* history: the boxes where a line was typed
  writers,   \* history: the boxes whose users changed a file
  skipped,   \* history: files with a user's event that was not propagated
  echoed,    \* history: files with a server's event that was propagated
  unnamed,   \* history: a delete was sent without a name
  served,    \* history: files that a session thread has changed on the server
  astray     \* history: connections whose session thread reads one thing for another

box   == <<folder, events, batch, source_is_server, filename, path, at, hand, comm, exiting>>
line  == <<written, ahead, astray>>
host  == <<session, closed, store, pushed, served>>
past  == <<acts, typed, writers, skipped, echoed, unnamed>>
vars  == <<box, line, host, past>>

Nothing == [op |-> "none"]
Garbled == [op |-> "garbled"]   \* bytes that will not be read as what they are

Name == File \cup {"none"}

\* In a client's hand: the contents, and of which file.
Empty == [file |-> "none", holds |-> 0]

Init ==
  /\ store = Stored
  /\ folder = Before
  /\ events = [b \in Box |-> <<>>]
  /\ batch = [b \in Box |-> <<>>]
  /\ source_is_server = [b \in Box |-> FALSE]
  /\ filename = [b \in Box |-> "none"]
  /\ path = [b \in Box |-> "none"]
  /\ at = [b \in Box |-> [t \in Thread |-> "idle"]]
  /\ hand = [b \in Box |-> [t \in Thread |-> Empty]]
  /\ comm = [b \in Box |-> Nothing]
  /\ exiting = [b \in Box |-> FALSE]
  /\ written = [b \in Box |-> [t \in Thread |-> <<>>]]
  /\ ahead = [b \in Box |-> [t \in Thread |-> 0]]
  /\ session = [b \in Box |-> [t \in Thread |-> Nothing]]
  /\ closed = [b \in Box |-> FALSE]
  /\ pushed = [b \in Box |-> <<>>]
  /\ acts = 0
  /\ typed = {}
  /\ writers = [f \in File |-> {}]
  /\ skipped = {}
  /\ echoed = {}
  /\ unnamed = FALSE
  /\ served = {}
  /\ astray = {}

Goto(b, t, place) == at' = [at EXCEPT ![b][t] = place]

-----------------------------------------------------------------------------
(***************************************************************************)
(* The folder and the kernel's queue.                                      *)
(***************************************************************************)
Same(e, d) == e.kind = d.kind /\ e.file = d.file

\* An event equal to the last one is merged with it; it is the user's if one of
\* the two is.
Enqueue(queue, e) ==
  IF queue # <<>> /\ Same(queue[Len(queue)], e)
    THEN IF e.by = "user" THEN [queue EXCEPT ![Len(queue)] = e] ELSE queue
    ELSE Append(queue, e)

Write(b, f, holds, by) ==
  /\ folder' = [folder EXCEPT ![b][f] = holds]
  /\ events' = [events EXCEPT ![b] = Enqueue(@, [kind |-> "written", file |-> f, by |-> by])]

Unlink(b, f, by) ==
  IF folder[b][f] = 0
    THEN UNCHANGED <<folder, events>>
    ELSE /\ folder' = [folder EXCEPT ![b][f] = 0]
         /\ events' = [events EXCEPT ![b] = Enqueue(@, [kind |-> "gone", file |-> f, by |-> by])]

\* A user changes the folder with some other program.
UserChanges(b, f) ==
  /\ acts < MaxActs
  /\ acts' = acts + 1
  /\ \/ Write(b, f, acts', "user")
     \/ folder[b][f] # 0 /\ Unlink(b, f, "user")
  /\ writers' = [writers EXCEPT ![f] = @ \cup {b}]
  /\ UNCHANGED <<batch, source_is_server, filename, path, at, hand, comm, exiting,
                 line, host, typed, skipped, echoed, unnamed>>

-----------------------------------------------------------------------------
(***************************************************************************)
(* upload_file and delete_file, by either user of the Instruction.         *)
(***************************************************************************)
After(t) == IF t = "console" THEN "idle" ELSE "examine"

\* The commands the session thread has not finished.  A client goes on when it
\* has read an ack for each it waits for, and it may be ahead of the thread by
\* those that were left.
Unfinished(b, t) == Len(written[b][t]) + (IF session[b][t] = Nothing THEN 0 ELSE 1)

Put(b, t, command) ==
  /\ Unfinished(b, t) <= ahead[b][t]
  /\ written' = [written EXCEPT ![b][t] = Append(@, command)]

\* What is written to a socket the server has closed is lost, or ends the process
\* with SIGPIPE.  When the session thread is astray the client may wait for ever.
Send(b, t, command, next) ==
  \/ /\ ~closed[b] /\ <<b, t>> \notin astray
     /\ Put(b, t, command)
     /\ Goto(b, t, next)
     /\ UNCHANGED <<exiting, comm, astray>>
  \/ /\ ~closed[b]
     /\ <<b, t>> \in astray \/ (command.op = "upload" /\ ahead[b][t] > 0)
     /\ astray' = astray \cup {<<b, t>>}
     /\ Put(b, t, Garbled)
     /\ Goto(b, t, "stuck")
     /\ UNCHANGED <<exiting, comm>>
  \/ /\ closed[b]
     /\ Goto(b, t, After(t))
     /\ UNCHANGED <<exiting, comm, written, astray>>
  \/ /\ closed[b]
     /\ at' = [at EXCEPT ![b] = [u \in Thread |-> "finished"]]
     /\ comm' = [comm EXCEPT ![b] = [op |-> "finished"]]
     /\ UNCHANGED <<exiting, written, astray>>

\* It goes on if there is an ack, or when the lost thread writes something.
Answered(b, t) ==
  /\ at[b][t] = "stuck" /\ <<b, t>> \in astray
  /\ Goto(b, t, After(t))
  /\ UNCHANGED <<folder, events, batch, source_is_server, filename, path, hand, comm, exiting,
                 line, host, past>>

\* The contents are those of the file named when it is opened ...
OpenFile(b, t) ==
  /\ at[b][t] = "open"
  /\ LET holds == IF filename[b] = "none" \/ path[b] = "none" THEN 0
                  ELSE IF path[b] = "outside" THEN Outside
                  ELSE folder[b][filename[b]]
     IN IF holds = 0
          THEN Goto(b, t, After(t)) /\ UNCHANGED hand
          ELSE /\ hand' = [hand EXCEPT ![b][t] = [file |-> filename[b], holds |-> holds]]
               /\ Goto(b, t, "send")
  /\ UNCHANGED <<folder, events, batch, source_is_server, filename, path, comm, exiting, line, host, past>>

\* The client does not wait for the last ack of an upload.
LeaveAck(b, t) ==
  ahead' = [ahead EXCEPT ![b][t] = IF @ < MaxAhead THEN @ + 1 ELSE @]

\* Mutation: the contents stay in the hand.
SendFile_Keeps(b, t) ==
  /\ at[b][t] = "send"
  /\ Send(b, t, [op |-> "upload", file |-> filename[b], of |-> hand[b][t]],
          IF filename[b] = "none" THEN "stuck" ELSE After(t))
  /\ LeaveAck(b, t)
  /\ UNCHANGED <<folder, events, batch, source_is_server, filename, path, hand, host, past>>

\* ... and they are sent under the name that is there when it is sent.  If there
\* is none, no byte is written for it: the session thread waits for the name,
\* and the client for the answer, unless an earlier upload left one.
SendFile(b, t) ==
  /\ at[b][t] = "send"
  /\ Send(b, t, [op |-> "upload", file |-> filename[b], of |-> hand[b][t]],
          IF filename[b] = "none" THEN "stuck" ELSE After(t))
  /\ LeaveAck(b, t)
  /\ hand' = [hand EXCEPT ![b][t] = Empty]
  /\ UNCHANGED <<folder, events, batch, source_is_server, filename, path, host, past>>

SendDelete(b, t) ==
  /\ at[b][t] = "delete"
  /\ Send(b, t, [op |-> "delete", file |-> filename[b], of |-> Empty], After(t))
  /\ unnamed' = (unnamed \/ filename[b] = "none")
  /\ UNCHANGED <<folder, events, batch, source_is_server, filename, path, hand, ahead, host,
                 acts, typed, writers, skipped, echoed>>

-----------------------------------------------------------------------------
(***************************************************************************)
(* th_func_inotify.                                                        *)
(***************************************************************************)
inotifyKeeps == <<folder, comm, exiting, line, host, acts, typed, writers, unnamed>>

ReadEvents(b) ==
  /\ at[b]["inotify"] = "idle"
  /\ ~exiting[b]
  /\ events[b] # <<>>
  /\ batch' = [batch EXCEPT ![b] = events[b]]
  /\ events' = [events EXCEPT ![b] = <<>>]
  /\ Goto(b, "inotify", "examine")
  /\ UNCHANGED <<source_is_server, filename, path, hand, skipped, echoed, inotifyKeeps>>

\* One event: skipped, or its name is put in the Instruction.
Examine(b) ==
  /\ at[b]["inotify"] = "examine"
  /\ batch[b] # <<>>
  /\ LET e == Head(batch[b]) IN
       \/ /\ source_is_server[b]
          /\ skipped' = IF e.by = "user" THEN skipped \cup {e.file} ELSE skipped
          /\ batch' = [batch EXCEPT ![b] = Tail(@)]
          /\ UNCHANGED <<filename, at, echoed>>
       \/ /\ ~source_is_server[b]
          /\ filename' = [filename EXCEPT ![b] = e.file]
          /\ echoed' = IF e.by = "server" THEN echoed \cup {e.file} ELSE echoed
          /\ Goto(b, "inotify", "path")
          /\ UNCHANGED <<batch, skipped>>
  /\ UNCHANGED <<events, source_is_server, path, hand, inotifyKeeps>>

SetPath(b) ==
  /\ at[b]["inotify"] = "path"
  /\ path' = [path EXCEPT ![b] = "sync_dir"]
  /\ Goto(b, "inotify", IF Head(batch[b]).kind = "gone" THEN "delete" ELSE "open")
  /\ batch' = [batch EXCEPT ![b] = Tail(@)]
  /\ UNCHANGED <<events, source_is_server, filename, hand, skipped, echoed, inotifyKeeps>>

EndBatch(b) ==
  /\ at[b]["inotify"] = "examine"
  /\ batch[b] = <<>>
  /\ source_is_server' = [source_is_server EXCEPT ![b] = FALSE]
  /\ Goto(b, "inotify", "idle")
  /\ UNCHANGED <<events, batch, filename, path, hand, skipped, echoed, inotifyKeeps>>

InotifyFinishes(b) ==
  /\ at[b]["inotify"] = "idle"
  /\ exiting[b]
  /\ Goto(b, "inotify", "finished")
  /\ UNCHANGED <<events, batch, source_is_server, filename, path, hand, skipped, echoed, inotifyKeeps>>

InotifyStep(b) ==
  \/ ReadEvents(b) \/ Examine(b) \/ SetPath(b) \/ EndBatch(b) \/ InotifyFinishes(b)
  \/ OpenFile(b, "inotify") \/ SendFile(b, "inotify") \/ SendDelete(b, "inotify")

-----------------------------------------------------------------------------
(***************************************************************************)
(* th_func_monitor_console, and Instruction::prepare.                      *)
(***************************************************************************)
consoleKeeps == <<folder, events, batch, source_is_server, writers, skipped, echoed, unnamed>>

\* A line is typed, and the Instruction reset.  Then upload sets the path and
\* the name, delete and download the name; the other commands, and what is no
\* command, leave it empty.
Type(b) ==
  /\ at[b]["console"] = "idle"
  /\ acts < MaxActs
  /\ acts' = acts + 1
  /\ typed' = typed \cup {b}
  /\ \/ /\ path' = [path EXCEPT ![b] = "outside"]
        /\ filename' = [filename EXCEPT ![b] = "none"]
        /\ Goto(b, "console", "name")
     \/ \E f \in File :
          /\ filename' = [filename EXCEPT ![b] = f]
          /\ path' = [path EXCEPT ![b] = "none"]
          /\ \E place \in {"delete", "download"} : Goto(b, "console", place)
     \/ /\ filename' = [filename EXCEPT ![b] = "none"]
        /\ path' = [path EXCEPT ![b] = "none"]
        /\ at' \in {[at EXCEPT ![b]["console"] = place] : place \in {"idle", "exit"}}
  /\ UNCHANGED <<hand, comm, exiting, line, host, consoleKeeps>>

SetName(b) ==
  /\ at[b]["console"] = "name"
  /\ \E f \in File : filename' = [filename EXCEPT ![b] = f]
  /\ Goto(b, "console", "open")
  /\ UNCHANGED <<path, hand, comm, exiting, line, host, acts, typed, consoleKeeps>>

\* downloadFile changes no folder; but the two sides may be out of step after it,
\* with the client waiting for contents that are not sent.
Download(b) ==
  /\ at[b]["console"] = "download"
  /\ \/ /\ Unfinished(b, "console") = 0
        /\ Goto(b, "console", "idle")
        /\ UNCHANGED astray
     \/ /\ astray' = astray \cup {<<b, "console">>}
        /\ Goto(b, "console", "stuck")
  /\ UNCHANGED <<filename, path, hand, comm, exiting, written, ahead, host, acts, typed, consoleKeeps>>

\* sendExitCommand, and exit_command_typed.
SendExit(b) ==
  /\ at[b]["console"] = "exit"
  /\ Put(b, "console", IF <<b, "console">> \in astray THEN Garbled ELSE [op |-> "exit"])
  /\ exiting' = [exiting EXCEPT ![b] = TRUE]
  /\ Goto(b, "console", "finished")
  /\ UNCHANGED <<filename, path, hand, comm, ahead, astray, host, acts, typed, consoleKeeps>>

ConsoleStep(b) ==
  \/ SetName(b) \/ Download(b) \/ SendExit(b)
  \/ OpenFile(b, "console") \/ SendFile(b, "console") \/ SendDelete(b, "console")

-----------------------------------------------------------------------------
(***************************************************************************)
(* th_func_server_comm.                                                    *)
(***************************************************************************)
commKeeps == <<batch, filename, path, at, hand, exiting, line, session, closed, store, served, past>>

\* A command, or nothing from a closed socket, which the thread does not notice:
\* it only looks at exit_command_typed.
ReceiveCommand(b) ==
  /\ comm[b] = Nothing
  /\ \/ /\ pushed[b] # <<>>
        /\ comm' = [comm EXCEPT ![b] = Head(pushed[b])]
        /\ pushed' = [pushed EXCEPT ![b] = Tail(@)]
     \/ /\ pushed[b] = <<>>
        /\ closed[b]
        /\ comm' = [comm EXCEPT ![b] = IF exiting[b] THEN [op |-> "finished"] ELSE Nothing]
        /\ UNCHANGED pushed
  /\ source_is_server' = [source_is_server EXCEPT ![b] = TRUE]
  /\ UNCHANGED <<folder, events, commKeeps>>

\* The file is removed or written; a delete without a name is one of the folder
\* itself, which fails unless it is empty.
Perform(b) ==
  LET c == comm[b] IN
    \/ c.file \in File /\ c.op = "delete" /\ Unlink(b, c.file, "server")
    \/ c.file \in File /\ c.op = "upload" /\ Write(b, c.file, c.holds, "server")
    \/ c.file \notin File /\ UNCHANGED <<folder, events>>

\* Mutation: the file to change is named by the Instruction.
CarryOut_Names(b) ==
  /\ comm[b].op \in {"delete", "upload"}
  /\ filename' = [filename EXCEPT ![b] = comm[b].file]
  /\ Perform(b)
  /\ comm' = [comm EXCEPT ![b] = IF exiting[b] THEN [op |-> "finished"] ELSE Nothing]
  /\ UNCHANGED <<source_is_server, pushed, batch, path, at, hand, exiting, line, session, closed, store,
                 served, past>>

CarryOut(b) ==
  /\ comm[b].op \in {"delete", "upload"}
  /\ Perform(b)
  /\ comm' = [comm EXCEPT ![b] = IF exiting[b] THEN [op |-> "finished"] ELSE Nothing]
  /\ UNCHANGED <<source_is_server, pushed, commKeeps>>

CommStep(b) == ReceiveCommand(b) \/ CarryOut(b)

-----------------------------------------------------------------------------
(***************************************************************************)
(* The server's session threads.                                           *)
(***************************************************************************)
\* The next command of the client; nothing is read of a closed socket.
ReadCommand(b, t) ==
  /\ session[b][t] = Nothing
  /\ written[b][t] # <<>>
  /\ Head(written[b][t]) # Garbled
  /\ ~closed[b]
  /\ session' = [session EXCEPT ![b][t] = Head(written[b][t])]
  /\ written' = [written EXCEPT ![b][t] = Tail(@)]
  /\ UNCHANGED <<box, ahead, astray, closed, store, pushed, served, past>>

\* uploadFileCommand and deleteFileCommand change the file, ...
Store(b, t) ==
  /\ session[b][t].op \in {"upload", "delete"}
  /\ session[b][t].op = "upload" => session[b][t].file # "none"
  /\ LET c == session[b][t] IN
       /\ store' = IF c.file \in File THEN [store EXCEPT ![c.file] = c.of.holds] ELSE store
       /\ served' = served \cup ({c.file} \cap File)
       /\ session' = [session EXCEPT ![b][t] = [op |-> "notify", send |-> c.op, file |-> c.file,
                                                holds |-> c.of.holds]]
  /\ UNCHANGED <<box, line, closed, pushed, past>>

\* Mutation: a delete is not passed on.
Receivers_OfUploads(b, c) == {d \in Box \ {b} : ~closed[d] /\ c.send = "upload"}

\* Mutation: the device that sent the command gets it back.
Receivers_All(b, c) == {d \in Box : ~closed[d]}

\* ... then, with mutex_user_structure, send it to the user's other devices.
Receivers(b, c) == {d \in Box \ {b} : ~closed[d]}

PassOn(b, c) ==
  pushed' = [d \in Box |->
    IF d \in Receivers(b, c)
      THEN Append(pushed[d], [op |-> c.send, file |-> c.file, holds |-> c.holds])
      ELSE pushed[d]]

Notify(b, t) ==
  /\ session[b][t].op = "notify"
  /\ PassOn(b, session[b][t])
  /\ session' = [session EXCEPT ![b][t] = Nothing]
  /\ UNCHANGED <<box, line, closed, store, served, past>>

\* Bytes that are read as something else: contents as part of a name or as a command,
\* a command as contents.  The thread waits for more of them, or it stores a file under
\* a name that nobody gave, and passes it on.
Misread(b, t) ==
  /\ session[b][t] = Nothing
  /\ written[b][t] # <<>>
  /\ Head(written[b][t]) = Garbled
  /\ UNCHANGED pushed \/ PassOn(b, [send |-> "upload", file |-> "none", holds |-> Outside])
  /\ written' = [written EXCEPT ![b][t] = Tail(@)]
  /\ UNCHANGED <<box, ahead, astray, session, closed, store, served, past>>

\* Mutation: the sockets stay open.
Exit_LeavesOpen(b) ==
  /\ session[b]["console"].op = "exit"
  /\ session' = [session EXCEPT ![b]["console"] = Nothing]
  /\ UNCHANGED <<box, line, closed, store, pushed, served, past>>

\* exitCommand closes the box's three sockets.
Exit(b) ==
  /\ session[b]["console"].op = "exit"
  /\ closed' = [closed EXCEPT ![b] = TRUE]
  /\ session' = [session EXCEPT ![b]["console"] = Nothing]
  /\ UNCHANGED <<box, line, store, pushed, served, past>>

\* Mutation: only T1 gets a terminal thread.
SessionStep_ConsoleOnly(b) ==
  ReadCommand(b, "console") \/ Store(b, "console") \/ Notify(b, "console") \/ Exit(b)

SessionStep(b) ==
  \/ \E t \in Thread : ReadCommand(b, t) \/ Misread(b, t) \/ Store(b, t) \/ Notify(b, t)
  \/ Exit(b)

-----------------------------------------------------------------------------
Next ==
  \E b \in Box :
    \/ \E f \in File : UserChanges(b, f)
    \/ Type(b) \/ ConsoleStep(b) \/ InotifyStep(b) \/ CommStep(b) \/ SessionStep(b)
    \/ \E t \in Thread : Answered(b, t)

Spec == Init /\ [][Next]_vars

\* Threads run while they can; users need not do anything, and a session thread that
\* is astray need not answer.
Fairness ==
  \A b \in Box :
    /\ WF_vars(ConsoleStep(b))
    /\ WF_vars(InotifyStep(b))
    /\ WF_vars(CommStep(b))
    /\ WF_vars(SessionStep(b))

FairSpec == Spec /\ Fairness

-----------------------------------------------------------------------------
(***************************************************************************)
(* Properties.                                                             *)
(***************************************************************************)
Contents == 0 .. Older
Hand     == [file : Name, holds : Contents]
Push     == [op : {"upload", "delete"}, file : Name, holds : Contents]
Event    == [kind : {"written", "gone"}, file : File, by : {"user", "server"}]
Change   == [op : {"upload", "delete"}, file : Name, of : Hand]
Command  == {Nothing, [op |-> "exit"]}
              \cup Change
              \cup [op : {"notify"}, send : {"upload", "delete"}, file : Name, holds : Contents]
Place(t) == {"idle", "open", "send", "delete", "stuck", "finished"} \cup
              (IF t = "console" THEN {"name", "download", "exit"} ELSE {"examine", "path"})

\* Types: and contents are in a thread's hand only from opening a file to
\* sending it.
TypeOK ==
  /\ folder \in [Box -> [File -> Contents]] /\ store \in [File -> Contents]
  /\ source_is_server \in [Box -> BOOLEAN]
  /\ filename \in [Box -> Name] /\ path \in [Box -> {"none", "sync_dir", "outside"}]
  /\ exiting \in [Box -> BOOLEAN] /\ closed \in [Box -> BOOLEAN]
  /\ acts \in 0 .. MaxActs /\ typed \subseteq Box
  /\ writers \in [File -> SUBSET Box] /\ skipped \subseteq File /\ echoed \subseteq File
  /\ unnamed \in BOOLEAN /\ served \subseteq File /\ astray \subseteq Box \X Thread
  /\ events \in [Box -> Seq(Event)] /\ batch \in [Box -> Seq(Event)]
  /\ pushed \in [Box -> Seq(Push)]
  /\ comm \in [Box -> Push \cup {Nothing, [op |-> "finished"]}]
  /\ at \in [Box -> [Thread -> Place("console") \cup Place("inotify")]]
  /\ hand \in [Box -> [Thread -> Hand]]
  /\ session \in [Box -> [Thread -> Command]]
  /\ written \in [Box -> [Thread -> Seq(Change \cup {Garbled, [op |-> "exit"]})]]
  /\ ahead \in [Box -> [Thread -> 0 .. MaxAhead]]
  /\ \A b \in Box, t \in Thread :
       /\ at[b][t] \in Place(t)
       /\ at[b][t] \notin {"send", "finished"} => hand[b][t] = Empty

\* Nothing is under way, and no box has been told to exit.
Quiet ==
  \A b \in Box :
    /\ events[b] = <<>> /\ pushed[b] = <<>> /\ comm[b] = Nothing
    /\ \A t \in Thread : at[b][t] = "idle" /\ written[b][t] = <<>> /\ session[b][t] = Nothing

NothingTyped == typed = {}
NoneAstray   == astray = {}

\* When all is quiet, a file that one user changed while the boxes were connected
\* is the same in every folder and on the server, whatever was there before, unless
\* instruction_source_is_server was wrong about one of its events, one way (skipped)
\* or the other (echoed), a console changed the server behind the folder
\* (Box.cpp:194, Box.cpp:249), or the name and contents of an upload that ran ahead
\* were read as one (Client.cpp:106, Server.cpp:918).
Converges ==
  Quiet /\ NothingTyped /\ NoneAstray =>
    \A f \in File \ (skipped \cup echoed) :
      Cardinality(writers[f]) = 1 => \A b \in Box : folder[b][f] = store[f]

\* The boxes where a line was typed or a connection is out of step.
Disturbed == typed \cup {b \in Box : \E t \in Thread : <<b, t>> \in astray}

\* As long as a box's connections are in step, a file's contents go to the server
\* under another name only after a line was typed at the same box: the console is
\* the only other writer of the Instruction (Box.cpp:204, Instruction.cpp:96).
MisnamedOnlyWhenTyped ==
  \A b \in Box, t \in Thread :
    session[b][t].op = "upload" /\ session[b][t].file # session[b][t].of.file => b \in Disturbed

\* A command for a file comes to a box only when another box's user changed the
\* file, or an echo or a console did, or a connection was out of step: the server
\* never returns a box its own change (Server.cpp:938).
PushedByOthers ==
  NothingTyped /\ NoneAstray =>
    \A b \in Box : \A i \in DOMAIN pushed[b] :
      LET f == pushed[b][i].file IN writers[f] \ {b} # {} \/ f \in echoed

(***************************************************************************)
(* What Converges, MisnamedOnlyWhenTyped and PushedByOthers rest on.  All  *)
(* but the types ends for a box when a connection of it goes astray.       *)
(***************************************************************************)
Working == {"path", "open", "send", "delete"}
Changing == {"upload", "delete"}

\* A delete carries no contents.
DeletesBare ==
  /\ \A b \in Box, t \in Thread :
       LET c == session[b][t] IN
         /\ c.op = "delete" => c.of = Empty
         /\ c.op = "notify" /\ c.send = "delete" => c.holds = 0
  /\ \A b \in Box, t \in Thread : \A i \in DOMAIN written[b][t] :
       written[b][t][i].op = "delete" => written[b][t][i].of = Empty
  /\ \A b \in Box : comm[b].op = "delete" => comm[b].holds = 0
  /\ \A b \in Box : \A i \in DOMAIN pushed[b] : pushed[b][i].op = "delete" => pushed[b][i].holds = 0

\* A batch is examined to its end, and an event is there while it is dealt with.
BatchesExamined ==
  \A b \in Box :
    /\ at[b]["inotify"] = "idle" => batch[b] = <<>>
    /\ at[b]["inotify"] = "path" => batch[b] # <<>>

\* Why a box may send a change of f, and why one comes to it.
Known(b, f)    == b \in writers[f] \/ f \in echoed
ByOthers(b, f) == writers[f] \ {b} # {} \/ f \in echoed

\* A command that is b's inotify thread's.
Own(b, c) ==
  /\ c.op \in Changing \cup {"notify"} => c.file \in File /\ Known(b, c.file)
  /\ c.op = "upload" => c.file = c.of.file

\* Where no line was typed and the connections are in step, the inotify thread has
\* the Instruction for itself, and the server has not closed the sockets.
Undisturbed(b) ==
  /\ ~closed[b] /\ ~exiting[b] /\ at[b]["console"] = "idle" /\ session[b]["console"] = Nothing
  /\ written[b]["console"] = <<>>
  /\ at[b]["inotify"] \notin {"stuck", "finished"}
  /\ at[b]["inotify"] \in Working => filename[b] \in File /\ Known(b, filename[b])
  /\ at[b]["inotify"] = "path" => filename[b] = batch[b][1].file
  /\ at[b]["inotify"] = "open" => path[b] = "sync_dir"
  /\ at[b]["inotify"] = "send" => hand[b]["inotify"].file = filename[b]
  /\ Own(b, session[b]["inotify"])
  /\ LET q == written[b]["inotify"] IN \A i \in DOMAIN q : q[i].op \in Changing /\ Own(b, q[i])

\* Whose the events are, ...
UserEvents ==
  \A b \in Box : \A q \in {events[b], batch[b]} : \A i \in DOMAIN q :
    q[i].by = "user" => b \in writers[q[i].file]

\* ... and whose the commands of the server.
Arrivals(b) ==
  /\ \A q \in {events[b], batch[b]} : \A i \in DOMAIN q :
       q[i].by = "server" => ByOthers(b, q[i].file)
  /\ \A i \in DOMAIN pushed[b] : pushed[b][i].file \in File /\ ByOthers(b, pushed[b][i].file)
  /\ comm[b].op \in Changing => comm[b].file \in File /\ ByOthers(b, comm[b].file)

\* The last entry about f in a queue.
LastOf(q, f, i)  == i \in DOMAIN q /\ q[i].file = f /\ \A j \in DOMAIN q : q[j].file = f => j <= i
Mentions(q, f)   == \E i \in DOMAIN q : q[i].file = f

Tells(q, f, holds) == \A i \in DOMAIN q : LastOf(q, f, i) => (q[i].kind = "gone" <=> holds = 0)

\* Without a command on its way, the session thread or the server has what the folder
\* holds.
Arrived(w, f) ==
  LET c == session[w]["inotify"] IN
    IF c.op \in Changing /\ c.file = f
      THEN folder[w][f] = c.of.holds
      ELSE folder[w][f] = store[f] /\ f \in served

\* When no event about f is left, the inotify thread is about to read or has read
\* what the folder holds; else it is in the last command written, or has arrived.
Reached(w, f) ==
  LET place == at[w]["inotify"]
      q     == written[w]["inotify"]
  IN IF filename[w] = f /\ place \in {"open", "delete", "send"}
       THEN /\ place = "open" => folder[w][f] # 0
            /\ place = "delete" => folder[w][f] = 0
            /\ place = "send" => hand[w]["inotify"].holds = folder[w][f]
       ELSE /\ \A i \in DOMAIN q : LastOf(q, f, i) => q[i].of.holds = folder[w][f]
            /\ ~Mentions(q, f) => Arrived(w, f)

\* The changes of f at w are on their way: the last event tells whether the file
\* is there, and the contents follow.
Underway(w, f) ==
  /\ Tells(events[w], f, folder[w][f])
  /\ ~Mentions(events[w], f) => Tells(batch[w], f, folder[w][f])
  /\ ~Mentions(events[w], f) /\ ~Mentions(batch[w], f) => Reached(w, f)

\* d has f as it is in v, or will when it has carried out what was written to it.
Receiving(d, f, v) ==
  /\ \A i \in DOMAIN pushed[d] : LastOf(pushed[d], f, i) => pushed[d][i].holds = v
  /\ ~Mentions(pushed[d], f) =>
       v = IF comm[d].op \in Changing /\ comm[d].file = f THEN comm[d].holds ELSE folder[d][f]

\* What the server holds of f is on its way to d, or there, except while w's
\* session thread has not passed it on.
Told(w, d, f) ==
  LET c == session[w]["inotify"] IN
    IF c.op = "notify" /\ c.file = f THEN c.holds = store[f] ELSE Receiving(d, f, store[f])

\* What the server has changed somebody has: a user, or an echo.
ServedKnown == \A f \in served : writers[f] # {} \/ f \in echoed

Settling ==
  \A f \in File \ (skipped \cup echoed), w \in Box :
    writers[f] = {w} =>
      /\ Underway(w, f)
      /\ f \in served => \A d \in Box \ {w} : Told(w, d, f)

Invariant ==
  /\ TypeOK /\ DeletesBare /\ BatchesExamined
  /\ \A b \in Box \ Disturbed : Undisturbed(b)
  /\ UserEvents
  /\ NothingTyped /\ NoneAstray =>
       (\A b \in Box : Arrivals(b)) /\ ServedKnown /\ Settling

\* A propagation that has begun comes to its end: boxes and session threads do
\* not wait for each other for ever, except one box for its own session thread
\* when a line typed at it emptied the name on its way (Instruction.cpp:89, 117).
\* A delete without a name may remove an empty folder, and a thread that is astray
\* may wait for ever or end the server: nothing is said after these.
PropagationEnds ==
  \A b \in Box, t \in Thread :
    at[b][t] \notin {"idle", "finished"} ~>
      \/ at[b][t] \in {"idle", "finished"} \/ (at[b][t] = "stuck" /\ b \in typed)
      \/ unnamed \/ ~NoneAstray

\* "exit" ends all threads of the box, with the same exceptions; the one that reads
\* the server's commands is woken by the server closing the sockets (Box.cpp:246,
\* Server.cpp:1107).
ThreadsFinish ==
  \A b \in Box :
    exiting[b] ~>
      \/ at[b]["console"] = "finished" /\ comm[b].op = "finished"
         /\ at[b]["inotify"] \in {"finished", "stuck"}
      \/ unnamed \/ ~NoneAstray

\* "apenas propaga se fonte do evento foi o usuário, e não propagação do server"
\* (Box.cpp:194): so after the users' last change the commands cease, where only
\* folders are changed and the connections are in step.
PropagationsCease ==
  [](NothingTyped /\ NoneAstray) =>
    <>[](\A b \in Box : events[b] = <<>> /\ pushed[b] = <<>>)
=============================================================================
