------------------------------ MODULE Transfer ------------------------------
(***************************************************************************)
(* One connection between a client and its session thread: the commands    *)
(* UPLOAD, DOWNLOAD, DELETE, LIST_SERVER and EXIT as Client.cpp and        *)
(* Server.cpp talk about them, read by read and write by write.            *)
(*                                                                         *)
(* A stream keeps no trace of who wrote what with which write, and both    *)
(* sides wait for an acknowledgement with one read of up to eight bytes    *)
(* whose contents they never look at.  So toClient is a sequence of bytes, *)
(* and a read may return what one, two or more writes brought.  Towards    *)
(* the server a token stands for the bytes of one write, or of the         *)
(* four-byte writes of a command or a payload; the two reads there that    *)
(* may take more than a token are modelled, all others take exactly it.    *)
(*                                                                         *)
(* A side that reads something else than what the other one meant is       *)
(* "lost": from there on file contents are taken for commands, names and   *)
(* lengths.  What the two say to each other then is not followed any more; *)
(* what the session thread may do to the directory is the action Astray.   *)
(* The copies to other devices and to the backup servers are modules       *)
(* Sessions and Replication.                                               *)
(***************************************************************************)
EXTENDS Integers, Sequences, FiniteSets

CONSTANTS
  File,         \* file names
  OtherName,    \* a name that no command gives
  MaxCommands   \* bound: commands of one user

ASSUME TransferAssumption == MaxCommands \in Nat /\ OtherName \notin File

VARIABLES
  said,      \* the commands given so far: history, and the client's current one
  client,    \* what the client waits for
  toServer,  \* tokens written by the client and not read yet
  toClient,  \* bytes written by the server and not read yet
  server,    \* where the session thread is
  serving,   \* the command it carries out
  got,       \* what it knows of the upload: whose size and name it has read, 0 for none
  files,     \* what each file holds: the number of the upload, 0 for no file
  strange,   \* names under which a lost session thread has put, or removed, something
  applied    \* history: how many commands are carried out

vars == <<said, client, toServer, toClient, server, serving, got, files, strange, applied>>

\* upload_file, download_file, ..., in the words of Instruction.cpp.
Op == {"upload", "download", "delete", "list", "exit"}

Current == Len(said)                     \* the client's command
Token(kind) == [kind |-> kind, of |-> Current]
Bytes(kind, n) == [i \in 1 .. n |-> [kind |-> kind, ends |-> i = n]]


\* Mutation: an ack longer than what waitForSocketAck reads.
Ack_Long == Bytes("ack", 9)

\* "ack" without its zero.
Ack == Bytes("ack", 3)

\* The eight bytes of the length.
Length(n) == Bytes(IF said[n].empty THEN "zero" ELSE "length", 8)

\* Mutation: no answer for a missing file.
Missing_Silent == <<>>

\* malloc(sizeof("ndown")), never filled.
Missing == Bytes("garbage", 6)

\* One BUFFER_SIZE for all sizes but 0.
Payload == Bytes("data", 4)

InStep == client # "lost" /\ server # "lost"

Store == INSTANCE FileStore WITH broken <- ~InStep

Gone   == client = "killed"
EndOfStream == Gone /\ toServer = <<>>

Init ==
  /\ said = <<>>
  /\ client = "ready"
  /\ toServer = <<>>
  /\ toClient = <<>>
  /\ server = "idle"
  /\ serving = 0
  /\ got = [size |-> 0, name |-> 0]
  /\ files = [f \in File |-> 0]
  /\ strange = {}
  /\ applied = 0

-----------------------------------------------------------------------------
(***************************************************************************)
(* The client.                                                             *)
(***************************************************************************)
clientSees == <<server, serving, got, files, applied>>

Send(tokens) == toServer' = toServer \o tokens

\* What one read of at most cap bytes may return: the writes that have
\* arrived, or the first cap bytes of them.
ReadSome(cap) ==
  {IF i < cap THEN i ELSE cap : i \in {j \in DOMAIN toClient : toClient[j].ends}}

Take(n) == toClient' = SubSeq(toClient, n + 1, Len(toClient))

\* waitForSocketAck: whatever is there.
WaitForSocketAck == \E n \in ReadSome(8) : Take(n)

\* The user, or the inotify thread, has the next command for this connection.
Say ==
  /\ client = "ready"
  /\ Current < MaxCommands
  /\ \E c \in Store!Command :
       /\ c.empty => c.op = "upload"
       /\ said' = Append(said, c)
       /\ Send(<<[kind |-> "command", of |-> Current + 1]>>)
  /\ client' = "command"
  /\ UNCHANGED toClient

\* deleteFile and list_server are over with the ack, and so is sendExitCommand;
\* sendFile and downloadFile go on.
CommandAcked ==
  /\ client = "command"
  /\ WaitForSocketAck
  /\ \/ /\ said[Current].op \in {"delete", "list"}
        /\ client' = "ready"
        /\ UNCHANGED toServer
     \/ /\ said[Current].op = "exit"
        /\ client' = "closed"
        /\ UNCHANGED toServer
     \/ /\ said[Current].op = "upload"
        /\ Send(<<Token("type")>>)
        /\ client' = "type"
     \/ /\ said[Current].op = "download"
        /\ client' = "length"
        /\ UNCHANGED toServer
  /\ UNCHANGED said

\* Mutation: the payload follows the name at once.
SendFilePacket_NoWait ==
  /\ WaitForSocketAck
  /\ \/ client = "type" /\ Send(<<Token("size")>>) /\ client' = "size"
     \/ client = "size" /\ Send(<<Token("name"), Token("payload")>>) /\ client' = "ready"
  /\ UNCHANGED said

\* sendFilePacket: type, size and name, each acknowledged, then the payload,
\* whose ack is left in the stream.
SendFilePacket ==
  /\ WaitForSocketAck
  /\ \/ client = "type" /\ Send(<<Token("size")>>) /\ client' = "size"
     \/ client = "size" /\ Send(<<Token("name")>>) /\ client' = "name"
     \/ /\ client = "name"
        /\ Send(IF said[Current].empty THEN <<>> ELSE <<Token("payload")>>)
        /\ client' = "ready"
  /\ UNCHANGED said

\* downloadFile reads the length.  Eight bytes that are not the length, or
\* fewer than eight, are any number: not positive, and the client reports that
\* there is no such file; or positive, and it waits for a payload nobody sends.
ReadLength ==
  /\ client = "length"
  /\ \E n \in ReadSome(8) :
       LET read == SubSeq(toClient, 1, n) IN
         /\ Take(n)
         /\ \/ /\ read = Bytes("length", 8)
               /\ Send(<<Token("ack")>>)
               /\ client' = "payload"
            \/ /\ read = Bytes("zero", 8)
               /\ client' = "ready"
               /\ UNCHANGED toServer
            \/ /\ read \notin {Bytes("length", 8), Bytes("zero", 8)}
               /\ client' \in {"ready", "lost"}
               /\ UNCHANGED toServer
  /\ UNCHANGED said

ReadPayload ==
  /\ client = "payload"
  /\ toClient # <<>>
  /\ Take(4)
  /\ Send(<<Token("ack")>>)
  /\ client' = "ready"
  /\ UNCHANGED said

\* The client's process dies; what it wrote still arrives.
Kill ==
  /\ client \notin {"closed", "killed"}
  /\ client' = "killed"
  /\ UNCHANGED <<said, toServer, toClient>>

ClientStep ==
  /\ InStep
  /\ CommandAcked \/ SendFilePacket \/ ReadLength \/ ReadPayload
  /\ UNCHANGED clientSees
  /\ UNCHANGED strange

-----------------------------------------------------------------------------
(***************************************************************************)
(* The session thread.                                                     *)
(***************************************************************************)
serverSees == <<said, client>>

\* A write to the closed connection of a dead client fails, or ends the
\* process with SIGPIPE.
Write(bytes, next) ==
  \/ ~Gone /\ toClient' = toClient \o bytes /\ server' = next
  \/ Gone /\ UNCHANGED toClient /\ server' \in {next, "crashed"}

\* A read that returns exactly one token of this kind.
Read(kind) == toServer # <<>> /\ Head(toServer).kind = kind /\ toServer' = Tail(toServer)

\* readDataFromSocket: nothing at the end of the stream.
ReadData(kind) == Read(kind) \/ (EndOfStream /\ UNCHANGED toServer)

\* Mutation: a short read is taken for a whole command.
ShortRead_Again == EndOfStream /\ UNCHANGED <<toServer, toClient, server, serving, got, files, applied>>

\* readLargePayloadFromSocket: a short read ends the thread.
ShortRead ==
  /\ EndOfStream
  /\ server' = "ended"
  /\ UNCHANGED <<toServer, toClient, serving, got, files, applied>>

\* Mutation: there is no case DELETE.
Case_NoDelete(op) == IF op = "delete" THEN "idle" ELSE op

\* The switch of terminalThreadFunction.
Case(op) == op

ReadCommand ==
  /\ server = "idle"
  /\ \/ /\ Read("command")
        /\ serving' = Head(toServer).of
        /\ got' = [size |-> 0, name |-> 0]
        /\ Write(Ack, Case(said[Head(toServer).of].op))
        /\ UNCHANGED <<files, applied>>
     \/ ShortRead

\* A command that needs no more of the client is carried out.
Finish(contents, next) ==
  /\ files' = contents
  /\ applied' = applied + 1
  /\ server' = next
  /\ UNCHANGED <<toServer, toClient, serving, got>>

\* Mutation: the file stays.
DeleteFile_Keeps == server = "delete" /\ Finish(files, "idle")

DeleteFile == server = "delete" /\ Finish([files EXCEPT ![said[serving].file] = 0], "idle")

\* Mutation: the case LIST_SERVER has no break.
ListServer_FallsThrough == server = "list" /\ Finish(files, "exit")

\* listServerCommand prints the directory on the server's own terminal.
ListServer == server = "list" /\ Finish(files, "idle")

Exit == server = "exit" /\ Finish(files, "ended")

\* uploadFileCommand.  On a closed connection the reads of type, size and name
\* return nothing and the function goes on.
ReadType ==
  /\ server = "upload"
  /\ ReadData("type")
  /\ Write(Ack, "size")
  /\ UNCHANGED <<serving, got, files, applied>>

ReadSize ==
  /\ server = "size"
  /\ \/ Read("size") /\ got' = [got EXCEPT !.size = Head(toServer).of]
     \/ EndOfStream /\ UNCHANGED <<toServer, got>>
  /\ Write(Ack, "name")
  /\ UNCHANGED <<serving, files, applied>>

ReadName ==
  /\ server = "name"
  /\ \/ Read("name") /\ got' = [got EXCEPT !.name = Head(toServer).of]
     \/ EndOfStream /\ UNCHANGED <<toServer, got>>
  /\ Write(Ack, "payload")
  /\ UNCHANGED <<serving, files, applied>>

\* The size is 0, or was never read and is 0 by chance: no payload is read.
\* Any other number there means a buffer on the stack that may be too large.
NoPayload == IF got.size = 0 THEN EndOfStream ELSE said[got.size].empty

\* The whole payload is read and acknowledged before the file is opened; a name
\* that was never read is the user's directory, which cannot be opened.
ReadFile ==
  /\ server = "payload"
  /\ \/ /\ \/ NoPayload /\ UNCHANGED toServer
           \/ got.size # 0 /\ ~NoPayload /\ Read("payload")
        /\ Write(Ack, "idle")
        /\ IF server' = "idle" /\ got.name # 0
             THEN /\ files' = [files EXCEPT ![said[got.name].file] = got.size]
                  /\ applied' = applied + 1
             ELSE UNCHANGED <<files, applied>>
        /\ UNCHANGED <<serving, got>>
     \/ (got.size = 0 \/ ~NoPayload) /\ ShortRead
     \/ /\ got.size = 0 /\ EndOfStream
        /\ server' = "crashed"
        /\ UNCHANGED <<toServer, toClient, serving, got, files, applied>>

\* downloadFileCommand: the length, or six bytes of fresh memory.
SendLength ==
  /\ server = "download"
  /\ applied' = applied + 1
  /\ LET n == files[said[serving].file] IN
       IF n = 0 THEN Write(Missing, "idle") ELSE Write(Length(n), "lengthAck")
  /\ UNCHANGED <<toServer, serving, got, files>>

\* The session thread's waitForSocketAck takes up to eight bytes as well.
SendPayload ==
  /\ server = "lengthAck"
  /\ ReadData("ack")
  /\ Write(IF said[files[said[serving].file]].empty THEN <<>> ELSE Payload, "payloadAck")
  /\ UNCHANGED <<serving, got, files, applied>>

PayloadAcked ==
  /\ server = "payloadAck"
  /\ ReadData("ack")
  /\ server' = "idle"
  /\ UNCHANGED <<toClient, serving, got, files, applied>>

\* What the read at this place is for.
Expected ==
  [idle |-> "command", upload |-> "type", size |-> "size", name |-> "name",
   payload |-> "payload", lengthAck |-> "ack", payloadAck |-> "ack"]

\* A read that returns bytes of something else, or, where the buffer is larger
\* than the token, more than it (readDataFromSocket of the name: 100 bytes;
\* waitForSocketAck: 8).
LoseStep ==
  /\ server \in DOMAIN Expected
  /\ ~(server = "payload" /\ NoPayload)
  /\ toServer # <<>>
  /\ \/ Head(toServer).kind # Expected[server]
     \/ server \in {"name", "lengthAck", "payloadAck"} /\ Len(toServer) > 1
  /\ server' = "lost"
  /\ UNCHANGED <<toServer, toClient, serving, got, files, applied>>

ServerStep ==
  /\ InStep
  /\ \/ ReadCommand \/ DeleteFile \/ ListServer \/ Exit
     \/ ReadType \/ ReadSize \/ ReadName \/ ReadFile
     \/ SendLength \/ SendPayload \/ PayloadAcked
     \/ LoseStep
  /\ UNCHANGED serverSees
  /\ UNCHANGED strange

\* After that the thread goes on with what it has: a name and a payload that were
\* read together are the name of a file, the bytes of the next command its content,
\* and what is left of that command another one, whatever it says.
Astray ==
  /\ ~InStep
  /\ \E name \in File \cup {OtherName} : strange' = strange \cup {name}
  /\ UNCHANGED <<said, client, toServer, toClient, server, serving, got, files, applied>>

-----------------------------------------------------------------------------
UserStep ==
  /\ InStep
  /\ Say \/ Kill
  /\ UNCHANGED clientSees
  /\ UNCHANGED strange

Next == UserStep \/ ClientStep \/ ServerStep \/ Astray
Spec == Init /\ [][Next]_vars

\* The kernel delivers, and both processes run while they can.
Fairness == WF_vars(ClientStep) /\ WF_vars(ServerStep)
FairSpec == Spec /\ Fairness

-----------------------------------------------------------------------------
(***************************************************************************)
(* Properties.                                                             *)
(***************************************************************************)
\* Types: and no command is carried out before it is given, or twice.
TypeOK ==
  /\ said \in Seq(Store!Command) /\ Current <= MaxCommands
  /\ client \in {"ready", "command", "type", "size", "name", "length", "payload",
                 "closed", "killed", "lost"}
  /\ toServer \in Seq([kind : {"command", "type", "size", "name", "payload", "ack"},
                       of   : 1 .. Current])
  /\ toClient \in Seq([kind : {"ack", "zero", "length", "garbage", "data"},
                       ends : BOOLEAN])
  /\ server \in Op \cup {"idle", "size", "name", "payload", "lengthAck", "payloadAck",
                        "ended", "crashed", "lost"}
  /\ serving \in 0 .. Current
  /\ got \in [size : 0 .. Current, name : 0 .. Current]
  /\ files \in [File -> 0 .. Current]
  /\ strange \subseteq File \cup {OtherName}
  /\ applied \in 0 .. Current

\* What the proofs rest on: with it, an inductive invariant.

\* Towards the server tokens arrive in the order of the commands they belong to.
Order ==
  /\ \A i \in DOMAIN toServer :
       toServer[i].of = (IF i = 1 THEN serving ELSE toServer[i - 1].of)
                        + (IF toServer[i].kind = "command" THEN 1 ELSE 0)
  /\ Current = IF toServer = <<>> THEN serving ELSE toServer[Len(toServer)].of

\* The command that is served is carried out next, or was the last to be, unless
\* its client died in the middle of an upload.
Progress ==
  /\ server \in {"idle", "ended"} => applied = serving \/ EndOfStream
  /\ server \in {"lengthAck", "payloadAck"} => applied = serving
  /\ server \in Op \cup {"size", "name", "payload"} => applied + 1 = serving

\* The thread is in the function of its command, and what it knows of an upload is
\* of this one.
InFunction ==
  /\ server \in Op => said[serving].op = server
  /\ server \in {"size", "name", "payload"} => said[serving].op = "upload"
  /\ got.size \in {0, serving} /\ got.name \in {0, serving}
  /\ server \in {"upload", "size"} => got = [size |-> 0, name |-> 0]
  /\ server = "name" => got.name = 0 /\ (got.size = 0 => EndOfStream)
  /\ server = "payload" => (got.size = 0 => got.name = 0) /\ (got.name = 0 => EndOfStream)

\* The client is busy with a command.
Busy == client \notin {"ready", "killed", "lost"} => Current > 0

Commands == TypeOK /\ Order /\ Progress /\ InFunction /\ Busy

Count(op) == Cardinality({n \in 1 .. Current : said[n].op = op})

\* The place of the client fits its command, that of the thread the one it serves.
Roles ==
  /\ client \in {"type", "size", "name"} => said[Current].op = "upload"
  /\ client \in {"length", "payload"} => said[Current].op = "download"
  /\ server \in {"lengthAck", "payloadAck"} => serving > 0 /\ said[serving].op = "download"
  /\ server = "crashed" => Gone

\* No write to the client is longer than eight bytes, and the last one has an end.
Ends(i) == i \in DOMAIN toClient /\ toClient[i].ends
WritesEnd == \A i \in DOMAIN toClient : \E j \in i .. i + 7 : Ends(j)

\* Without downloads: the kind of token that comes after one of a kind for command n,
\* ...
After(kind, n) ==
  CASE kind = "command" -> IF said[n].op = "upload" THEN "type" ELSE "command"
    [] kind = "type"    -> "size"
    [] kind = "size"    -> "name"
    [] kind = "name"    -> IF said[n].empty THEN "command" ELSE "payload"
    [] OTHER            -> "command"

\* ... after those the thread has read, and after those the client has written.
Awaited ==
  IF server \in {"upload", "size", "name"} \/ (server = "payload" /\ ~NoPayload)
    THEN Expected[server] ELSE "command"
Owed == IF client \in {"ready", "closed"} THEN "command" ELSE After(client, Current)

Plain == \A n \in 1 .. Current : said[n].op # "download"

Speech ==
  Plain /\ server \notin {"crashed", "lost"} =>
    /\ \A i \in DOMAIN toServer :
         toServer[i].kind = IF i = 1 THEN Awaited
                            ELSE After(toServer[i - 1].kind, toServer[i - 1].of)
    /\ ~Gone =>
         LET last == Len(toServer) IN
         Owed = IF last = 0 THEN Awaited ELSE After(toServer[last].kind, toServer[last].of)

\* The thread waits for an ack and the client has written something else: it will be
\* lost.
Stuck ==
  /\ server \in {"lengthAck", "payloadAck"}
  /\ toServer # <<>> /\ Head(toServer).kind # "ack"

\* Otherwise the length and the payload of a download are read by the client when
\* nothing else is on its way.
Alone ==
  LET acks == {i \in DOMAIN toServer : toServer[i].kind = "ack"} IN
  CASE server = "lengthAck" ->
         \/ /\ toServer = <<>> /\ client # "payload"
            /\ \A i \in DOMAIN toClient : toClient[i].kind = "length" =>
                 /\ ~said[files[said[serving].file]].empty
                 /\ toClient[i].ends => i = Len(toClient)
         \/ /\ Len(toServer) = 1 /\ client = "payload" /\ toClient = <<>>
            /\ ~said[files[said[serving].file]].empty
    [] server = "payloadAck" ->
         \/ toServer = <<>> /\ client = "payload" /\ toClient = Payload
         \/ acks = {1} /\ client # "payload" /\ toClient = <<>>
    [] OTHER ->
         /\ acks = {} /\ client # "payload"
         /\ \A i \in DOMAIN toClient : toClient[i].kind # "length"

\* The answers to a token, those that are due to all tokens, what the thread will
\* write before it reads the next one, and what the client counts on beyond one
\* answer for each upload.
Replies(t) ==
  IF t.kind = "ack" THEN 0
  ELSE IF (t.kind = "command" /\ said[t.of].op = "download") \/ (t.kind = "name" /\ said[t.of].empty)
    THEN 2 ELSE 1
Due == {x \in (DOMAIN toServer) \X {1, 2} : x[2] <= Replies(toServer[x[1]])}
Pending == IF server = "download" \/ (server = "payload" /\ NoPayload) THEN 1 ELSE 0
Counts ==
  CASE client = "command" -> IF said[Current].op = "upload" THEN 0
                             ELSE IF said[Current].op = "download" THEN 2 ELSE 1
    [] client = "name" -> IF said[Current].empty THEN 1 ELSE 0
    [] client \in {"length", "payload"} -> 1
    [] OTHER -> 0

Balance ==
  Cardinality({i \in DOMAIN toClient : toClient[i].ends}) + Cardinality(Due) + Pending
    <= Count("upload") + Counts

\* The client writes nothing behind the name of a first upload before it is read.
NameLast ==
  Plain /\ Count("upload") <= 1 =>
    \A i \in DOMAIN toServer : toServer[i].kind = "name" => i = Len(toServer)

Answers ==
  /\ Roles /\ WritesEnd /\ Speech
  /\ InStep /\ ~Gone /\ ~Stuck => Alone /\ Balance
  /\ NameLast /\ (Plain /\ Count("upload") <= 1 => InStep)

\* The directory holds what the commands put there.
Clean == InStep => strange = {}

Invariant == Commands /\ Answers /\ Clean

Quiet ==
  /\ InStep
  /\ client \in {"ready", "closed"}
  /\ server \in {"idle", "ended"}
  /\ toServer = <<>>

\* The client runs ahead of the session thread by the acks it took for later
\* ones; still, when nothing is under way, every command has been carried out.
CaughtUp == Quiet => applied = Current

\* Only a download, or a second upload on the same connection, can make one
\* side read what the other did not mean: deletes and lists, before and after
\* one upload, never do (Client.cpp:106, Server.cpp:918).
OutOfStepOnlyAfterTransfer ==
  ~InStep => Count("download") > 0 \/ Count("upload") > 1

\* What is left in the stream when all is quiet is at most one answer for each
\* upload, the ack sendFilePacket does not wait for (Client.cpp:106).
AnswersLeftOver ==
  Quiet => Cardinality({i \in DOMAIN toClient : toClient[i].ends}) <= Count("upload")

\* As long as both sides are in step, whatever acks were read together and whenever
\* the client dies, the directory changes by whole commands, each once and in the
\* order they were given, and they stay in step unless there is a download or a
\* second upload.  Nothing is promised of the directory after that: a name and a
\* payload read together (Server.cpp:918) put the next command into a file nobody
\* named (:930-933).
ImplementsFileStore == Store!Spec

\* Every command ends for the client, however acks are swallowed.
CommandEnds ==
  client \notin {"ready", "closed", "killed"} ~>
    client \in {"ready", "closed", "killed"} \/ ~InStep

\* The session thread of a dead client ends, wherever it was.
ThreadEnds == Gone ~> server \in {"ended", "crashed"} \/ ~InStep

\* "Error: file doesn't exist in server" (Client.cpp:224) is said of files that
\* the server does not have.
ErrorOnlyWhenMissing ==
  [][client = "length" /\ client' = "ready" => files[said[Current].file] = 0]_vars
=============================================================================
