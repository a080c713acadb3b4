--------------------------- MODULE TransferProofs ---------------------------
(***************************************************************************)
(* Theorems about Transfer, for every set of files and every number of     *)
(* commands: types, that every command is carried out when all is quiet,   *)
(* that answers are only left over by uploads and only transfers put the   *)
(* sides out of step, and that the connection implements FileStore.        *)
(***************************************************************************)
EXTENDS Transfer, TLAPS, SequenceTheorems, FiniteSetTheorems

TokenKind == {"command", "type", "size", "name", "payload", "ack"}
TokenSet  == [kind : TokenKind, of : 1 .. Current]
ByteKind  == {"ack", "zero", "length", "garbage", "data"}
ByteSet   == [kind : ByteKind, ends : BOOLEAN]

-----------------------------------------------------------------------------
(* The two streams. *)

\* What the server writes in one write are bytes.
LEMMA BytesType ==
  ASSUME NEW kind \in ByteKind, NEW n \in Nat
  PROVE  Bytes(kind, n) \in Seq(ByteSet)
<1>1. Bytes(kind, n) \in [1 .. n -> ByteSet]
  BY DEF Bytes, ByteSet
<1> QED
  BY <1>1, SeqDef

\* A write leaves bytes for the client, and the thread where it goes on or, the
\* client being dead, nowhere.
LEMMA WriteEffect ==
  ASSUME toClient \in Seq(ByteSet), NEW bytes \in Seq(ByteSet), NEW next, Write(bytes, next)
  PROVE  /\ toClient' \in Seq(ByteSet)
         /\ server' = next \/ (server' = "crashed" /\ Gone)
  BY ConcatProperties DEF Write

\* However many bytes the client takes, bytes are left.
LEMMA TakeType ==
  ASSUME toClient \in Seq(ByteSet), NEW n \in Nat, Take(n)
  PROVE  toClient' \in Seq(ByteSet)
<1>1. Len(toClient) \in Nat
  BY LenProperties
<1>2. \A i \in n + 1 .. Len(toClient) : toClient[i] \in ByteSet
  BY <1>1, ElementOfSeq
<1> QED
  BY <1>1, <1>2, SubSeqProperties DEF Take

LEMMA ReadSomeType ==
  ASSUME toClient \in Seq(ByteSet), NEW cap \in Nat, NEW n \in ReadSome(cap)
  PROVE  n \in Nat
  BY LenProperties DEF ReadSome

LEMMA WaitType ==
  ASSUME toClient \in Seq(ByteSet), WaitForSocketAck
  PROVE  toClient' \in Seq(ByteSet)
  BY ReadSomeType, TakeType DEF WaitForSocketAck

-----------------------------------------------------------------------------
(* What the client and its user change. *)

ClientPlace == {"ready", "command", "type", "size", "name", "length", "payload",
                "closed", "killed", "lost"}

\* A step of the client writes at most one token, of its current command.
LEMMA ClientEffect ==
  ASSUME TypeOK, ClientStep
  PROVE  /\ client \notin {"ready", "killed", "lost"} /\ client' \in ClientPlace
         /\ toServer' = toServer \/ \E kind \in TokenKind \ {"command"} :
                                       toServer' = Append(toServer, Token(kind))
         /\ toClient' \in Seq(ByteSet)
         /\ UNCHANGED <<said, server, serving, got, files, applied>>
<1>1. toClient \in Seq(ByteSet) /\ toServer \in Seq(TokenSet)
  BY DEF TypeOK, ByteSet, ByteKind, TokenSet, TokenKind
<1>2. toServer \o << >> = toServer
  BY <1>1, ConcatEmptySeq
<1>3. \A x : toServer \o <<x>> = Append(toServer, x)
  BY <1>1
<1>4. UNCHANGED <<server, serving, got, files, applied>>
  BY DEF ClientStep, clientSees
<1>5. CASE CommandAcked
  BY <1>1, <1>2, <1>3, <1>4, <1>5, WaitType
     DEF CommandAcked, Send, ClientPlace, TokenKind
<1>6. CASE SendFilePacket
  BY <1>1, <1>2, <1>3, <1>4, <1>6, WaitType
     DEF SendFilePacket, Send, ClientPlace, TokenKind
<1>7. CASE ReadLength
  <2>1. toClient' \in Seq(ByteSet)
    BY <1>1, <1>7, ReadSomeType, TakeType DEF ReadLength
  <2> QED
    BY <2>1, <1>3, <1>4, <1>7 DEF ReadLength, Send, ClientPlace, TokenKind
<1>8. CASE ReadPayload
  BY <1>1, <1>3, <1>4, <1>8, TakeType DEF ReadPayload, Send, ClientPlace, TokenKind
<1> QED
  BY <1>5, <1>6, <1>7, <1>8 DEF ClientStep

\* A command is the last of all and goes to the end of the stream.
LEMMA SayEffect ==
  ASSUME TypeOK, Say
  PROVE  /\ client = "ready" /\ client' = "command" /\ UNCHANGED toClient
         /\ said' \in Seq(Store!Command)
         /\ Current' = Current + 1 /\ Current < MaxCommands
         /\ \A n \in 1 .. Current : said'[n] = said[n]
         /\ toServer' = Append(toServer, [kind |-> "command", of |-> Current'])
<1>1. PICK c \in Store!Command :
        said' = Append(said, c) /\ Send(<<[kind |-> "command", of |-> Current + 1]>>)
  BY DEF Say
<1>2. said \in Seq(Store!Command) /\ Current \in Nat
  BY LenProperties DEF TypeOK, Current
<1>3. Len(said') = Len(said) + 1
  BY <1>1, <1>2, AppendProperties DEF Current
<1>4. toServer \in Seq(TokenSet)
  BY DEF TypeOK, TokenSet, TokenKind
<1>5. toServer' = Append(toServer, [kind |-> "command", of |-> Current + 1])
  BY <1>1, <1>4 DEF Send
<1>6. Current' = Current + 1
  BY <1>3 DEF Current
<1> QED
  BY <1>1, <1>2, <1>3, <1>5, <1>6, AppendProperties DEF Say, Current

-----------------------------------------------------------------------------
(* The order of the tokens. *)

\* A token of the current command at the end of the stream keeps the order, and
\* so does the next command.
LEMMA OrderAppend ==
  ASSUME TypeOK, Order, UNCHANGED serving, Current' \in Nat, NEW kind \in TokenKind,
         toServer' = Append(toServer, [kind |-> kind, of |-> Current']),
         Current' = Current + (IF kind = "command" THEN 1 ELSE 0)
  PROVE  Order'
<1> DEFINE q == toServer
           t == [kind |-> kind, of |-> Current']
<1>1. q \in Seq(TokenSet) /\ Len(q) \in Nat /\ DOMAIN q = 1 .. Len(q) /\ Current \in Nat
  BY LenProperties DEF TypeOK, TokenSet, TokenKind, Current
<1>2. Len(toServer') = Len(q) + 1 /\ DOMAIN toServer' = 1 .. Len(q) + 1
  BY <1>1
<1>3. \A i \in 1 .. Len(q) : toServer'[i] = q[i]
  BY <1>1
<1>4. toServer'[Len(q) + 1] = t /\ toServer' # <<>>
  BY <1>1
<1>5. q = <<>> <=> Len(q) = 0
  BY <1>1, EmptySeq
<1>6. Current' = IF toServer' = <<>> THEN serving' ELSE toServer'[Len(toServer')].of
  BY <1>2, <1>4
<1>7. ASSUME NEW i \in DOMAIN toServer'
      PROVE  toServer'[i].of = (IF i = 1 THEN serving' ELSE toServer'[i - 1].of)
                               + (IF toServer'[i].kind = "command" THEN 1 ELSE 0)
  <2>1. CASE i \in 1 .. Len(q)
    <3>1. i # 1 => i - 1 \in 1 .. Len(q)
      BY <1>1, <2>1
    <3> QED
      BY <1>1, <1>3, <2>1, <3>1 DEF Order
  <2>2. CASE i = Len(q) + 1
    <3>1. Current = IF i = 1 THEN serving ELSE q[i - 1].of
      BY <1>1, <1>5, <2>2 DEF Order
    <3>2. i # 1 => i - 1 \in 1 .. Len(q)
      BY <1>1, <2>2
    <3>3. i # 1 => toServer'[i - 1] = q[i - 1]
      BY <1>3, <3>2
    <3>4. toServer'[i].of = Current' /\ toServer'[i].kind = kind
      BY <1>4, <2>2
    <3>5. Current = IF i = 1 THEN serving' ELSE toServer'[i - 1].of
      BY <3>1, <3>3
    <3> QED
      BY <3>4, <3>5
  <2> QED
    BY <1>1, <1>2, <1>7, <2>1, <2>2
<1> QED
  BY <1>6, <1>7 DEF Order

\* What the thread reads belongs to the command it serves, or is the next one.
LEMMA ReadEffect ==
  ASSUME TypeOK, Order, NEW kind, Read(kind), UNCHANGED said
  PROVE  /\ toServer' \in Seq(TokenSet) /\ toServer # <<>>
         /\ Head(toServer).of = serving + (IF kind = "command" THEN 1 ELSE 0)
         /\ Head(toServer).of \in 1 .. Current
         /\ serving' = Head(toServer).of => Order'
<1> DEFINE q == toServer
<1>1. q \in Seq(TokenSet) /\ Len(q) \in Nat /\ DOMAIN q = 1 .. Len(q) /\ Current \in Nat
  BY LenProperties DEF TypeOK, TokenSet, TokenKind, Current
<1>2. q # <<>> /\ Head(q) = q[1] /\ Len(q) >= 1 /\ 1 \in 1 .. Len(q)
  BY <1>1 DEF Read
<1>3. q[1].of = serving + (IF kind = "command" THEN 1 ELSE 0) /\ q[1].of \in 1 .. Current
  <2>1. q[1].of = serving + (IF q[1].kind = "command" THEN 1 ELSE 0)
    BY <1>1, <1>2 DEF Order
  <2>2. q[1] \in TokenSet
    BY <1>1, <1>2, ElementOfSeq
  <2> QED
    BY <1>2, <2>1, <2>2 DEF Read, TokenSet
<1>4. toServer' = Tail(q) /\ toServer' \in Seq(TokenSet) /\ Len(toServer') = Len(q) - 1
      /\ DOMAIN toServer' = 1 .. Len(q) - 1
  BY <1>1, <1>2, HeadTailProperties, LenProperties DEF Read
<1>5. \A i \in 1 .. Len(q) - 1 : toServer'[i] = q[i + 1]
  BY <1>1, <1>2, <1>4
<1>6. Current' = Current
  BY DEF Current
<1>7. ASSUME serving' = q[1].of PROVE Order'
  <2>1. ASSUME NEW i \in DOMAIN toServer'
        PROVE  toServer'[i].of = (IF i = 1 THEN serving' ELSE toServer'[i - 1].of)
                                 + (IF toServer'[i].kind = "command" THEN 1 ELSE 0)
    <3>1. i + 1 \in 1 .. Len(q) /\ i + 1 # 1 /\ (i + 1) - 1 = i /\ i \in 1 .. Len(q)
      BY <1>1, <1>4, <2>1
    <3>2. q[i + 1].of = q[i].of + (IF q[i + 1].kind = "command" THEN 1 ELSE 0)
      BY <1>1, <3>1 DEF Order
    <3>3. i # 1 => i - 1 \in 1 .. Len(q) - 1 /\ (i - 1) + 1 = i
      BY <1>1, <1>4, <2>1
    <3> QED
      BY <1>4, <1>5, <1>7, <2>1, <3>2, <3>3
  <2>2. Current' = IF toServer' = <<>> THEN serving' ELSE toServer'[Len(toServer')].of
    <3>1. Current = q[Len(q)].of
      BY <1>2 DEF Order
    <3>2. toServer' = <<>> <=> Len(q) = 1
      <4>1. toServer' = <<>> <=> Len(toServer') = 0
        BY <1>4, EmptySeq
      <4> QED
        BY <1>1, <1>4, <4>1
    <3>3. Len(q) # 1 => Len(q) - 1 \in 1 .. Len(q) - 1 /\ (Len(q) - 1) + 1 = Len(q)
      BY <1>1, <1>2
    <3> QED
      BY <1>4, <1>5, <1>6, <1>7, <3>1, <3>2, <3>3
  <2> QED
    BY <2>1, <2>2 DEF Order
<1> QED
  BY <1>2, <1>3, <1>4, <1>7

LEMMA OrderStutter ==
  ASSUME Order, UNCHANGED <<said, toServer, serving>>
  PROVE  Order'
  BY DEF Order, Current

-----------------------------------------------------------------------------
(* Commands holds at first, and the client and its user keep it. *)

LEMMA InitCommands == Init => Commands
<1> SUFFICES ASSUME Init PROVE Commands
  OBVIOUS
<1>1. Current = 0 /\ said \in Seq(Store!Command) /\ DOMAIN toServer = {} /\ strange = {}
  BY EmptySeq DEF Init, Current
<1>2. TypeOK
  BY <1>1, EmptySeq, TransferAssumption DEF Init, TypeOK, Current
<1>3. Order /\ Progress /\ InFunction /\ Busy
  BY <1>1 DEF Init, Order, Progress, InFunction, Busy, Op
<1> QED
  BY <1>2, <1>3 DEF Commands

\* The end of the stream is the end: only the thread moves on, and it stays there.
LEMMA NoStreamNoClient ==
  ASSUME EndOfStream, TypeOK
  PROVE  ~Say /\ ~ClientStep /\ ~Kill
  BY ClientEffect DEF EndOfStream, Gone, Say, Kill

LEMMA ClientKeepsCommands ==
  ASSUME Commands, ClientStep
  PROVE  Commands'
<1>1. TypeOK /\ Order /\ Progress /\ InFunction /\ Busy
  BY DEF Commands
<1>2. PICK kind \in TokenKind \ {"command"} :
        toServer' = toServer \/ toServer' = Append(toServer, Token(kind))
  BY <1>1, ClientEffect DEF TokenKind
<1>3. /\ client' \in ClientPlace /\ toClient' \in Seq(ByteSet)
      /\ UNCHANGED <<said, server, serving, got, files, applied>>
  BY <1>1, ClientEffect
<1>4. Current' = Current /\ Current \in Nat
  BY <1>1, <1>3, LenProperties DEF Current, TypeOK
<1>5. Order'
  BY <1>1, <1>2, <1>3, <1>4, OrderStutter, OrderAppend DEF Token
<1>6. Progress' /\ InFunction' /\ Busy'
  BY <1>1, <1>3, <1>4, ClientEffect, NoStreamNoClient DEF Progress, InFunction, Busy
<1>7. toServer' \in Seq([kind : TokenKind, of : 1 .. Current'])
  <2>1. CASE toServer' = toServer
    BY <1>1, <1>4, <2>1 DEF TypeOK, TokenKind
  <2>2. CASE toServer' = Append(toServer, Token(kind))
    <3>1. toServer' # <<>> /\ Len(toServer') \in 1 .. Len(toServer')
          /\ toServer'[Len(toServer')] = Token(kind)
          /\ toServer \in Seq(TokenSet) /\ Len(toServer) \in Nat
      BY <1>1, <2>2, LenProperties, AppendProperties DEF TypeOK, TokenSet, TokenKind
    <3>2. Current \in 1 .. Current
      BY <1>1, <1>4, ClientEffect DEF Busy
    <3> QED
      BY <1>4, <2>2, <3>1, <3>2, AppendProperties DEF Token, TokenSet
  <2> QED
    BY <1>2, <2>1, <2>2
<1>8. TypeOK'
  <2>1. strange' = strange
    BY DEF ClientStep
  <2> QED
    BY <1>1, <1>3, <1>4, <1>7, <2>1
       DEF TypeOK, ClientPlace, ByteSet, ByteKind, TokenKind, Current
<1> QED
  BY <1>5, <1>6, <1>8 DEF Commands

LEMMA SayKeepsCommands ==
  ASSUME Commands, Say, UNCHANGED clientSees, UNCHANGED strange
  PROVE  Commands'
<1>1. TypeOK /\ Order /\ Progress /\ InFunction /\ Busy
  BY DEF Commands
<1>2. /\ client' = "command" /\ UNCHANGED toClient
      /\ said' \in Seq(Store!Command)
      /\ Current' = Current + 1 /\ Current < MaxCommands
      /\ \A n \in 1 .. Current : said'[n] = said[n]
      /\ toServer' = Append(toServer, [kind |-> "command", of |-> Current'])
  BY <1>1, SayEffect
<1>3. Current \in Nat /\ UNCHANGED <<server, serving, got, files, applied>>
  BY <1>1, LenProperties DEF Current, TypeOK, clientSees
<1>4. Order'
  BY <1>1, <1>2, <1>3, OrderAppend DEF TokenKind
<1>5. Progress' /\ Busy'
  BY <1>1, <1>2, <1>3, NoStreamNoClient DEF Progress, Busy
<1>6. InFunction'
  <2>1. ~EndOfStream
    BY <1>1, NoStreamNoClient
  <2>2. server \in Op \cup {"size", "name", "payload"} => serving \in 1 .. Current
    BY <1>1, <1>3 DEF Progress, TypeOK
  <2> QED
    BY <1>1, <1>2, <1>3, <2>1, <2>2 DEF InFunction
<1>7. toServer' \in Seq([kind : TokenKind, of : 1 .. Current'])
  <2>1. TokenSet \subseteq [kind : TokenKind, of : 1 .. Current']
    BY <1>2, <1>3 DEF TokenSet
  <2>2. toServer \in Seq(TokenSet)
    BY <1>1 DEF TypeOK, TokenSet, TokenKind
  <2>3. toServer \in [1 .. Len(toServer) -> [kind : TokenKind, of : 1 .. Current']]
    BY <2>1, <2>2, LenProperties, ElementOfSeq
  <2>4. toServer \in Seq([kind : TokenKind, of : 1 .. Current'])
    <3>1. PICK n \in Nat : n = Len(toServer)
      BY <2>2, LenProperties
    <3>2. toServer \in [1 .. n -> [kind : TokenKind, of : 1 .. Current']]
      BY <2>3, <3>1
    <3> QED
      BY <3>2, SeqDef
  <2> QED
    BY <1>2, <1>3, <2>4, AppendProperties DEF TokenKind
<1>8. TypeOK'
  <2>1. /\ serving' \in 0 .. Current' /\ applied' \in 0 .. Current'
        /\ got' \in [size : 0 .. Current', name : 0 .. Current']
        /\ files' \in [File -> 0 .. Current']
    BY <1>1, <1>2, <1>3 DEF TypeOK
  <2>2. Current' <= MaxCommands
    BY <1>2, <1>3, TransferAssumption
  <2>3. toClient' \in Seq([kind : {"ack", "zero", "length", "garbage", "data"},
                           ends : BOOLEAN])
    BY <1>1, <1>2 DEF TypeOK
  <2>4. server' = server
    BY <1>3
  <2> QED
    BY <1>1, <1>2, <1>7, <2>1, <2>2, <2>3, <2>4 DEF TypeOK, TokenKind
<1> QED
  BY <1>4, <1>5, <1>6, <1>8 DEF Commands

LEMMA KillKeepsCommands ==
  ASSUME Commands, Kill, UNCHANGED clientSees, UNCHANGED strange
  PROVE  Commands'
<1>1. TypeOK /\ Order /\ Progress /\ InFunction /\ Busy
  BY DEF Commands
<1>2. /\ client' = "killed"
      /\ UNCHANGED <<said, toServer, toClient, server, serving, got, files, applied>>
  BY DEF Kill, clientSees
<1>3. EndOfStream => EndOfStream'
  BY <1>2 DEF EndOfStream, Gone
<1>4. TypeOK' /\ Order'
  BY <1>1, <1>2, OrderStutter DEF TypeOK, Current
<1>5. Progress' /\ InFunction' /\ Busy'
  BY <1>1, <1>2, <1>3 DEF Progress, InFunction, Busy
<1> QED
  BY <1>4, <1>5 DEF Commands

-----------------------------------------------------------------------------
(* The session thread keeps it. *)

\* The facts about the types that the steps of the thread need.
LEMMA TypeFacts ==
  ASSUME TypeOK
  PROVE  /\ Current \in Nat
         /\ toClient \in Seq(ByteSet) /\ toServer \in Seq(TokenSet)
         /\ said \in Seq(Store!Command)
         /\ \A n \in 1 .. Current : said[n] \in Store!Command
         /\ serving \in 0 .. Current /\ applied \in 0 .. Current
         /\ got \in [size : 0 .. Current, name : 0 .. Current]
         /\ files \in [File -> 0 .. Current]
<1>1. said \in Seq(Store!Command) /\ Current \in Nat
  BY LenProperties DEF TypeOK, Current
<1>2. \A n \in 1 .. Current : said[n] \in Store!Command
  BY <1>1, ElementOfSeq DEF Current
<1> QED
  BY <1>1, <1>2 DEF TypeOK, ByteSet, ByteKind, TokenSet, TokenKind

Place == Op \cup {"idle", "size", "name", "payload", "lengthAck", "payloadAck",
                  "ended", "crashed", "lost"}

\* The types after a step of the thread, from those of the variables it changes.
LEMMA ServerTypes ==
  ASSUME TypeOK, UNCHANGED serverSees, UNCHANGED strange,
         toClient' \in Seq(ByteSet), toServer' \in Seq(TokenSet), server' \in Place,
         serving' \in 0 .. Current, applied' \in 0 .. Current,
         got' \in [size : 0 .. Current, name : 0 .. Current],
         files' \in [File -> 0 .. Current]
  PROVE  TypeOK'
<1>1. Current' = Current /\ said' = said /\ client' = client
  BY DEF serverSees, Current
<1> QED
  BY <1>1 DEF TypeOK, ByteSet, ByteKind, TokenSet, TokenKind, Place

\* A step that reads nothing, or reads what belongs to the command it serves.
LEMMA ReadDataEffect ==
  ASSUME TypeOK, Order, NEW kind, kind # "command", ReadData(kind),
         UNCHANGED <<said, serving>>
  PROVE  /\ Order' /\ toServer' \in Seq(TokenSet)
         /\ \/ Read(kind) /\ Head(toServer).of = serving
            \/ EndOfStream /\ UNCHANGED toServer
<1>1. CASE Read(kind)
  BY <1>1, ReadEffect, TypeFacts
<1>2. CASE EndOfStream /\ UNCHANGED toServer
  BY <1>2, OrderStutter, TypeFacts
<1> QED
  BY <1>1, <1>2 DEF ReadData

LEMMA BytesWritten ==
  /\ Ack \in Seq(ByteSet) /\ Missing \in Seq(ByteSet) /\ Payload \in Seq(ByteSet)
  /\ <<>> \in Seq(ByteSet)
  /\ \A n : Length(n) \in Seq(ByteSet)
BY BytesType, EmptySeq DEF Ack, Missing, Payload, Length, ByteKind

LEMMA ServerKeepsCommands ==
  ASSUME Commands, ServerStep
  PROVE  Commands'
<1>1. TypeOK /\ Order /\ Progress /\ InFunction /\ Busy
  BY DEF Commands
<1>2. /\ UNCHANGED <<said, client>> /\ UNCHANGED serverSees /\ Current' = Current /\ Busy'
      /\ UNCHANGED strange
  BY <1>1 DEF ServerStep, serverSees, Busy, Current
<1>3. EndOfStream => (UNCHANGED toServer => EndOfStream')
  BY <1>2 DEF EndOfStream, Gone
<1>4. \A kind : EndOfStream => ~Read(kind)
  BY DEF EndOfStream, Read
<1> USE <1>1, <1>2, <1>3, <1>4, TypeFacts
<1>5. ASSUME ShortRead, server = "idle" \/ server = "payload" PROVE Commands'
  <2>1. Progress' /\ InFunction'
    BY <1>5 DEF ShortRead, Progress, InFunction, Op
  <2>2. TypeOK'
    BY <1>5, ServerTypes DEF ShortRead, Place
  <2> QED
    BY <1>5, <2>1, <2>2, OrderStutter DEF ShortRead, Commands
<1>6. ASSUME NEW contents \in [File -> 0 .. Current], NEW next \in {"idle", "ended"},
             server \in Op, Finish(contents, next)
      PROVE  Commands'
  <2>1. Progress' /\ InFunction' /\ applied' = serving
    BY <1>6 DEF Finish, Progress, InFunction, Op
  <2>2. TypeOK'
    BY <1>6, <2>1, ServerTypes DEF Finish, Place
  <2> QED
    BY <1>6, <2>1, <2>2, OrderStutter DEF Finish, Commands
<1>7. CASE ReadCommand
  <2>1. CASE ShortRead
    BY <1>5, <1>7, <2>1 DEF ReadCommand
  <2>2. CASE ~ShortRead
    <3>1. /\ server = "idle" /\ Read("command") /\ serving' = Head(toServer).of
          /\ got' = [size |-> 0, name |-> 0]
          /\ Write(Ack, said[serving'].op)
          /\ UNCHANGED <<files, applied>>
      BY <1>7, <2>2 DEF ReadCommand, Case
    <3>2. /\ Order' /\ toServer' \in Seq(TokenSet)
          /\ serving' = serving + 1 /\ serving' \in 1 .. Current
      BY <3>1, ReadEffect
    <3>3. toClient' \in Seq(ByteSet) /\ server' \in {said[serving'].op, "crashed"}
      BY <3>1, WriteEffect, BytesWritten
    <3>4. said[serving'].op \in Op
      BY <3>2 DEF Store!Command, Op
    <3>5. applied = serving
      BY <3>1 DEF Progress
    <3>6. Progress' /\ InFunction'
      BY <3>1, <3>2, <3>3, <3>4, <3>5 DEF Progress, InFunction, Op
    <3>7. TypeOK'
      <4>1. server' \in Place /\ serving' \in 0 .. Current
        BY <3>2, <3>3, <3>4 DEF Place
      <4>2. applied' \in 0 .. Current /\ files' \in [File -> 0 .. Current]
        BY <3>1 DEF TypeOK
      <4>3. got' \in [size : 0 .. Current, name : 0 .. Current]
        BY <3>1, <3>2
      <4> QED
        BY <3>2, <3>3, <4>1, <4>2, <4>3, ServerTypes
    <3> QED
      BY <3>2, <3>6, <3>7 DEF Commands
  <2> QED
    BY <2>1, <2>2
<1>8. CASE DeleteFile
  <2>1. [files EXCEPT ![said[serving].file] = 0] \in [File -> 0 .. Current]
    <3>1. files \in [File -> 0 .. Current] /\ 0 \in 0 .. Current
      BY <1>1, TypeFacts
    <3> QED
      BY <3>1
  <2> QED
    BY <1>6, <1>8, <2>1 DEF DeleteFile, Op
<1>9. CASE ListServer
  BY <1>6, <1>9 DEF ListServer, Op
<1>10. CASE Exit
  BY <1>6, <1>10 DEF Exit, Op
<1>11. CASE ReadType
  <2>1. Order' /\ toServer' \in Seq(TokenSet)
    BY <1>11, ReadDataEffect DEF ReadType
  <2>2. toClient' \in Seq(ByteSet) /\ server' \in {"size", "crashed"}
    BY <1>11, WriteEffect, BytesWritten DEF ReadType
  <2>3. Progress' /\ InFunction'
    BY <1>11, <2>2 DEF ReadType, Progress, InFunction, Op
  <2>4. TypeOK'
    BY <1>11, <2>1, <2>2, ServerTypes DEF ReadType, Place
  <2> QED
    BY <2>1, <2>3, <2>4 DEF Commands
<1>12. CASE ReadSize
  <2>1. /\ server = "size" /\ ReadData("size") /\ UNCHANGED <<serving, files, applied>>
        /\ \/ Read("size") /\ got' = [got EXCEPT !.size = Head(toServer).of]
           \/ EndOfStream /\ UNCHANGED <<toServer, got>>
    BY <1>12 DEF ReadSize, ReadData
  <2>2. /\ Order' /\ toServer' \in Seq(TokenSet)
        /\ Read("size") => Head(toServer).of = serving
    BY <2>1, ReadDataEffect
  <2>3. toClient' \in Seq(ByteSet) /\ server' \in {"name", "crashed"}
    BY <1>12, WriteEffect, BytesWritten DEF ReadSize
  <2>4. applied + 1 = serving /\ got = [size |-> 0, name |-> 0]
        /\ said[serving].op = "upload"
    BY <2>1 DEF Progress, InFunction
  <2>5. Progress' /\ InFunction'
    BY <2>1, <2>2, <2>3, <2>4 DEF Progress, InFunction, Op
  <2>6. TypeOK'
    BY <2>1, <2>2, <2>3, <2>4, ServerTypes DEF Place
  <2> QED
    BY <2>2, <2>5, <2>6 DEF Commands
<1>13. CASE ReadName
  <2>1. /\ server = "name" /\ ReadData("name") /\ UNCHANGED <<serving, files, applied>>
        /\ \/ Read("name") /\ got' = [got EXCEPT !.name = Head(toServer).of]
           \/ EndOfStream /\ UNCHANGED <<toServer, got>>
    BY <1>13 DEF ReadName, ReadData
  <2>2. /\ Order' /\ toServer' \in Seq(TokenSet)
        /\ Read("name") => Head(toServer).of = serving
    BY <2>1, ReadDataEffect
  <2>3. toClient' \in Seq(ByteSet) /\ server' \in {"payload", "crashed"}
    BY <1>13, WriteEffect, BytesWritten DEF ReadName
  <2>4. /\ applied + 1 = serving /\ said[serving].op = "upload"
        /\ got.name = 0 /\ got.size \in {0, serving} /\ (got.size = 0 => EndOfStream)
    BY <2>1 DEF Progress, InFunction
  <2>5. Progress' /\ InFunction'
    BY <2>1, <2>2, <2>3, <2>4 DEF Progress, InFunction, Op
  <2>6. TypeOK'
    BY <2>1, <2>2, <2>3, <2>4, ServerTypes DEF Place
  <2> QED
    BY <2>2, <2>5, <2>6 DEF Commands
<1>14. CASE ReadFile
  <2>1. CASE ShortRead
    BY <1>5, <1>14, <2>1 DEF ReadFile
  <2>2. CASE server' = "crashed" /\ UNCHANGED <<toServer, toClient, serving, got, files, applied>>
    <3>1. Progress' /\ InFunction'
      BY <2>2 DEF Progress, InFunction, Op
    <3>2. TypeOK'
      BY <2>2, ServerTypes DEF Place
    <3> QED
      BY <2>2, <3>1, <3>2, OrderStutter DEF Commands
  <2>3. CASE ~ShortRead /\ ~(server' = "crashed"
                            /\ UNCHANGED <<toServer, toClient, serving, got, files, applied>>)
    <3>1. /\ server = "payload" /\ UNCHANGED <<serving, got>>
          /\ UNCHANGED toServer \/ Read("payload")
          /\ Write(Ack, "idle")
          /\ IF server' = "idle" /\ got.name # 0
               THEN /\ files' = [files EXCEPT ![said[got.name].file] = got.size]
                    /\ applied' = applied + 1
               ELSE UNCHANGED <<files, applied>>
      BY <1>14, <2>3 DEF ReadFile
    <3>2. Order' /\ toServer' \in Seq(TokenSet)
      BY <3>1, ReadDataEffect, OrderStutter DEF ReadData
    <3>3. toClient' \in Seq(ByteSet) /\ server' \in {"idle", "crashed"}
      BY <3>1, WriteEffect, BytesWritten
    <3>4. applied + 1 = serving /\ (got.name = 0 => EndOfStream)
      BY <3>1 DEF Progress, InFunction
    <3>5. EndOfStream => EndOfStream'
      BY <3>1
    <3>6. Progress' /\ InFunction'
      BY <3>1, <3>3, <3>4, <3>5 DEF Progress, InFunction, Op
    <3>7. files' \in [File -> 0 .. Current] /\ applied' \in 0 .. Current
      BY <3>1, <3>4
    <3>8. TypeOK'
      BY <3>1, <3>2, <3>3, <3>7, ServerTypes DEF Place
    <3> QED
      BY <3>2, <3>6, <3>8 DEF Commands
  <2> QED
    BY <2>1, <2>2, <2>3
<1>15. CASE SendLength
  <2>1. /\ server = "download" /\ applied' = applied + 1
        /\ UNCHANGED <<toServer, serving, got, files>>
    BY <1>15 DEF SendLength
  <2>2. toClient' \in Seq(ByteSet) /\ server' \in {"idle", "lengthAck", "crashed"}
    BY <1>15, WriteEffect, BytesWritten DEF SendLength
  <2>3. applied' = serving
    BY <2>1 DEF Progress, Op
  <2>4. Progress' /\ InFunction'
    BY <2>1, <2>2, <2>3 DEF Progress, InFunction, Op
  <2>5. TypeOK'
    BY <2>1, <2>2, <2>3, ServerTypes DEF Place
  <2> QED
    BY <2>1, <2>4, <2>5, OrderStutter DEF Commands
<1>16. CASE SendPayload
  <2>1. Order' /\ toServer' \in Seq(TokenSet)
    BY <1>16, ReadDataEffect DEF SendPayload
  <2>2. toClient' \in Seq(ByteSet) /\ server' \in {"payloadAck", "crashed"}
    BY <1>16, WriteEffect, BytesWritten DEF SendPayload
  <2>3. Progress' /\ InFunction'
    BY <1>16, <2>2 DEF SendPayload, Progress, InFunction, Op
  <2>4. TypeOK'
    BY <1>16, <2>1, <2>2, ServerTypes DEF SendPayload, Place
  <2> QED
    BY <2>1, <2>3, <2>4 DEF Commands
<1>17. CASE PayloadAcked
  <2>1. Order' /\ toServer' \in Seq(TokenSet)
    BY <1>17, ReadDataEffect DEF PayloadAcked
  <2>2. Progress' /\ InFunction'
    BY <1>17 DEF PayloadAcked, Progress, InFunction, Op
  <2>3. TypeOK'
    BY <1>17, <2>1, ServerTypes DEF PayloadAcked, Place
  <2> QED
    BY <2>1, <2>2, <2>3 DEF Commands
<1>18. CASE LoseStep
  <2>1. Progress' /\ InFunction'
    BY <1>18 DEF LoseStep, Progress, InFunction, Op
  <2>2. TypeOK'
    BY <1>18, ServerTypes DEF LoseStep, Place
  <2> QED
    BY <1>18, <2>1, <2>2, OrderStutter DEF LoseStep, Commands
<1> QED
  BY <1>7, <1>8, <1>9, <1>10, <1>11, <1>12, <1>13, <1>14, <1>15, <1>16, <1>17, <1>18
     DEF ServerStep

\* All but what a lost thread does to the directory.
spoken == <<said, client, toServer, toClient, server, serving, got, files, applied>>

LEMMA CommandsKept == Commands /\ [Next]_vars => Commands'
<1> SUFFICES ASSUME Commands, [Next]_vars PROVE Commands'
  OBVIOUS
<1>1. CASE UserStep \/ ClientStep \/ ServerStep
  BY <1>1, ClientKeepsCommands, SayKeepsCommands, KillKeepsCommands, ServerKeepsCommands
     DEF UserStep
<1>2. CASE Astray \/ UNCHANGED vars
  <2>1. UNCHANGED spoken /\ strange' \subseteq strange \cup File \cup {OtherName}
    BY <1>2 DEF Astray, vars, spoken
  <2>2. TypeOK' /\ Order'
    BY <2>1, OrderStutter DEF spoken, Commands, TypeOK, Current
  <2>3. Progress' /\ InFunction' /\ Busy'
    BY <2>1 DEF spoken, Commands, Progress, InFunction, Busy, Current, EndOfStream, Gone
  <2> QED
    BY <2>2, <2>3 DEF Commands
<1> QED
  BY <1>1, <1>2 DEF Next

-----------------------------------------------------------------------------
(* Counting the writes that have not been read. *)

EndsOf(q) == {i \in DOMAIN q : q[i].ends}
Ended(q)  == \A i \in DOMAIN q : \E j \in i .. i + 7 : j \in DOMAIN q /\ q[j].ends

\* The rest of q without its first n.
RestOf(q, n, r) ==
  /\ n \in 0 .. Len(q) /\ Len(r) = Len(q) - n
  /\ \A i \in 1 .. Len(r) : r[i] = q[i + n]

LEMMA SeqFacts ==
  ASSUME NEW S, NEW q \in Seq(S)
  PROVE  /\ Len(q) \in Nat /\ DOMAIN q = 1 .. Len(q)
         /\ \A i \in DOMAIN q : q[i] \in S
         /\ q = <<>> <=> Len(q) = 0
  BY ElementOfSeq, LenProperties, EmptySeq

\* One of two finite sets can be shifted into the other.
LEMMA ShiftedSmaller ==
  ASSUME NEW S, NEW T, IsFiniteSet(T), NEW f \in [S -> T],
         \A x, y \in S : f[x] = f[y] => x = y
  PROVE  IsFiniteSet(S) /\ Cardinality(S) <= Cardinality(T)
<1>1. f \in Injection(S, T)
  BY DEF Injection, IsInjective
<1> QED
  BY <1>1, FS_Injection

LEMMA EndsFinite ==
  ASSUME NEW S, NEW q \in Seq(S)
  PROVE  IsFiniteSet(EndsOf(q)) /\ Cardinality(EndsOf(q)) \in Nat
<1>0. Len(q) \in Nat /\ DOMAIN q = 1 .. Len(q)
  BY SeqFacts
<1>1. IsFiniteSet(1 .. Len(q))
  BY <1>0, FS_Interval
<1>2. IsFiniteSet(EndsOf(q))
  BY <1>0, <1>1, FS_Subset DEF EndsOf
<1> QED
  BY <1>2, FS_CardinalityType

\* What is read takes ends away.
LEMMA EndsTaken ==
  ASSUME NEW S, NEW q \in Seq(S), NEW r \in Seq(S), NEW n, RestOf(q, n, r),
         NEW j \in 1 .. n, q[j].ends
  PROVE  Cardinality(EndsOf(r)) + 1 <= Cardinality(EndsOf(q))
<1> DEFINE T == EndsOf(q) \ {j}
           f == [i \in EndsOf(r) |-> i + n]
<1>1. /\ Len(q) \in Nat /\ Len(r) \in Nat /\ n \in Nat /\ DOMAIN q = 1 .. Len(q)
      /\ DOMAIN r = 1 .. Len(r) /\ n <= Len(q) /\ Len(r) = Len(q) - n
  BY SeqFacts DEF RestOf
<1>2. j \in EndsOf(q)
  BY <1>1 DEF EndsOf
<1>3. IsFiniteSet(T) /\ Cardinality(T) = Cardinality(EndsOf(q)) - 1
  BY <1>2, EndsFinite, FS_RemoveElement
<1>4. ASSUME NEW i \in EndsOf(r)
      PROVE  i + n \in T /\ i \in Nat
  <2>1. i \in 1 .. Len(r) /\ r[i].ends /\ r[i] = q[i + n]
    BY <1>1 DEF EndsOf, RestOf
  <2>2. i + n \in 1 .. Len(q) /\ i + n # j
    BY <1>1, <2>1
  <2> QED
    BY <1>1, <2>1, <2>2 DEF EndsOf
<1>5. f \in [EndsOf(r) -> T]
  BY <1>4
<1>6. \A x, y \in EndsOf(r) : f[x] = f[y] => x = y
  BY <1>1, <1>4
<1> HIDE DEF T, f
<1>7. Cardinality(EndsOf(r)) <= Cardinality(T)
  BY <1>3, <1>5, <1>6, ShiftedSmaller
<1> QED
  BY <1>3, <1>7, EndsFinite

LEMMA EndedRest ==
  ASSUME NEW S, NEW q \in Seq(S), NEW r \in Seq(S), NEW n, RestOf(q, n, r), Ended(q)
  PROVE  Ended(r)
<1>1. /\ Len(q) \in Nat /\ Len(r) \in Nat /\ n \in Nat /\ DOMAIN q = 1 .. Len(q)
      /\ DOMAIN r = 1 .. Len(r) /\ n <= Len(q) /\ Len(r) = Len(q) - n
  BY SeqFacts DEF RestOf
<1>2. ASSUME NEW i \in 1 .. Len(r)
      PROVE  \E j \in i .. i + 7 : j \in 1 .. Len(r) /\ r[j].ends
  <2>1. i + n \in DOMAIN q
    BY <1>1
  <2>2. PICK k \in (i + n) .. (i + n) + 7 : k \in 1 .. Len(q) /\ q[k].ends
    BY <1>1, <2>1 DEF Ended
  <2>3. k - n \in i .. i + 7 /\ k - n \in 1 .. Len(r) /\ (k - n) + n = k
    BY <1>1, <2>2
  <2> QED
    BY <2>2, <2>3 DEF RestOf
<1> QED
  BY <1>1, <1>2 DEF Ended

\* What one write brings: at most eight bytes, the last of which ends it.
OneWrite(b) == b \in Seq(ByteSet) /\ Len(b) \in 1 .. 8 /\ EndsOf(b) = {Len(b)}

LEMMA BytesAreOneWrite ==
  ASSUME NEW kind \in ByteKind, NEW n \in 1 .. 8
  PROVE  /\ OneWrite(Bytes(kind, n)) /\ Len(Bytes(kind, n)) = n
         /\ \A i \in 1 .. n : Bytes(kind, n)[i].kind = kind
<1> DEFINE b == Bytes(kind, n)
<1>1. b \in Seq(ByteSet) /\ Len(b) = n /\ DOMAIN b = 1 .. n
  <2>1. b = [i \in 1 .. n |-> [kind |-> kind, ends |-> i = n]] /\ n \in Nat
    BY DEF Bytes
  <2>2. b \in Seq(ByteSet)
    BY <2>1, BytesType
  <2> QED
    BY <2>1, <2>2, LenProperties
<1>2. \A i \in 1 .. n : b[i] = [kind |-> kind, ends |-> i = n]
  BY DEF Bytes
<1> HIDE DEF b
<1>3. EndsOf(b) = {n}
  <2>1. EndsOf(b) = {i \in 1 .. n : b[i].ends}
    BY <1>1 DEF EndsOf
  <2>2. ASSUME NEW i \in 1 .. n PROVE b[i].ends <=> i = n
    <3>1. CASE i = n
      <4>1. b[i] = [kind |-> kind, ends |-> TRUE]
        BY <1>2, <3>1
      <4> QED
        BY <3>1, <4>1
    <3>2. CASE i # n
      <4>1. b[i] = [kind |-> kind, ends |-> FALSE]
        BY <1>2, <3>2
      <4> QED
        BY <3>2, <4>1
    <3> QED
      BY <3>1, <3>2
  <2>3. n \in 1 .. n
    OBVIOUS
  <2> QED
    BY <2>1, <2>2, <2>3
<1> QED
  BY <1>1, <1>2, <1>3 DEF OneWrite, b

\* A write adds one end behind all others.
LEMMA EndsWritten ==
  ASSUME NEW q \in Seq(ByteSet), NEW b, OneWrite(b), NEW r, r = q \o b
  PROVE  /\ Cardinality(EndsOf(r)) = Cardinality(EndsOf(q)) + 1
         /\ Ended(q) => Ended(r)
         /\ r \in Seq(ByteSet) /\ Len(r) = Len(q) + Len(b)
         /\ \A i \in 1 .. Len(q) : r[i] = q[i]
         /\ \A i \in 1 .. Len(b) : r[Len(q) + i] = b[i]
<1>1. /\ Len(q) \in Nat /\ DOMAIN q = 1 .. Len(q) /\ Len(b) \in 1 .. 8 /\ DOMAIN b = 1 .. Len(b)
      /\ b \in Seq(ByteSet)
  BY SeqFacts DEF OneWrite
<1>2. /\ r \in Seq(ByteSet) /\ Len(r) = Len(q) + Len(b) /\ DOMAIN r = 1 .. Len(q) + Len(b)
      /\ \A i \in 1 .. Len(q) : r[i] = q[i]
      /\ \A i \in 1 .. Len(b) : r[Len(q) + i] = b[i]
  BY <1>1, ConcatProperties
<1>3. \A i \in 1 .. Len(b) : b[i].ends <=> i = Len(b)
  BY <1>1 DEF OneWrite, EndsOf
<1>4. \A i \in 1 .. Len(q) + Len(b) : i \in 1 .. Len(q) \/ (i - Len(q) \in 1 .. Len(b) /\ Len(q) + (i - Len(q)) = i)
  BY <1>1
<1>5. EndsOf(r) = EndsOf(q) \cup {Len(r)}
  <2>0. /\ EndsOf(r) = {i \in 1 .. Len(q) + Len(b) : r[i].ends}
        /\ EndsOf(q) = {i \in 1 .. Len(q) : q[i].ends}
    BY <1>1, <1>2 DEF EndsOf
  <2>1. ASSUME NEW i \in EndsOf(r) PROVE i \in EndsOf(q) \cup {Len(r)}
    <3>1. i \in 1 .. Len(q) + Len(b) /\ r[i].ends
      BY <2>0
    <3>2. CASE i \in 1 .. Len(q)
      BY <1>2, <2>0, <3>1, <3>2
    <3>3. CASE i - Len(q) \in 1 .. Len(b) /\ Len(q) + (i - Len(q)) = i
      <4>1. i - Len(q) = Len(b)
        BY <1>2, <1>3, <3>1, <3>3
      <4> QED
        BY <1>2, <3>3, <4>1
    <3> QED
      BY <1>4, <3>1, <3>2, <3>3
  <2>2. ASSUME NEW i \in EndsOf(q) PROVE i \in EndsOf(r)
    <3>1. i \in 1 .. Len(q) /\ q[i].ends /\ i \in 1 .. Len(q) + Len(b)
      BY <1>1, <2>0
    <3> QED
      BY <1>2, <2>0, <3>1
  <2>3. Len(r) \in EndsOf(r)
    <3>1. Len(b) \in 1 .. Len(b) /\ Len(q) + Len(b) \in 1 .. Len(q) + Len(b)
      BY <1>1
    <3> QED
      BY <1>2, <1>3, <2>0, <3>1
  <2> QED
    BY <2>1, <2>2, <2>3
<1>6. Len(r) \notin EndsOf(q) /\ IsFiniteSet(EndsOf(q))
  <2>1. Len(r) \notin 1 .. Len(q)
    BY SMTT(20), <1>1, <1>2
  <2> QED
    BY <1>1, <2>1, EndsFinite DEF EndsOf
<1>7. Cardinality(EndsOf(r)) = Cardinality(EndsOf(q)) + 1
  BY <1>5, <1>6, FS_AddElement
<1>8. ASSUME Ended(q) PROVE Ended(r)
  <2>1. ASSUME NEW i \in 1 .. Len(q)
        PROVE  \E j \in i .. i + 7 : j \in DOMAIN r /\ r[j].ends
    <3>1. PICK j \in i .. i + 7 : j \in DOMAIN q /\ q[j].ends
      BY <1>1, <1>8 DEF Ended
    <3> QED
      BY <1>1, <1>2, <3>1
  <2>2. ASSUME NEW i \in 1 .. Len(b)
        PROVE  \E j \in Len(q) + i .. (Len(q) + i) + 7 : j \in DOMAIN r /\ r[j].ends
    <3>1. Len(r) \in Len(q) + i .. (Len(q) + i) + 7 /\ Len(r) \in DOMAIN r
      <4>0. PICK m \in 1 .. 8 : m = Len(b)
        BY <1>1
      <4>3. i \in 1 .. m
        BY <4>0
      <4>1. i <= Len(b) /\ Len(b) <= i + 7 /\ Len(b) \in Nat /\ i \in Nat
        <5>1. i <= m /\ m <= i + 7 /\ m \in Nat /\ i \in Nat
          BY ONLY <4>3, m \in 1 .. 8
        <5> QED
          BY <4>0, <5>1
      <4>2. Len(q) + Len(b) \in 1 .. Len(q) + Len(b)
        BY <1>1
      <4> QED
        BY <1>1, <1>2, <4>1, <4>2
    <3>2. r[Len(r)].ends
      <4>1. Len(b) \in 1 .. Len(b)
        BY <1>1
      <4> QED
        BY <1>2, <1>3, <4>1
    <3> QED
      BY <3>1, <3>2
  <2>3. ASSUME NEW i \in DOMAIN r
        PROVE  \E j \in i .. i + 7 : j \in DOMAIN r /\ r[j].ends
    <3>1. CASE i \in 1 .. Len(q)
      BY <2>1, <3>1
    <3>2. CASE i - Len(q) \in 1 .. Len(b) /\ Len(q) + (i - Len(q)) = i
      BY <2>2, <3>2
    <3> QED
      BY <1>2, <1>4, <3>1, <3>2
  <2> QED
    BY <2>3 DEF Ended
<1> QED
  BY <1>2, <1>7, <1>8

\* A read leaves the rest.
LEMMA TakeRest ==
  ASSUME toClient \in Seq(ByteSet), NEW n \in Nat, Take(n)
  PROVE  /\ toClient' \in Seq(ByteSet)
         /\ n <= Len(toClient) => RestOf(toClient, n, toClient')
         /\ n > Len(toClient) => toClient' = <<>>
<1> DEFINE q == toClient
<1>1. toClient' = SubSeq(q, n + 1, Len(q)) /\ toClient' \in Seq(ByteSet)
  BY TakeType DEF Take
<1>2. PICK m \in Nat : m = Len(q)
  BY SeqFacts
<1>3. /\ n + 1 \in Nat /\ m \in Nat /\ DOMAIN q = 1 .. m
      /\ \A k \in n + 1 .. m : q[k] \in ByteSet
  BY <1>2, SeqFacts
<1>4. /\ Len(toClient') = IF n + 1 <= m THEN m - (n + 1) + 1 ELSE 0
      /\ \A k \in 1 .. m - (n + 1) + 1 : toClient'[k] = q[(n + 1) + k - 1]
  BY <1>1, <1>2, <1>3, SubSeqProperties
<1>5. ASSUME n <= m PROVE RestOf(q, n, toClient')
  <2>1. n \in 0 .. m /\ m - (n + 1) + 1 = m - n /\ (n + 1 <= m \/ m - n = 0)
    BY <1>2, <1>5
  <2>2. Len(toClient') = m - n
    BY <1>4, <2>1
  <2>3. ASSUME NEW k \in 1 .. m - n PROVE toClient'[k] = q[k + n]
    <3>1. (n + 1) + k - 1 = k + n /\ k \in 1 .. m - (n + 1) + 1
      BY <1>2
    <3> QED
      BY <1>4, <3>1
  <2> QED
    BY <1>2, <2>1, <2>2, <2>3 DEF RestOf
<1>6. ASSUME n > m PROVE toClient' = <<>>
  <2>1. Len(toClient') = 0
    BY <1>2, <1>4, <1>6
  <2> QED
    BY <1>1, <2>1, SeqFacts
<1> QED
  BY <1>1, <1>2, <1>5, <1>6

\* One read of the client takes at least one end.
LEMMA ReadTakesEnd ==
  ASSUME toClient \in Seq(ByteSet), Ended(toClient), NEW n \in ReadSome(8), Take(n)
  PROVE  /\ n \in 1 .. 8 /\ RestOf(toClient, n, toClient') /\ toClient' \in Seq(ByteSet)
         /\ toClient # <<>>
         /\ Cardinality(EndsOf(toClient')) + 1 <= Cardinality(EndsOf(toClient))
         /\ Ended(toClient')
<1> DEFINE q == toClient
<1>1. q \in Seq(ByteSet) /\ Len(q) \in Nat /\ DOMAIN q = 1 .. Len(q) /\ (q = <<>> <=> Len(q) = 0)
  BY SeqFacts
<1>2. PICK i \in 1 .. Len(q) : q[i].ends /\ n = IF i < 8 THEN i ELSE 8
  BY <1>1 DEF ReadSome
<1>3. n \in 1 .. 8 /\ n \in 0 .. Len(q) /\ n <= Len(q) /\ Len(q) # 0
  BY <1>1, <1>2
<1>4. PICK j \in 1 .. n : q[j].ends
  <2>1. CASE i < 8
    BY <1>2, <2>1
  <2>2. CASE ~(i < 8)
    <3>1. 1 \in DOMAIN q /\ n = 8
      BY <1>1, <1>2, <1>3, <2>2
    <3>2. PICK j \in 1 .. 1 + 7 : q[j].ends
      BY <3>1 DEF Ended
    <3> QED
      BY <3>1, <3>2
  <2> QED
    BY <2>1, <2>2
<1>6. toClient' \in Seq(ByteSet) /\ RestOf(q, n, toClient')
  BY <1>3, TakeRest
<1>9. Cardinality(EndsOf(toClient')) + 1 <= Cardinality(EndsOf(q))
  BY <1>4, <1>6, EndsTaken
<1>10. Ended(toClient')
  BY <1>6, EndedRest
<1> QED
  BY <1>1, <1>3, <1>6, <1>9, <1>10

-----------------------------------------------------------------------------
(* Counting the answers that are due. *)

\* As many pairs as the weights of a sequence sum up to.
Units(w) == {x \in (DOMAIN w) \X {1, 2} : x[2] <= w[x[1]]}

LEMMA UnitsFinite ==
  ASSUME NEW w \in Seq(0 .. 2)
  PROVE  IsFiniteSet(Units(w)) /\ Cardinality(Units(w)) \in Nat
<1>1. Len(w) \in Nat /\ DOMAIN w = 1 .. Len(w)
  BY SeqFacts
<1>2. IsFiniteSet(1 .. Len(w)) /\ IsFiniteSet({1, 2})
  <2>1. PICK one : one = {1}
    OBVIOUS
  <2>2. IsFiniteSet(one) /\ {1, 2} = one \cup {2}
    BY <2>1, FS_Singleton
  <2>3. IsFiniteSet(one \cup {2})
    BY <2>2, FS_AddElement
  <2>4. IsFiniteSet(1 .. Len(w))
    BY <1>1, FS_Interval
  <2> QED
    BY <2>2, <2>3, <2>4
<1>3. IsFiniteSet((1 .. Len(w)) \X {1, 2})
  BY <1>2, FS_Product
<1>4. IsFiniteSet(Units(w))
  BY <1>1, <1>3, FS_Subset DEF Units
<1> QED
  BY <1>4, FS_CardinalityType

\* Without its pairs for one place, a sequence has that place's weight less.
LEMMA UnitsWithout ==
  ASSUME NEW w \in Seq(0 .. 2), NEW m \in DOMAIN w,
         NEW T, T = {x \in Units(w) : x[1] # m}
  PROVE  IsFiniteSet(T) /\ Cardinality(T) + w[m] = Cardinality(Units(w))
<1> DEFINE U == Units(w)
<1>1. IsFiniteSet(U) /\ Cardinality(U) \in Nat
  BY UnitsFinite
<1>2. w[m] \in {0, 1, 2}
  BY SeqFacts
<1>3. \A x \in U : x = <<x[1], x[2]>> /\ x[1] \in DOMAIN w /\ x[2] \in {1, 2} /\ x[2] <= w[x[1]]
  BY DEF Units
<1>4. <<m, 1>> \in U <=> w[m] \in {1, 2}
  BY <1>2 DEF Units
<1>5. <<m, 2>> \in U <=> w[m] = 2
  BY <1>2 DEF Units
<1>6. T = (U \ {<<m, 1>>}) \ {<<m, 2>>}
  BY <1>3
<1> HIDE DEF U
<1>7. CASE w[m] = 0
  <2>1. T = U
    BY <1>4, <1>5, <1>6, <1>7
  <2>2. IsFiniteSet(T) /\ Cardinality(T) = Cardinality(U) /\ Cardinality(T) \in Nat
    BY <1>1, <2>1
  <2> QED
    BY <1>7, <2>2 DEF U
<1>8. CASE w[m] = 1
  <2>1. T = U \ {<<m, 1>>}
    BY <1>4, <1>5, <1>6, <1>8
  <2>2. <<m, 1>> \in U
    BY <1>4, <1>8
  <2>3. Cardinality(T) = Cardinality(U) - 1 /\ IsFiniteSet(T)
    BY <1>1, <2>1, <2>2, FS_RemoveElement
  <2> QED
    BY <1>1, <1>8, <2>3 DEF U
<1>9. CASE w[m] = 2
  <2>1. /\ IsFiniteSet(U \ {<<m, 1>>})
        /\ Cardinality(U \ {<<m, 1>>}) = Cardinality(U) - 1
    BY <1>1, <1>4, <1>9, FS_RemoveElement
  <2>2. <<m, 2>> \in U \ {<<m, 1>>}
    BY <1>5, <1>9
  <2>3. Cardinality(T) = Cardinality(U \ {<<m, 1>>}) - 1 /\ IsFiniteSet(T)
    <3>1. PICK V : V = U \ {<<m, 1>>}
      OBVIOUS
    <3>2. T = V \ {<<m, 2>>} /\ <<m, 2>> \in V /\ IsFiniteSet(V)
      BY <1>6, <2>1, <2>2, <3>1
    <3>3. Cardinality(T) = Cardinality(V) - 1 /\ IsFiniteSet(T)
      BY <3>2, FS_RemoveElement
    <3> QED
      BY <3>1, <3>3
  <2> QED
    BY <1>1, <1>9, <2>1, <2>3 DEF U
<1> QED
  BY <1>2, <1>7, <1>8, <1>9

LEMMA UnitsOfOne ==
  ASSUME NEW w \in Seq(0 .. 2), NEW m \in DOMAIN w
  PROVE  w[m] <= Cardinality(Units(w))
<1>1. PICK T : T = {x \in Units(w) : x[1] # m}
  OBVIOUS
<1>2. IsFiniteSet(T) /\ Cardinality(T) + w[m] = Cardinality(Units(w))
  BY <1>1, UnitsWithout
<1>3. Cardinality(T) \in Nat /\ w[m] \in 0 .. 2
  BY <1>2, FS_CardinalityType, SeqFacts
<1> QED
  BY <1>2, <1>3

\* One more place adds its weight.
LEMMA UnitsAppend ==
  ASSUME NEW w \in Seq(0 .. 2), NEW k \in 0 .. 2, NEW v, v = Append(w, k)
  PROVE  Cardinality(Units(v)) = Cardinality(Units(w)) + k
<1>1. Len(w) \in Nat /\ DOMAIN w = 1 .. Len(w)
  BY SeqFacts
<1>2. /\ v \in Seq(0 .. 2) /\ DOMAIN v = 1 .. Len(w) + 1 /\ v[Len(w) + 1] = k
      /\ \A i \in 1 .. Len(w) : v[i] = w[i]
  BY AppendProperties
<1>3. PICK m : m = Len(w) + 1
  OBVIOUS
<1>4. \A i : i \in 1 .. Len(w) <=> (i \in 1 .. m /\ i # m)
  BY <1>1, <1>3
<1>5. Units(w) = {x \in Units(v) : x[1] # m}
  BY <1>1, <1>2, <1>3, <1>4 DEF Units
<1>6. Cardinality(Units(w)) + v[m] = Cardinality(Units(v))
  <2>1. m \in DOMAIN v
    BY <1>1, <1>2, <1>3
  <2> QED
    BY <1>2, <1>5, <2>1, UnitsWithout
<1> QED
  BY <1>2, <1>3, <1>6

\* Without the first place the others keep theirs.
LEMMA UnitsTail ==
  ASSUME NEW w \in Seq(0 .. 2), NEW v \in Seq(0 .. 2), Len(w) = Len(v) + 1,
         \A i \in 1 .. Len(v) : v[i] = w[i + 1]
  PROVE  Cardinality(Units(v)) + w[1] <= Cardinality(Units(w))
<1>1. /\ Len(w) \in Nat /\ DOMAIN w = 1 .. Len(v) + 1
      /\ Len(v) \in Nat /\ DOMAIN v = 1 .. Len(v)
  BY SeqFacts
<1>2. PICK T : T = {x \in Units(w) : x[1] # 1}
  OBVIOUS
<1>3. 1 \in DOMAIN w /\ w[1] \in 0 .. 2
  BY <1>1, SeqFacts
<1>4. IsFiniteSet(T) /\ Cardinality(T) + w[1] = Cardinality(Units(w))
  BY <1>2, <1>3, UnitsWithout
<1> DEFINE f == [x \in Units(v) |-> <<x[1] + 1, x[2]>>]
<1>5. \A x \in Units(v) : x = <<x[1], x[2]>> /\ x[1] \in 1 .. Len(v) /\ x[2] \in {1, 2} /\ x[2] <= v[x[1]]
  BY <1>1 DEF Units
<1>6. ASSUME NEW x \in Units(v) PROVE <<x[1] + 1, x[2]>> \in T
  <2>1. x[1] + 1 \in 1 .. Len(v) + 1 /\ x[1] + 1 # 1
    BY <1>1, <1>5
  <2>2. x[2] <= w[x[1] + 1] /\ x[2] \in {1, 2}
    BY <1>5
  <2> QED
    BY <1>1, <1>2, <2>1, <2>2 DEF Units
<1>7. f \in [Units(v) -> T]
  BY <1>6
<1>8. ASSUME NEW x \in Units(v), NEW y \in Units(v), f[x] = f[y] PROVE x = y
  <2>1. x[1] + 1 = y[1] + 1 /\ x[2] = y[2]
    BY <1>8
  <2> QED
    BY <1>1, <1>5, <2>1
<1> HIDE DEF f
<1>9. Cardinality(Units(v)) <= Cardinality(T)
  BY <1>4, <1>7, <1>8, ShiftedSmaller
<1> QED
  BY <1>3, <1>4, <1>9, UnitsFinite, FS_CardinalityType

\* The answers to the tokens of a stream, for the commands given.
RepliesIn(t, s) ==
  IF t.kind = "ack" THEN 0
  ELSE IF (t.kind = "command" /\ s[t.of].op = "download") \/ (t.kind = "name" /\ s[t.of].empty)
    THEN 2 ELSE 1
DueIn(q, s)   == {x \in (DOMAIN q) \X {1, 2} : x[2] <= RepliesIn(q[x[1]], s)}
Weights(q, s) == [i \in DOMAIN q |-> RepliesIn(q[i], s)]

LEMMA DueIs ==
  Due = DueIn(toServer, said) /\ Due' = DueIn(toServer', said')
BY DEF Due, DueIn, Replies, RepliesIn

LEMMA DueUnits ==
  ASSUME NEW S, NEW q \in Seq(S), NEW s
  PROVE  /\ Weights(q, s) \in Seq(0 .. 2) /\ Len(Weights(q, s)) = Len(q)
         /\ \A i \in 1 .. Len(q) : Weights(q, s)[i] = RepliesIn(q[i], s)
         /\ DueIn(q, s) = Units(Weights(q, s))
         /\ Cardinality(DueIn(q, s)) \in Nat
<1>1. Len(q) \in Nat /\ DOMAIN q = 1 .. Len(q)
  BY SeqFacts
<1>2. Weights(q, s) \in [1 .. Len(q) -> 0 .. 2]
  BY <1>1 DEF Weights, RepliesIn
<1>3. Weights(q, s) \in Seq(0 .. 2) /\ Len(Weights(q, s)) = Len(q)
  BY <1>1, <1>2, SeqDef, LenProperties
<1>4. DueIn(q, s) = Units(Weights(q, s))
  BY DEF DueIn, Units, Weights
<1> QED
  BY <1>1, <1>3, <1>4, UnitsFinite DEF Weights

LEMMA DueAppend ==
  ASSUME NEW S, NEW q \in Seq(S), NEW t \in S, NEW s
  PROVE  Cardinality(DueIn(Append(q, t), s)) = Cardinality(DueIn(q, s)) + RepliesIn(t, s)
<1>1. PICK r : r = Append(q, t)
  OBVIOUS
<1>2. /\ Len(q) \in Nat /\ r \in Seq(S) /\ Len(r) = Len(q) + 1 /\ r[Len(q) + 1] = t
      /\ \A i \in 1 .. Len(q) : r[i] = q[i]
  BY <1>1, AppendProperties, LenProperties
<1>3. PICK w, v : w = Weights(q, s) /\ v = Weights(r, s)
  OBVIOUS
<1>4. /\ w \in Seq(0 .. 2) /\ Len(w) = Len(q) /\ DueIn(q, s) = Units(w)
      /\ \A i \in 1 .. Len(q) : w[i] = RepliesIn(q[i], s)
  BY <1>3, DueUnits
<1>5. /\ v \in Seq(0 .. 2) /\ Len(v) = Len(r) /\ DueIn(r, s) = Units(v)
      /\ \A i \in 1 .. Len(r) : v[i] = RepliesIn(r[i], s)
  BY <1>2, <1>3, DueUnits
<1>6. PICK k \in 0 .. 2 : k = RepliesIn(t, s)
  BY DEF RepliesIn
<1>7. v = Append(w, k)
  <2>1. Len(v) = Len(w) + 1 /\ Len(w) \in Nat
    BY <1>2, <1>4, <1>5
  <2>2. \A i \in 1 .. Len(w) : v[i] = w[i]
    BY <1>2, <1>4, <1>5
  <2>3. v[Len(w) + 1] = k
    BY <1>2, <1>4, <1>5, <1>6
  <2>4. /\ Append(w, k) \in Seq(0 .. 2) /\ Len(Append(w, k)) = Len(w) + 1
        /\ Append(w, k)[Len(w) + 1] = k
        /\ \A i \in 1 .. Len(w) : Append(w, k)[i] = w[i]
    BY <1>4, <1>6, AppendProperties
  <2>5. \A i \in 1 .. Len(w) + 1 : v[i] = Append(w, k)[i]
    BY <2>1, <2>2, <2>3, <2>4
  <2> QED
    BY <1>5, <2>1, <2>4, <2>5, SeqEqual
<1>8. Cardinality(Units(v)) = Cardinality(Units(w)) + k
  BY <1>4, <1>7, UnitsAppend
<1> QED
  BY <1>1, <1>4, <1>5, <1>6, <1>8

LEMMA DueTail ==
  ASSUME NEW S, NEW q \in Seq(S), q # <<>>, NEW s
  PROVE  Cardinality(DueIn(Tail(q), s)) + RepliesIn(Head(q), s) <= Cardinality(DueIn(q, s))
<1>1. PICK r : r = Tail(q)
  OBVIOUS
<1>2. /\ Len(q) \in Nat /\ Len(q) >= 1 /\ r \in Seq(S) /\ Len(r) = Len(q) - 1
      /\ Head(q) = q[1] /\ \A i \in 1 .. Len(q) - 1 : r[i] = q[i + 1]
  BY <1>1, HeadTailProperties, SeqFacts
<1>3. PICK w, v : w = Weights(q, s) /\ v = Weights(r, s)
  OBVIOUS
<1>4. /\ w \in Seq(0 .. 2) /\ Len(w) = Len(q) /\ DueIn(q, s) = Units(w)
      /\ \A i \in 1 .. Len(q) : w[i] = RepliesIn(q[i], s)
  BY <1>3, DueUnits
<1>5. /\ v \in Seq(0 .. 2) /\ Len(v) = Len(r) /\ DueIn(r, s) = Units(v)
      /\ \A i \in 1 .. Len(r) : v[i] = RepliesIn(r[i], s)
  BY <1>2, <1>3, DueUnits
<1>6. Len(w) = Len(v) + 1
  BY <1>2, <1>4, <1>5
<1>7. ASSUME NEW i \in 1 .. Len(v) PROVE v[i] = w[i + 1]
  <2>1. i \in 1 .. Len(q) - 1 /\ i + 1 \in 1 .. Len(q) /\ i \in 1 .. Len(r)
    BY <1>2, <1>5
  <2> QED
    BY <1>2, <1>4, <1>5, <2>1
<1>8. Cardinality(Units(v)) + w[1] <= Cardinality(Units(w))
  BY <1>4, <1>5, <1>6, <1>7, UnitsTail
<1>9. w[1] = RepliesIn(Head(q), s)
  <2>1. 1 \in 1 .. Len(q)
    BY <1>2
  <2> QED
    BY <1>2, <1>4, <2>1
<1> QED
  BY <1>1, <1>4, <1>5, <1>8, <1>9

LEMMA DueOfOne ==
  ASSUME NEW S, NEW q \in Seq(S), NEW s, NEW i \in 1 .. Len(q)
  PROVE  RepliesIn(q[i], s) <= Cardinality(DueIn(q, s))
<1>1. PICK w : w = Weights(q, s)
  OBVIOUS
<1>2. /\ w \in Seq(0 .. 2) /\ Len(w) = Len(q) /\ DueIn(q, s) = Units(w)
      /\ w[i] = RepliesIn(q[i], s)
  BY <1>1, DueUnits
<1>3. i \in DOMAIN w
  BY <1>2, SeqFacts
<1> QED
  BY <1>2, <1>3, UnitsOfOne

-----------------------------------------------------------------------------
(* Counting the commands. *)

Numbers(op, s) == {n \in 1 .. Len(s) : s[n].op = op}

LEMMA CountIs ==
  \A op : Count(op) = Cardinality(Numbers(op, said))
          /\ Count(op)' = Cardinality(Numbers(op, said'))
BY DEF Count, Numbers, Current

LEMMA NumbersFinite ==
  ASSUME NEW S, NEW s \in Seq(S), NEW op
  PROVE  IsFiniteSet(Numbers(op, s)) /\ Cardinality(Numbers(op, s)) \in Nat
<1>1. IsFiniteSet(1 .. Len(s))
  BY SeqFacts, FS_Interval
<1>2. IsFiniteSet(Numbers(op, s))
  BY <1>1, FS_Subset DEF Numbers
<1> QED
  BY <1>2, FS_CardinalityType

\* No download is counted exactly if none was given.
LEMMA PlainIs ==
  ASSUME TypeOK
  PROVE  Plain <=> Count("download") = 0
<1>1. IsFiniteSet(Numbers("download", said))
  BY NumbersFinite DEF TypeOK
<1>2. Cardinality(Numbers("download", said)) = 0 <=> Numbers("download", said) = {}
  BY <1>1, FS_EmptySet
<1>3. Plain <=> Numbers("download", said) = {}
  BY DEF Plain, Numbers, Current
<1> QED
  BY <1>2, <1>3, CountIs

LEMMA CountType ==
  ASSUME TypeOK
  PROVE  Count("upload") \in Nat /\ Count("download") \in Nat
  BY CountIs, NumbersFinite DEF TypeOK

\* What is counted is there.
LEMMA CountWitness ==
  ASSUME TypeOK, Count("download") > 0 \/ Count("upload") > 1
  PROVE  \E m, n \in 1 .. Len(said) :
           said[m].op = "download" \/ (m # n /\ said[m].op = "upload" /\ said[n].op = "upload")
<1>1. CASE Count("download") > 0
  <2>1. ~Plain
    BY <1>1, PlainIs, CountType
  <2> QED
    BY <2>1 DEF Plain, Current
<1>2. CASE Count("upload") > 1
  <2> DEFINE S == Numbers("upload", said)
  <2>1. IsFiniteSet(S) /\ Cardinality(S) > 1
    BY <1>2, CountIs, NumbersFinite DEF TypeOK
  <2> HIDE DEF S
  <2>2. PICK m \in S : TRUE
    BY <2>1, FS_EmptySet
  <2>3. S # {m}
    BY <2>1, FS_Singleton
  <2>4. PICK n \in S : n # m
    BY <2>2, <2>3
  <2> QED
    BY <2>4 DEF S, Numbers
<1> QED
  BY <1>1, <1>2

\* A command more.
LEMMA CountSay ==
  ASSUME TypeOK, Say
  PROVE  /\ Count("upload")' = Count("upload") + (IF said'[Current'].op = "upload" THEN 1 ELSE 0)
         /\ Plain' => Plain /\ said'[Current'].op # "download"
<1>1. /\ said' \in Seq(Store!Command) /\ said \in Seq(Store!Command)
      /\ Current' = Current + 1 /\ \A n \in 1 .. Current : said'[n] = said[n]
  BY SayEffect DEF TypeOK
<1>2. PICK m \in Nat : m = Len(said)
  BY <1>1, LenProperties
<1>3. PICK s, z : s = said /\ z = said'
  OBVIOUS
<1>4. Len(s) = m /\ Len(z) = m + 1 /\ \A n \in 1 .. m : z[n] = s[n]
  BY <1>1, <1>2, <1>3 DEF Current
<1>5. Numbers("upload", s) = Numbers("upload", z) \ {m + 1}
  BY <1>4 DEF Numbers
<1>6. m + 1 \in Numbers("upload", z) <=> z[m + 1].op = "upload"
  BY <1>4 DEF Numbers
<1>7. IsFiniteSet(Numbers("upload", s)) /\ m + 1 \notin Numbers("upload", s)
  BY <1>1, <1>3, <1>5, NumbersFinite
<1>8. Cardinality(Numbers("upload", z))
        = Cardinality(Numbers("upload", s)) + (IF z[m + 1].op = "upload" THEN 1 ELSE 0)
  <2>1. CASE z[m + 1].op = "upload"
    <3>1. Numbers("upload", z) = Numbers("upload", s) \cup {m + 1}
      BY <1>5, <1>6, <2>1
    <3> QED
      BY <1>7, <2>1, <3>1, FS_AddElement
  <2>2. CASE z[m + 1].op # "upload"
    <3>1. Numbers("upload", z) = Numbers("upload", s)
      BY <1>5, <1>6, <2>2
    <3>2. Cardinality(Numbers("upload", s)) \in Nat
      BY <1>7, FS_CardinalityType
    <3> QED
      BY <2>2, <3>1, <3>2
  <2> QED
    BY <2>1, <2>2
<1>9. Current' = m + 1 /\ Current = m
  BY <1>1, <1>2 DEF Current
<1>10. Plain' => Plain /\ said'[Current'].op # "download"
  BY <1>1, <1>2, <1>9 DEF Plain
<1> QED
  BY <1>3, <1>8, <1>9, <1>10, CountIs

-----------------------------------------------------------------------------
(* What the client does, place by place. *)

\* What the client writes.
Writes(kind) == toServer' = Append(toServer, Token(kind))

\* A read of the length that finds it.
LengthRead ==
  /\ Len(toClient) >= 8
  /\ toClient[1].kind = "length" /\ toClient[8].kind = "length" /\ toClient[8].ends
  /\ Take(8)

\* The client's next place after the read, and what it writes.
Moves ==
  \/ /\ client = "command" /\ said[Current].op \in {"delete", "list", "exit"}
     /\ client' \in {"ready", "closed"} /\ UNCHANGED toServer
  \/ client = "command" /\ said[Current].op = "upload" /\ client' = "type" /\ Writes("type")
  \/ client = "command" /\ said[Current].op = "download" /\ client' = "length" /\ UNCHANGED toServer
  \/ client = "type" /\ client' = "size" /\ Writes("size")
  \/ client = "size" /\ client' = "name" /\ Writes("name")
  \/ client = "name" /\ said[Current].empty /\ client' = "ready" /\ UNCHANGED toServer
  \/ client = "name" /\ ~said[Current].empty /\ client' = "ready" /\ Writes("payload")
  \/ client = "length" /\ client' \in {"ready", "lost"} /\ UNCHANGED toServer
  \/ client = "length" /\ client' = "payload" /\ Writes("ack") /\ LengthRead
  \/ client = "payload" /\ client' = "ready" /\ Writes("ack")

LEMMA ClientMoves ==
  ASSUME TypeOK, ClientStep
  PROVE  /\ UNCHANGED <<said, server, serving, got, files, applied>> /\ ~Gone /\ ~Gone'
         /\ InStep /\ client \notin {"ready", "closed", "killed", "lost"}
         /\ client # "payload" => \E n \in ReadSome(8) : Take(n)
         /\ client = "payload" => Take(4) /\ toClient # <<>>
         /\ Moves
<1>1. toClient \in Seq(ByteSet) /\ toServer \in Seq(TokenSet)
  BY TypeFacts
<1>2. toServer \o << >> = toServer
  BY <1>1, ConcatEmptySeq
<1>3. \A x : toServer \o <<x>> = Append(toServer, x)
  BY <1>1
<1>4. UNCHANGED <<said, server, serving, got, files, applied>> /\ InStep
  BY ClientEffect DEF ClientStep
<1>5. CASE CommandAcked
  <2>1. (\E n \in ReadSome(8) : Take(n)) /\ client = "command" /\ client' \notin {"killed"}
    BY <1>5 DEF CommandAcked, WaitForSocketAck
  <2>2. Moves
    BY <1>3, <1>5 DEF CommandAcked, Moves, Send, Writes
  <2> QED
    BY <1>4, <2>1, <2>2 DEF Gone
<1>6. CASE SendFilePacket
  <2>1. /\ (\E n \in ReadSome(8) : Take(n)) /\ client \in {"type", "size", "name"}
        /\ client' \notin {"killed"}
    BY <1>6 DEF SendFilePacket, WaitForSocketAck
  <2>2. Moves
    BY <1>2, <1>3, <1>6 DEF SendFilePacket, Moves, Send, Writes
  <2> QED
    BY <1>4, <2>1, <2>2 DEF Gone
<1>7. CASE ReadLength
  <2>1. client = "length"
    BY <1>7 DEF ReadLength
  <2>2. PICK n \in ReadSome(8) :
          /\ Take(n)
          /\ \/ /\ SubSeq(toClient, 1, n) = Bytes("length", 8)
                /\ Send(<<Token("ack")>>)
                /\ client' = "payload"
             \/ client' \in {"ready", "lost"} /\ UNCHANGED toServer
    BY <1>7 DEF ReadLength
  <2>3. ASSUME SubSeq(toClient, 1, n) = Bytes("length", 8) PROVE LengthRead
    <3>1. Len(toClient) \in Nat /\ n \in Nat /\ n <= Len(toClient) /\ n <= 8
      BY <1>1, SeqFacts DEF ReadSome
    <3>2. /\ Len(SubSeq(toClient, 1, n)) = n
          /\ \A i \in 1 .. n : SubSeq(toClient, 1, n)[i] = toClient[i]
      <4>1. \A i \in 1 .. n : toClient[i] \in ByteSet
        BY <1>1, <3>1, SeqFacts
      <4> QED
        BY <3>1, <4>1, SubSeqProperties
    <3>3. Len(Bytes("length", 8)) = 8
      BY BytesAreOneWrite DEF ByteKind
    <3>4. n = 8 /\ 1 \in 1 .. 8 /\ 8 \in 1 .. 8
      <4>1. n = Len(Bytes("length", 8))
        BY <2>3, <3>2
      <4> QED
        BY <3>3, <4>1
    <3>5. /\ Bytes("length", 8)[1].kind = "length" /\ Bytes("length", 8)[8].kind = "length"
          /\ Bytes("length", 8)[8].ends
      BY <3>4 DEF Bytes
    <3> QED
      BY <2>2, <2>3, <3>1, <3>2, <3>4, <3>5 DEF LengthRead
  <2>4. Moves
    BY <1>3, <2>1, <2>2, <2>3 DEF Moves, Send, Writes
  <2> QED
    BY <1>4, <2>1, <2>2, <2>4 DEF Gone
<1>8. CASE ReadPayload
  <2>1. client = "payload" /\ Take(4) /\ toClient # <<>> /\ client' = "ready" /\ Writes("ack")
    BY <1>3, <1>8 DEF ReadPayload, Send, Writes
  <2> QED
    BY <1>4, <2>1 DEF Gone, Moves
<1> QED
  BY <1>5, <1>6, <1>7, <1>8 DEF ClientStep

-----------------------------------------------------------------------------
(* What the session thread does, place by place. *)

\* The client is dead and all it wrote has been read.
AtEnd ==
  /\ EndOfStream /\ UNCHANGED <<toServer, toClient, serving>>
  /\ server' \notin {"lost", "lengthAck"}
  /\ server' = "payloadAck" => server = "lengthAck"

Serves ==
  \/ AtEnd
  \/ /\ server = "idle" /\ Read("command") /\ serving' = Head(toServer).of
     /\ Write(Ack, said[Head(toServer).of].op)
  \/ /\ server \in {"delete", "list", "exit"} /\ server' \in {"idle", "ended"}
     /\ UNCHANGED <<toServer, toClient, serving>>
  \/ server = "upload" /\ Read("type") /\ Write(Ack, "size") /\ UNCHANGED serving
  \/ server = "size" /\ Read("size") /\ Write(Ack, "name") /\ UNCHANGED serving
  \/ /\ server = "name" /\ Read("name") /\ Write(Ack, "payload") /\ UNCHANGED serving
     /\ NoPayload' <=> said[serving].empty
  \/ /\ server = "payload" /\ NoPayload /\ UNCHANGED <<toServer, serving>>
     /\ Write(Ack, "idle")
  \/ /\ server = "payload" /\ ~NoPayload /\ Read("payload") /\ UNCHANGED serving
     /\ Write(Ack, "idle")
  \/ /\ server = "download" /\ UNCHANGED <<toServer, serving, files>>
     /\ \/ Write(Missing, "idle")
        \/ Write(Length(files[said[serving].file]), "lengthAck")
  \/ /\ server = "lengthAck" /\ Read("ack") /\ UNCHANGED <<serving, files>>
     /\ Write(IF said[files[said[serving].file]].empty THEN <<>> ELSE Payload, "payloadAck")
  \/ /\ server = "payloadAck" /\ Read("ack") /\ server' = "idle"
     /\ UNCHANGED <<toClient, serving>>
  \/ LoseStep

LEMMA ServerServes ==
  ASSUME Commands, ServerStep
  PROVE  Serves
<1>1. TypeOK /\ Order /\ Progress /\ InFunction
  BY DEF Commands
<1>2. UNCHANGED <<said, client>> /\ InStep
  BY DEF ServerStep, serverSees
<1>3. EndOfStream => Gone /\ toServer = <<>>
  BY DEF EndOfStream
<1>4. ASSUME server \in {"idle", "payload"}, ShortRead PROVE Serves
  BY <1>4 DEF ShortRead, Serves, AtEnd
<1>5. ASSUME NEW bytes, NEW next \in {"size", "name", "payload", "payloadAck"},
             EndOfStream, Write(bytes, next), UNCHANGED <<toServer, serving>>,
             next = "payloadAck" => server = "lengthAck"
      PROVE  Serves
  BY <1>3, <1>5 DEF Write, Serves, AtEnd
<1>6. CASE ReadCommand
  BY <1>4, <1>6 DEF ReadCommand, Case, Serves
<1>7. CASE DeleteFile \/ ListServer \/ Exit
  BY <1>7 DEF DeleteFile, ListServer, Exit, Finish, Serves
<1>8. CASE ReadType
  BY <1>5, <1>8 DEF ReadType, ReadData, Serves
<1>9. CASE ReadSize
  BY <1>5, <1>9 DEF ReadSize, Serves
<1>10. CASE ReadName
  <2>1. CASE EndOfStream /\ UNCHANGED <<toServer, got>>
    BY <1>5, <1>10, <2>1 DEF ReadName
  <2>2. CASE Read("name") /\ got' = [got EXCEPT !.name = Head(toServer).of]
    <3>1. ~EndOfStream
      BY <2>2 DEF Read, EndOfStream
    <3>2. server = "name" /\ Write(Ack, "payload") /\ UNCHANGED serving
      BY <1>10 DEF ReadName
    <3>3. applied + 1 = serving /\ got.size = serving /\ got \in [size : 0 .. Current, name : 0 .. Current]
      BY <1>1, <3>1, <3>2, TypeFacts DEF InFunction, Progress
    <3>4. got'.size = serving /\ serving # 0
      BY <1>1, <2>2, <3>3, TypeFacts
    <3>5. NoPayload' <=> said[serving].empty
      BY <1>2, <3>4 DEF NoPayload
    <3> QED
      BY <2>2, <3>2, <3>5 DEF Serves
  <2> QED
    BY <1>10, <2>1, <2>2 DEF ReadName
<1>11. CASE ReadFile
  <2>1. CASE ShortRead
    BY <1>4, <1>11, <2>1 DEF ReadFile
  <2>2. CASE /\ got.size = 0 /\ EndOfStream
             /\ server' = "crashed"
             /\ UNCHANGED <<toServer, toClient, serving, got, files, applied>>
    BY <2>2 DEF Serves, AtEnd
  <2>3. CASE /\ \/ NoPayload /\ UNCHANGED toServer
                \/ got.size # 0 /\ ~NoPayload /\ Read("payload")
             /\ Write(Ack, "idle") /\ UNCHANGED serving
    BY <1>11, <2>3 DEF ReadFile, Serves
  <2> QED
    BY <1>11, <2>1, <2>2, <2>3 DEF ReadFile
<1>12. CASE SendLength
  <2>1. /\ server = "download" /\ UNCHANGED <<toServer, serving, files>>
        /\ \/ Write(Missing, "idle")
           \/ Write(Length(files[said[serving].file]), "lengthAck")
    BY <1>12 DEF SendLength
  <2> QED
    BY <2>1 DEF Serves
<1>13. CASE SendPayload
  BY <1>5, <1>13 DEF SendPayload, ReadData, Serves
<1>14. CASE PayloadAcked
  BY <1>14 DEF PayloadAcked, ReadData, Serves, AtEnd
<1>15. CASE LoseStep
  BY <1>15 DEF Serves
<1> QED
  BY <1>6, <1>7, <1>8, <1>9, <1>10, <1>11, <1>12, <1>13, <1>14, <1>15 DEF ServerStep

LEMMA ServerMoves ==
  ASSUME Commands, ServerStep
  PROVE  /\ UNCHANGED <<said, client>> /\ InStep /\ Serves
         /\ server \notin {"crashed", "lost", "ended"}
<1>1. server \notin {"crashed", "lost", "ended"}
  BY DEF ServerStep, ReadCommand, DeleteFile, ListServer, Exit, ReadType, ReadSize, ReadName,
         ReadFile, SendLength, SendPayload, PayloadAcked, LoseStep, Expected, ShortRead
<1> QED
  BY <1>1, ServerServes DEF ServerStep, serverSees

-----------------------------------------------------------------------------
(* The order of the kinds of tokens. *)

AfterIn(kind, n, s) ==
  CASE kind = "command" -> IF s[n].op = "upload" THEN "type" ELSE "command"
    [] kind = "type"    -> "size"
    [] kind = "size"    -> "name"
    [] kind = "name"    -> IF s[n].empty THEN "command" ELSE "payload"
    [] OTHER            -> "command"

\* The tokens of a stream when the thread awaits a, and what comes after them.
Spoken(q, s, a) ==
  \A i \in DOMAIN q : q[i].kind = IF i = 1 THEN a ELSE AfterIn(q[i - 1].kind, q[i - 1].of, s)
Following(q, s, a) == IF Len(q) = 0 THEN a ELSE AfterIn(q[Len(q)].kind, q[Len(q)].of, s)

LEMMA SpeechIs ==
  /\ Speech <=> (Plain /\ server \notin {"crashed", "lost"} =>
                   /\ Spoken(toServer, said, Awaited)
                   /\ ~Gone => Owed = Following(toServer, said, Awaited))
  /\ Speech' <=> (Plain' /\ server' \notin {"crashed", "lost"} =>
                    /\ Spoken(toServer', said', Awaited')
                    /\ ~Gone' => Owed' = Following(toServer', said', Awaited'))
  /\ \A kind, n : After(kind, n) = AfterIn(kind, n, said)
  /\ \A kind, n : After(kind, n)' = AfterIn(kind, n, said')
<1>1. \A kind, n : After(kind, n) = AfterIn(kind, n, said)
  BY DEF After, AfterIn
<1>2. \A kind, n : After(kind, n)' = AfterIn(kind, n, said')
  BY DEF After, AfterIn
<1>3. Speech <=> (Plain /\ server \notin {"crashed", "lost"} =>
                    /\ Spoken(toServer, said, Awaited)
                    /\ ~Gone => Owed = Following(toServer, said, Awaited))
  BY <1>1 DEF Speech, Spoken, Following
<1>4. Speech' <=> (Plain' /\ server' \notin {"crashed", "lost"} =>
                     /\ Spoken(toServer', said', Awaited')
                     /\ ~Gone' => Owed' = Following(toServer', said', Awaited'))
  BY <1>2 DEF Speech, Spoken, Following
<1> QED
  BY <1>1, <1>2, <1>3, <1>4

\* The kind of a token that is written is the one that is owed.
LEMMA SpokenAppend ==
  ASSUME NEW S, NEW q \in Seq(S), NEW t \in S, NEW s, NEW z, NEW a, Spoken(q, s, a),
         t.kind = Following(q, s, a),
         \A i \in 1 .. Len(q) : AfterIn(q[i].kind, q[i].of, z) = AfterIn(q[i].kind, q[i].of, s)
  PROVE  /\ Spoken(Append(q, t), z, a)
         /\ Following(Append(q, t), z, a) = AfterIn(t.kind, t.of, z)
<1>1. PICK r : r = Append(q, t)
  OBVIOUS
<1>2. PICK m \in Nat : m = Len(q)
  BY SeqFacts
<1>3. /\ Len(r) = m + 1 /\ DOMAIN r = 1 .. m + 1 /\ r[m + 1] = t
      /\ \A i \in 1 .. m : r[i] = q[i]
  BY <1>1, <1>2, AppendProperties, LenProperties
<1>4. /\ \A i \in 1 .. m : q[i].kind = IF i = 1 THEN a ELSE AfterIn(q[i - 1].kind, q[i - 1].of, s)
      /\ t.kind = IF m = 0 THEN a ELSE AfterIn(q[m].kind, q[m].of, s)
  BY <1>2, SeqFacts DEF Spoken, Following
<1>5. ASSUME NEW i \in 1 .. m + 1
      PROVE  r[i].kind = IF i = 1 THEN a ELSE AfterIn(r[i - 1].kind, r[i - 1].of, z)
  <2>1. i # 1 => i - 1 \in 1 .. m
    BY <1>2
  <2>2. i # 1 => /\ r[i - 1] = q[i - 1]
                 /\ AfterIn(q[i - 1].kind, q[i - 1].of, z) = AfterIn(q[i - 1].kind, q[i - 1].of, s)
    BY <1>2, <1>3, <2>1
  <2>3. CASE i \in 1 .. m
    BY <1>3, <1>4, <2>2, <2>3
  <2>4. CASE i = m + 1
    <3>1. (m = 0 <=> i = 1) /\ i - 1 = m
      BY <1>2, <2>4
    <3> QED
      BY <1>3, <1>4, <2>2, <2>4, <3>1
  <2> QED
    BY <1>2, <2>3, <2>4
<1>6. Spoken(r, z, a)
  BY <1>3, <1>5 DEF Spoken
<1>7. Following(r, z, a) = AfterIn(t.kind, t.of, z)
  BY <1>2, <1>3 DEF Following
<1> QED
  BY <1>1, <1>6, <1>7

\* The kind of the token that is read is the one that is awaited, and then the next
\* one is.
LEMMA SpokenTail ==
  ASSUME NEW S, NEW q \in Seq(S), q # <<>>, NEW s, NEW a, Spoken(q, s, a)
  PROVE  /\ Head(q).kind = a
         /\ Spoken(Tail(q), s, AfterIn(Head(q).kind, Head(q).of, s))
         /\ Following(Tail(q), s, AfterIn(Head(q).kind, Head(q).of, s)) = Following(q, s, a)
<1>1. PICK r, b : r = Tail(q) /\ b = AfterIn(Head(q).kind, Head(q).of, s)
  OBVIOUS
<1>2. PICK m \in Nat : m = Len(q) - 1 /\ Len(q) = m + 1
  BY SeqFacts
<1>3. /\ Len(r) = m /\ DOMAIN r = 1 .. m /\ DOMAIN q = 1 .. m + 1 /\ Head(q) = q[1]
      /\ \A i \in 1 .. m : r[i] = q[i + 1]
  BY <1>1, <1>2, HeadTailProperties, SeqFacts
<1>4. \A i \in 1 .. m + 1 : q[i].kind = IF i = 1 THEN a ELSE AfterIn(q[i - 1].kind, q[i - 1].of, s)
  BY <1>3 DEF Spoken
<1>5. Head(q).kind = a
  <2>1. 1 \in 1 .. m + 1
    BY <1>2
  <2> QED
    BY <1>3, <1>4, <2>1
<1>6. ASSUME NEW i \in 1 .. m
      PROVE  r[i].kind = IF i = 1 THEN b ELSE AfterIn(r[i - 1].kind, r[i - 1].of, s)
  <2>1. i + 1 \in 1 .. m + 1 /\ i + 1 # 1 /\ (i + 1) - 1 = i
    BY <1>2
  <2>2. r[i].kind = AfterIn(q[i].kind, q[i].of, s)
    BY <1>3, <1>4, <2>1
  <2>3. i # 1 => i - 1 \in 1 .. m /\ (i - 1) + 1 = i
    BY <1>2
  <2>4. i # 1 => r[i - 1] = q[i]
    BY <1>3, <2>3
  <2> QED
    BY <1>1, <1>3, <2>2, <2>4
<1>7. Spoken(r, s, b)
  BY <1>3, <1>6 DEF Spoken
<1>8. Following(r, s, b) = Following(q, s, a)
  <2>1. Following(q, s, a) = AfterIn(q[m + 1].kind, q[m + 1].of, s)
    BY <1>2 DEF Following
  <2>2. m # 0 => m \in 1 .. m
    BY <1>2
  <2> QED
    BY <1>1, <1>3, <2>1, <2>2 DEF Following
<1> QED
  BY <1>1, <1>5, <1>7, <1>8

LEMMA OwedIs ==
  /\ Owed = IF client \in {"ready", "closed"} THEN "command" ELSE AfterIn(client, Current, said)
  /\ Owed' = IF client' \in {"ready", "closed"} THEN "command" ELSE AfterIn(client', Current', said')
BY DEF Owed, After, AfterIn

\* As long as the thread stays where it is, what it awaits stays the same.
LEMMA AwaitedKept ==
  ASSUME TypeOK, UNCHANGED <<server, got>>, ~Gone, ~Gone',
         \A n \in 1 .. Current : said'[n] = said[n]
  PROVE  Awaited' = Awaited
<1>1. got.size \in 0 .. Current /\ Current \in Nat
  BY TypeFacts
<1>2. NoPayload' = NoPayload
  BY <1>1 DEF NoPayload, EndOfStream
<1> QED
  BY <1>2 DEF Awaited

LEMMA ClientKeepsSpeech ==
  ASSUME TypeOK, Busy, Roles, Speech, ClientStep
  PROVE  Speech'
<1>1. /\ UNCHANGED <<said, server, got>> /\ ~Gone /\ ~Gone' /\ Moves
      /\ client \notin {"ready", "killed", "lost"}
  BY ClientMoves
<1>2. Current' = Current /\ Current \in Nat /\ Current > 0 /\ toServer \in Seq(TokenSet)
  BY <1>1, TypeFacts DEF Current, Busy
<1>3. Plain' = Plain
  BY <1>1, <1>2 DEF Plain
<1>4. SUFFICES ASSUME Plain, server \notin {"crashed", "lost"}
      PROVE  /\ Spoken(toServer', said, Awaited)
             /\ Owed' = Following(toServer', said, Awaited)
  <2>1. Awaited' = Awaited
    BY <1>1, AwaitedKept
  <2> QED
    BY <1>1, <1>3, <2>1, SpeechIs
<1>5. Spoken(toServer, said, Awaited) /\ Owed = Following(toServer, said, Awaited)
  BY <1>1, <1>4, SpeechIs
<1>6. said[Current].op # "download"
  BY <1>2, <1>4 DEF Plain
<1>7. ASSUME NEW kind \in TokenKind, Writes(kind), Owed = kind, Owed' = AfterIn(kind, Current, said)
      PROVE  /\ Spoken(toServer', said, Awaited)
             /\ Owed' = Following(toServer', said, Awaited)
  <2>1. Token(kind) \in TokenSet /\ Token(kind).kind = kind /\ Token(kind).of = Current
    BY <1>2 DEF Token, TokenSet
  <2>2. PICK t \in TokenSet : t = Token(kind)
    BY <2>1
  <2>3. t.kind = Following(toServer, said, Awaited) /\ toServer' = Append(toServer, t)
    BY <1>5, <1>7, <2>1, <2>2 DEF Writes
  <2>4. /\ Spoken(Append(toServer, t), said, Awaited)
        /\ Following(Append(toServer, t), said, Awaited) = AfterIn(t.kind, t.of, said)
    BY <1>2, <1>5, <2>3, SpokenAppend
  <2> QED
    BY <1>7, <2>1, <2>2, <2>3, <2>4
<1>8. ASSUME UNCHANGED toServer, Owed' = Owed
      PROVE  /\ Spoken(toServer', said, Awaited)
             /\ Owed' = Following(toServer', said, Awaited)
  BY <1>5, <1>8
<1>9. CASE /\ client = "command" /\ said[Current].op \in {"delete", "list", "exit"}
           /\ client' \in {"ready", "closed"} /\ UNCHANGED toServer
  BY <1>8, <1>9, OwedIs DEF AfterIn
<1>10. CASE /\ client = "command" /\ said[Current].op = "upload" /\ client' = "type"
            /\ Writes("type")
  BY <1>1, <1>2, <1>7, <1>10, OwedIs DEF AfterIn, TokenKind
<1>11. CASE client = "type" /\ client' = "size" /\ Writes("size")
  BY <1>1, <1>2, <1>7, <1>11, OwedIs DEF AfterIn, TokenKind
<1>12. CASE client = "size" /\ client' = "name" /\ Writes("name")
  BY <1>1, <1>2, <1>7, <1>12, OwedIs DEF AfterIn, TokenKind
<1>13. CASE /\ client = "name" /\ said[Current].empty /\ client' = "ready"
            /\ UNCHANGED toServer
  BY <1>8, <1>13, OwedIs DEF AfterIn
<1>14. CASE /\ client = "name" /\ ~said[Current].empty /\ client' = "ready"
            /\ Writes("payload")
  BY <1>1, <1>2, <1>7, <1>14, OwedIs DEF AfterIn, TokenKind
<1>15. client \notin {"length", "payload"}
  BY <1>6 DEF Roles
<1> QED
  BY <1>1, <1>6, <1>9, <1>10, <1>11, <1>12, <1>13, <1>14, <1>15 DEF Moves

LEMMA SayKeepsSpeech ==
  ASSUME TypeOK, TypeOK', Speech, Say, UNCHANGED clientSees
  PROVE  Speech'
<1>1. /\ client = "ready" /\ client' = "command" /\ said' \in Seq(Store!Command)
      /\ Current' = Current + 1 /\ \A n \in 1 .. Current : said'[n] = said[n]
      /\ toServer' = Append(toServer, [kind |-> "command", of |-> Current'])
  BY SayEffect
<1>2. ~Gone /\ ~Gone' /\ UNCHANGED <<server, got>> /\ Current \in Nat /\ toServer \in Seq(TokenSet)
  BY <1>1, TypeFacts DEF Gone, clientSees
<1>3. SUFFICES ASSUME Plain', server \notin {"crashed", "lost"}
      PROVE  /\ Spoken(toServer', said', Awaited)
             /\ Owed' = Following(toServer', said', Awaited)
  <2>1. Awaited' = Awaited
    BY <1>1, <1>2, AwaitedKept
  <2> QED
    BY <1>2, <2>1, SpeechIs
<1>4. Plain
  BY <1>3, CountSay
<1>5. /\ Spoken(toServer, said, Awaited)
      /\ "command" = Following(toServer, said, Awaited)
  BY <1>1, <1>2, <1>3, <1>4, SpeechIs, OwedIs
<1>6. PICK t : t = [kind |-> "command", of |-> Current']
  OBVIOUS
<1>7. PICK S : S = TokenSet \cup {t}
  OBVIOUS
<1>8. toServer \in Seq(S) /\ t \in S
  <2>1. Len(toServer) \in Nat /\ toServer \in [1 .. Len(toServer) -> S]
    BY <1>2, <1>7, SeqFacts, LenProperties
  <2> QED
    BY <1>7, <2>1, SeqDef
<1>9. ASSUME NEW i \in 1 .. Len(toServer)
      PROVE  AfterIn(toServer[i].kind, toServer[i].of, said')
               = AfterIn(toServer[i].kind, toServer[i].of, said)
  <2>0. toServer[i] \in TokenSet
    BY <1>2, SeqFacts
  <2>1. toServer[i].of \in 1 .. Current
    BY <2>0 DEF TokenSet
  <2> QED
    BY <1>1, <2>1 DEF AfterIn
<1>10. t.kind = Following(toServer, said, Awaited) /\ t.kind = "command" /\ t.of = Current'
  BY <1>5, <1>6
<1>11. /\ Spoken(Append(toServer, t), said', Awaited)
       /\ Following(Append(toServer, t), said', Awaited) = AfterIn(t.kind, t.of, said')
  <2>1. PICK q, s, z, a : q = toServer /\ s = said /\ z = said' /\ a = Awaited
    OBVIOUS
  <2>2. /\ q \in Seq(S) /\ Spoken(q, s, a) /\ t.kind = Following(q, s, a)
        /\ \A i \in 1 .. Len(q) : AfterIn(q[i].kind, q[i].of, z) = AfterIn(q[i].kind, q[i].of, s)
    BY <1>5, <1>8, <1>9, <1>10, <2>1
  <2>3. /\ Spoken(Append(q, t), z, a)
        /\ Following(Append(q, t), z, a) = AfterIn(t.kind, t.of, z)
    BY SMTT(20), <1>8, <2>2, SpokenAppend
  <2> QED
    BY <2>1, <2>3
<1>12. Owed' = AfterIn(t.kind, t.of, said')
  BY <1>1, <1>10, OwedIs
<1> QED
  BY <1>1, <1>6, <1>11, <1>12

LEMMA KillKeepsSpeech ==
  ASSUME TypeOK, InFunction, Speech, Kill, UNCHANGED clientSees
  PROVE  Speech'
<1>1. UNCHANGED <<said, toServer, server, got>> /\ Gone' /\ ~Gone
  BY DEF Kill, clientSees, Gone
<1>2. Plain' = Plain
  BY <1>1 DEF Plain, Current
<1>3. toServer # <<>> => Awaited' = Awaited
  <2>1. toServer # <<>> => NoPayload' = NoPayload
    BY <1>1 DEF NoPayload, EndOfStream
  <2> QED
    BY <1>1, <2>1 DEF Awaited
<1>4. toServer = <<>> => Spoken(toServer', said', Awaited')
  <2>1. toServer = <<>> => DOMAIN toServer' = {}
    BY <1>1
  <2> QED
    BY <2>1 DEF Spoken
<1> QED
  BY <1>1, <1>2, <1>3, <1>4, SpeechIs

LEMMA ServerKeepsRoles ==
  ASSUME Commands, Roles, ServerStep
  PROVE  Roles'
<1>1. /\ TypeOK /\ Progress /\ InFunction /\ UNCHANGED <<said, client>> /\ Serves
      /\ server \notin {"crashed", "lost", "ended"} /\ Current' = Current
  BY ServerMoves DEF Commands, Current
<1>2. TypeOK /\ Order /\ \A n \in 1 .. Current : said[n].op \in Op
  BY <1>1, TypeFacts DEF Commands, Store!Command, Op
<1>3. serving \in 0 .. Current /\ applied \in 0 .. Current
  BY <1>1, TypeFacts
<1>4. client' \in {"type", "size", "name"} => said'[Current'].op = "upload"
  BY <1>1 DEF Roles
<1>5. client' \in {"length", "payload"} => said'[Current'].op = "download"
  BY <1>1 DEF Roles
<1>6. ASSUME server' = "crashed" PROVE Gone'
  <2>1. Gone
    BY <1>1, <1>2, <1>6, ReadEffect DEF Serves, AtEnd, EndOfStream, Write, LoseStep, Op
  <2> QED
    BY <1>1, <2>1 DEF Gone
<1>7. ASSUME server' \in {"lengthAck", "payloadAck"}
      PROVE  serving' > 0 /\ said'[serving'].op = "download"
  <2>1. \/ server = "download" /\ UNCHANGED serving
        \/ server = "lengthAck" /\ UNCHANGED serving
    BY <1>1, <1>2, <1>7, ReadEffect DEF Serves, AtEnd, Write, LoseStep, Op
  <2>2. server = "download" => serving > 0 /\ said[serving].op = "download"
    BY <1>1, <1>3 DEF Progress, InFunction, Op
  <2> QED
    BY <1>1, <2>1, <2>2 DEF Roles
<1> QED
  BY <1>4, <1>5, <1>6, <1>7 DEF Roles

\* Without downloads the thread is nowhere in one.
LEMMA PlainPlaces ==
  ASSUME Commands, Roles, Plain
  PROVE  server \notin {"download", "lengthAck", "payloadAck"}
<1>1. serving \in 0 .. Current /\ applied \in 0 .. Current /\ Current \in Nat
  BY TypeFacts DEF Commands
<1>2. server \in {"download", "lengthAck", "payloadAck"} =>
        serving \in 1 .. Current /\ said[serving].op = "download"
  BY <1>1 DEF Commands, Progress, InFunction, Roles, Op
<1> QED
  BY <1>2 DEF Plain

LEMMA ServerKeepsSpeech ==
  ASSUME Commands, Roles, Speech, ServerStep
  PROVE  Speech'
<1>1. /\ TypeOK /\ Order /\ Progress /\ InFunction /\ UNCHANGED <<said, client>> /\ Serves
      /\ server \notin {"crashed", "lost", "ended"} /\ Current' = Current
  BY ServerMoves DEF Commands, Current
<1>2. Plain' = Plain /\ Gone' = Gone /\ Owed' = Owed /\ toServer \in Seq(TokenSet)
  BY <1>1, TypeFacts DEF Plain, Gone, Owed, After
<1>3. SUFFICES ASSUME Plain, server' \notin {"crashed", "lost"}
      PROVE  /\ Spoken(toServer', said, Awaited')
             /\ ~Gone => Owed = Following(toServer', said, Awaited')
  BY <1>1, <1>2, SpeechIs
<1>4. /\ Spoken(toServer, said, Awaited)
      /\ ~Gone => Owed = Following(toServer, said, Awaited)
  BY <1>1, <1>3, SpeechIs
<1>5. server \notin {"download", "lengthAck", "payloadAck"}
  BY <1>3, PlainPlaces
<1>6. ASSUME UNCHANGED toServer, Awaited' = Awaited
      PROVE  /\ Spoken(toServer', said, Awaited')
             /\ ~Gone => Owed = Following(toServer', said, Awaited')
  BY <1>4, <1>6
<1>7. ASSUME NEW kind, Read(kind), Awaited' = AfterIn(kind, Head(toServer).of, said)
      PROVE  /\ Spoken(toServer', said, Awaited')
             /\ ~Gone => Owed = Following(toServer', said, Awaited')
  <2>1. toServer # <<>> /\ Head(toServer).kind = kind /\ toServer' = Tail(toServer)
    BY <1>7 DEF Read
  <2>2. PICK q, s, a : q = toServer /\ s = said /\ a = Awaited
    OBVIOUS
  <2>3. q \in Seq(TokenSet) /\ q # <<>> /\ Spoken(q, s, a)
    BY <1>2, <1>4, <2>1, <2>2
  <2>4. PICK S : S = TokenSet
    OBVIOUS
  <2>5. /\ Spoken(Tail(q), s, AfterIn(Head(q).kind, Head(q).of, s))
        /\ Following(Tail(q), s, AfterIn(Head(q).kind, Head(q).of, s)) = Following(q, s, a)
    BY <2>3, <2>4, SpokenTail
  <2> QED
    BY <1>4, <1>7, <2>1, <2>2, <2>5
<1>8. CASE AtEnd
  <2>1. Gone /\ DOMAIN toServer' = {}
    BY <1>8 DEF AtEnd, EndOfStream
  <2> QED
    BY <2>1 DEF Spoken
<1>9. CASE /\ server = "idle" /\ Read("command") /\ serving' = Head(toServer).of
           /\ Write(Ack, said[Head(toServer).of].op)
  <2>1. Head(toServer).of \in 1 .. Current /\ server' = said[Head(toServer).of].op
    BY <1>1, <1>3, <1>9, ReadEffect DEF Write
  <2>2. server' \in Op \ {"download"}
    BY <1>1, <1>3, <2>1, TypeFacts DEF Plain, Store!Command, Op
  <2>3. Awaited' = AfterIn("command", Head(toServer).of, said)
    BY <2>1, <2>2 DEF Awaited, AfterIn, Expected, Op
  <2> QED
    BY <1>7, <1>9, <2>3
<1>10. CASE /\ server \in {"delete", "list", "exit"} /\ server' \in {"idle", "ended"}
            /\ UNCHANGED <<toServer, toClient, serving>>
  BY <1>6, <1>10 DEF Awaited
<1>11. CASE server = "upload" /\ Read("type") /\ Write(Ack, "size") /\ UNCHANGED serving
  <2>1. server' = "size"
    BY <1>3, <1>11 DEF Write
  <2> QED
    BY <1>7, <1>11, <2>1 DEF Awaited, AfterIn, Expected
<1>12. CASE server = "size" /\ Read("size") /\ Write(Ack, "name") /\ UNCHANGED serving
  <2>1. server' = "name"
    BY <1>3, <1>12 DEF Write
  <2> QED
    BY <1>7, <1>12, <2>1 DEF Awaited, AfterIn, Expected
<1>13. CASE /\ server = "name" /\ Read("name") /\ Write(Ack, "payload") /\ UNCHANGED serving
            /\ NoPayload' <=> said[serving].empty
  <2>1. server' = "payload"
    BY <1>3, <1>13 DEF Write
  <2>2. Head(toServer).of = serving
    <3>1. ReadData("name") /\ UNCHANGED said
      BY <1>1, <1>13 DEF ReadData
    <3>2. ~EndOfStream
      BY <1>13 DEF Read, EndOfStream
    <3> QED
      BY <1>1, <1>13, <3>1, <3>2, ReadDataEffect
  <2> QED
    BY <1>7, <1>13, <2>1, <2>2 DEF Awaited, AfterIn, Expected
<1>14. CASE /\ server = "payload" /\ NoPayload /\ UNCHANGED <<toServer, serving>>
            /\ Write(Ack, "idle")
  <2>1. server' = "idle"
    BY <1>3, <1>14 DEF Write
  <2> QED
    BY <1>6, <1>14, <2>1 DEF Awaited
<1>15. CASE /\ server = "payload" /\ ~NoPayload /\ Read("payload") /\ UNCHANGED serving
            /\ Write(Ack, "idle")
  <2>1. server' = "idle"
    BY <1>3, <1>15 DEF Write
  <2> QED
    BY <1>7, <1>15, <2>1 DEF Awaited, AfterIn
<1>16. ~LoseStep
  BY <1>3 DEF LoseStep
<1> QED
  BY <1>1, <1>5, <1>8, <1>9, <1>10, <1>11, <1>12, <1>13, <1>14, <1>15, <1>16 DEF Serves

-----------------------------------------------------------------------------
(* Every write to the client ends soon. *)

LEMMA WritesEndIs ==
  (WritesEnd <=> Ended(toClient)) /\ (WritesEnd' <=> Ended(toClient'))
BY DEF WritesEnd, Ends, Ended

LEMMA WritesAreOne ==
  OneWrite(Ack) /\ OneWrite(Missing) /\ OneWrite(Payload) /\ \A n : OneWrite(Length(n))
BY BytesAreOneWrite DEF Ack, Missing, Payload, Length, ByteKind

\* A step of the thread writes at most once and reads at most one token.
LEMMA ServerWrites ==
  ASSUME Commands, ServerStep
  PROVE  /\ toClient' = toClient \/ \E b : OneWrite(b) /\ toClient' = toClient \o b
         /\ UNCHANGED toServer \/ \E kind : Read(kind)
<1>1. Serves /\ toClient \in Seq(ByteSet)
  BY ServerMoves, TypeFacts DEF Commands
<1>2. toClient \o << >> = toClient
  BY <1>1, ConcatEmptySeq
<1>3. ASSUME NEW b, NEW next, Write(b, next), OneWrite(b) \/ b = <<>>
      PROVE  toClient' = toClient \/ \E c : OneWrite(c) /\ toClient' = toClient \o c
  BY <1>2, <1>3 DEF Write
<1>4. toClient' = toClient \/ \E b : OneWrite(b) /\ toClient' = toClient \o b
  BY <1>1, <1>3, WritesAreOne DEF Serves, AtEnd, LoseStep
<1>5. UNCHANGED toServer \/ \E kind : Read(kind)
  BY <1>1 DEF Serves, AtEnd, LoseStep
<1> QED
  BY <1>4, <1>5

LEMMA ServerKeepsWritesEnd ==
  ASSUME Commands, WritesEnd, ServerStep
  PROVE  WritesEnd'
<1>1. toClient \in Seq(ByteSet) /\ Ended(toClient)
  BY TypeFacts, WritesEndIs DEF Commands
<1>2. toClient' = toClient \/ \E b : OneWrite(b) /\ toClient' = toClient \o b
  BY ServerWrites
<1>3. Ended(toClient')
  BY <1>1, <1>2, EndsWritten
<1> QED
  BY <1>3, WritesEndIs

LEMMA ClientKeepsWritesEnd ==
  ASSUME TypeOK, WritesEnd, ClientStep
  PROVE  WritesEnd'
<1>1. toClient \in Seq(ByteSet) /\ Ended(toClient) /\ Len(toClient) \in Nat
  BY TypeFacts, WritesEndIs, SeqFacts
<1>2. PICK n \in Nat : Take(n)
  BY <1>1, ClientMoves, ReadSomeType
<1>3. CASE n <= Len(toClient)
  BY <1>1, <1>2, <1>3, TakeRest, EndedRest, WritesEndIs
<1>4. CASE n > Len(toClient)
  <2>1. DOMAIN toClient' = {}
    BY <1>1, <1>2, <1>4, TakeRest
  <2> QED
    BY <2>1, WritesEndIs DEF Ended
<1> QED
  BY <1>1, <1>3, <1>4

-----------------------------------------------------------------------------
(* At most one upload and no download: nobody is lost. *)

LEMMA BalanceIs ==
  /\ Balance <=> Cardinality(EndsOf(toClient)) + Cardinality(DueIn(toServer, said)) + Pending
                   <= Count("upload") + Counts
  /\ Balance' <=> Cardinality(EndsOf(toClient')) + Cardinality(DueIn(toServer', said')) + Pending'
                    <= Count("upload")' + Counts'
BY DueIs DEF Balance, EndsOf

LEMMA PendingType == Pending \in 0 .. 1 /\ Pending' \in 0 .. 1
BY DEF Pending

LEMMA BalanceTypes ==
  ASSUME TypeOK
  PROVE  /\ Cardinality(EndsOf(toClient)) \in Nat /\ Cardinality(DueIn(toServer, said)) \in Nat
         /\ Pending \in 0 .. 1 /\ Count("upload") \in Nat /\ Counts \in 0 .. 2
<1>1. toClient \in Seq(ByteSet) /\ toServer \in Seq(TokenSet)
  BY TypeFacts
<1>2. Counts \in 0 .. 2
  BY DEF Counts
<1>3. Cardinality(EndsOf(toClient)) \in Nat
  BY <1>1, EndsFinite
<1>4. Cardinality(DueIn(toServer, said)) \in Nat
  BY <1>1, DueUnits
<1> QED
  BY <1>2, <1>3, <1>4, CountType, PendingType

\* With an unread name the client has nothing to say or to read.
LEMMA NameWaits ==
  ASSUME Commands, Roles, Speech, Balance, NameLast, InStep, ~Gone,
         Plain, Count("upload") <= 1,
         NEW i \in DOMAIN toServer, toServer[i].kind = "name"
  PROVE  /\ client # "ready"
         /\ client # "closed" => Cardinality(EndsOf(toClient)) = 0
<1>1. TypeOK /\ Order /\ toServer \in Seq(TokenSet) /\ Current \in Nat
  BY TypeFacts DEF Commands
<1>2. i = Len(toServer) /\ toServer # <<>> /\ Len(toServer) # 0 /\ i \in 1 .. Len(toServer)
  BY <1>1, SeqFacts DEF NameLast
<1>3. PICK t : t = toServer[i]
  OBVIOUS
<1>4. t \in TokenSet /\ t.kind = "name" /\ t.of = Current
  BY <1>1, <1>2, <1>3, SeqFacts DEF Order
<1>5. Current \in 1 .. Current
  BY <1>1, <1>4 DEF TokenSet
<1>6. Owed = AfterIn("name", Current, said)
  <2>1. server \notin {"crashed", "lost"}
    BY DEF InStep, Roles
  <2> QED
    BY <1>2, <1>3, <1>4, <2>1, SpeechIs DEF Following
<1>7. RepliesIn(t, said) <= Cardinality(DueIn(toServer, said))
  <2>1. PICK q, s : q = toServer /\ s = said
    OBVIOUS
  <2> QED
    BY <1>1, <1>2, <1>3, <2>1, DueOfOne
<1>8. RepliesIn(t, said) = IF said[Current].empty THEN 2 ELSE 1
  BY <1>4 DEF RepliesIn
<1>9. said[Current].op # "download"
  BY <1>5 DEF Plain
<1>10. client \notin {"length", "payload"}
  BY <1>9 DEF Roles
<1>11. Cardinality(EndsOf(toClient)) + Cardinality(DueIn(toServer, said)) + Pending
         <= Count("upload") + Counts
  BY BalanceIs
<1>12. ASSUME client \in {"ready", "command"} PROVE said[Current].empty
  BY <1>6, <1>12, OwedIs DEF AfterIn
<1>13. client = "command" => said[Current].op # "upload"
  BY <1>6, OwedIs DEF AfterIn
<1>14. client \notin {"type", "size"}
  BY <1>6, OwedIs DEF AfterIn
<1>15. Counts = IF client = "command" \/ (client = "name" /\ said[Current].empty) THEN 1 ELSE 0
  BY <1>9, <1>10, <1>13 DEF Counts
<1>16. client \in {"ready", "command", "name", "closed"}
  BY <1>1, <1>10, <1>14 DEF TypeOK, InStep, Gone
<1> QED
  BY <1>1, <1>7, <1>8, <1>11, <1>12, <1>15, <1>16, BalanceTypes

LEMMA CountKept ==
  ASSUME UNCHANGED said
  PROVE  /\ Count("upload")' = Count("upload") /\ (Plain' <=> Plain) /\ Current' = Current
BY DEF Count, Plain, Current

LEMMA PlainBalance ==
  ASSUME Commands, Answers, Plain, InStep, ~Gone
  PROVE  Alone /\ Balance
  BY PlainPlaces DEF Answers, Stuck

\* What is written behind anything but a name may be a name.
LEMMA NameLastAppend ==
  ASSUME NEW S, NEW q \in Seq(S), NEW t, NEW r, r = Append(q, t),
         \A i \in DOMAIN q : q[i].kind # "name"
  PROVE  \A i \in DOMAIN r : r[i].kind = "name" => i = Len(r)
<1>1. Len(q) \in Nat /\ DOMAIN q = 1 .. Len(q)
  BY SeqFacts
<1>2. Len(r) = Len(q) + 1 /\ DOMAIN r = 1 .. Len(q) + 1 /\ \A i \in 1 .. Len(q) : r[i] = q[i]
  BY <1>1
<1> QED
  BY <1>1, <1>2

LEMMA ClientKeepsNameLast ==
  ASSUME Commands, Answers, ClientStep
  PROVE  NameLast'
<1>1. /\ TypeOK /\ toServer \in Seq(TokenSet)
      /\ UNCHANGED said /\ ~Gone /\ InStep /\ client \notin {"ready", "closed", "killed", "lost"}
  BY ClientMoves, TypeFacts DEF Commands
<1>2. SUFFICES ASSUME Plain, Count("upload") <= 1
      PROVE  \A i \in DOMAIN toServer' : toServer'[i].kind = "name" => i = Len(toServer')
  BY <1>1, CountKept DEF NameLast
<1>3. ASSUME NEW i \in DOMAIN toServer, toServer[i].kind = "name" PROVE FALSE
  <2>1. Roles /\ Speech /\ NameLast /\ WritesEnd /\ Balance
    BY <1>1, <1>2, PlainBalance DEF Answers
  <2>2. Cardinality(EndsOf(toClient)) = 0
    BY <1>1, <1>2, <1>3, <2>1, NameWaits
  <2>3. toClient \in Seq(ByteSet) /\ Ended(toClient)
    BY <1>1, <2>1, TypeFacts, WritesEndIs
  <2>4. client # "payload"
    <3>1. Current \in 1 .. Current
      <4>1. toServer[i] \in TokenSet
        BY <1>1, SeqFacts
      <4>2. Current \in Nat
        BY <1>1, TypeFacts
      <4> QED
        BY <4>1, <4>2 DEF TokenSet
    <3> QED
      BY <1>2, <2>1, <3>1 DEF Roles, Plain
  <2>5. PICK n \in ReadSome(8) : Take(n)
    BY <1>1, <2>4, ClientMoves
  <2>6. Cardinality(EndsOf(toClient')) + 1 <= 0 /\ toClient' \in Seq(ByteSet)
    BY <2>2, <2>3, <2>5, ReadTakesEnd
  <2>7. Cardinality(EndsOf(toClient')) \in Nat
    BY <2>6, EndsFinite
  <2> QED
    BY <2>6, <2>7
<1>4. toServer' = toServer \/ \E t : toServer' = Append(toServer, t)
  BY <1>1, ClientEffect
<1> QED
  BY <1>1, <1>3, <1>4, NameLastAppend

LEMMA SayKeepsNameLast ==
  ASSUME Commands, Answers, Say
  PROVE  NameLast'
<1>1. /\ TypeOK /\ toServer \in Seq(TokenSet) /\ client = "ready"
      /\ toServer' = Append(toServer, [kind |-> "command", of |-> Current'])
  BY SayEffect, TypeFacts DEF Commands
<1>2. SUFFICES ASSUME Plain', Count("upload")' <= 1
      PROVE  \A i \in DOMAIN toServer' : toServer'[i].kind = "name" => i = Len(toServer')
  BY DEF NameLast
<1>3. Plain /\ Count("upload") <= 1
  <2>1. Count("upload") \in Nat
    BY <1>1, CountType
  <2> QED
    BY <1>1, <1>2, <2>1, CountSay
<1>4. ASSUME NEW i \in DOMAIN toServer, toServer[i].kind = "name" PROVE FALSE
  <2>1. InStep /\ ~Gone
    BY <1>1, <1>3 DEF Answers, Gone
  <2>2. Roles /\ Speech /\ NameLast /\ Balance
    BY <1>3, <2>1, PlainBalance DEF Answers
  <2> QED
    BY <1>1, <1>3, <1>4, <2>1, <2>2, NameWaits
<1> QED
  BY <1>1, <1>4, NameLastAppend

LEMMA ServerKeepsNameLast ==
  ASSUME Commands, NameLast, ServerStep
  PROVE  NameLast'
<1>1. toServer \in Seq(TokenSet) /\ UNCHANGED said
  BY ServerMoves, TypeFacts DEF Commands
<1>2. SUFFICES ASSUME Plain, Count("upload") <= 1
      PROVE  \A i \in DOMAIN toServer' : toServer'[i].kind = "name" => i = Len(toServer')
  BY <1>1, CountKept DEF NameLast
<1>3. \A i \in DOMAIN toServer : toServer[i].kind = "name" => i = Len(toServer)
  BY <1>2 DEF NameLast
<1>4. CASE UNCHANGED toServer
  BY <1>3, <1>4
<1>5. ASSUME NEW kind, Read(kind)
      PROVE  \A i \in DOMAIN toServer' : toServer'[i].kind = "name" => i = Len(toServer')
  <2>1. PICK m \in Nat : Len(toServer) = m + 1
    <3>1. Len(toServer) \in Nat /\ Len(toServer) # 0
      BY <1>1, <1>5, SeqFacts DEF Read
    <3> QED
      BY <3>1
  <2>2. /\ DOMAIN toServer = 1 .. m + 1 /\ Len(toServer') = m /\ DOMAIN toServer' = 1 .. m
        /\ \A i \in 1 .. m : toServer'[i] = toServer[i + 1]
    <3>1. toServer # <<>> /\ toServer' = Tail(toServer)
      BY <1>5 DEF Read
    <3> QED
      BY <1>1, <2>1, <3>1, HeadTailProperties, SeqFacts
  <2>3. ASSUME NEW i \in 1 .. m, toServer'[i].kind = "name" PROVE i = m
    <3>1. i + 1 \in 1 .. m + 1
      BY <2>1
    <3>2. i + 1 = m + 1
      BY <1>3, <2>1, <2>2, <2>3, <3>1
    <3> QED
      BY <2>1, <3>2
  <2> QED
    BY <2>2, <2>3
<1> QED
  BY <1>4, <1>5, ServerWrites

\* The session thread reads what it expects.
LEMMA ServerNotLost ==
  ASSUME Commands, Answers, Plain, Count("upload") <= 1, ServerStep
  PROVE  server' # "lost"
<1>1. /\ TypeOK /\ Order /\ Serves /\ InStep /\ server \notin {"crashed", "lost", "ended"}
      /\ toServer \in Seq(TokenSet)
  BY ServerMoves, TypeFacts DEF Commands
<1>2. ~LoseStep
  <2>1. SUFFICES ASSUME LoseStep PROVE FALSE
    OBVIOUS
  <2>2. /\ server \in DOMAIN Expected /\ ~(server = "payload" /\ NoPayload)
        /\ toServer # <<>>
        /\ \/ Head(toServer).kind # Expected[server]
           \/ server \in {"name", "lengthAck", "payloadAck"} /\ Len(toServer) > 1
    BY <2>1 DEF LoseStep
  <2>3. Roles /\ Speech /\ NameLast
    BY DEF Answers
  <2>4. server \notin {"lengthAck", "payloadAck"}
    BY <2>3, PlainPlaces
  <2>5. Awaited = Expected[server]
    BY <2>2, <2>4 DEF Awaited, Expected
  <2>6. Spoken(toServer, said, Awaited) /\ 1 \in DOMAIN toServer /\ Head(toServer) = toServer[1]
    <3>1. Len(toServer) \in Nat /\ Len(toServer) # 0 /\ DOMAIN toServer = 1 .. Len(toServer)
      BY <1>1, <2>2, SeqFacts
    <3>2. 1 \in 1 .. Len(toServer)
      BY <3>1
    <3> QED
      BY <1>1, <2>3, <3>1, <3>2, SpeechIs
  <2>7. toServer[1].kind = Expected[server]
    BY <2>5, <2>6 DEF Spoken
  <2>8. server = "name" /\ Len(toServer) > 1 /\ toServer[1].kind = "name"
    BY <2>2, <2>4, <2>6, <2>7 DEF Expected
  <2>9. 1 = Len(toServer)
    BY <2>3, <2>6, <2>8 DEF NameLast
  <2>10. PICK m \in Nat : m = Len(toServer)
    BY <1>1, SeqFacts
  <2>11. m > 1 /\ 1 = m
    BY <2>8, <2>9, <2>10
  <2> QED
    BY <2>11
<1>3. ASSUME server' = "lost" PROVE FALSE
  <2>1. Read("command") => said[Head(toServer).of].op \in Op
    <3>1. UNCHANGED said
      BY ServerMoves
    <3> QED
      BY <1>1, <3>1, ReadEffect, TypeFacts DEF Store!Command, Op
  <2> QED
    BY <1>1, <1>2, <1>3, <2>1 DEF Serves, AtEnd, Write, Op
<1> QED
  BY <1>3

\* And the client gets no length it did not ask for.
LEMMA ClientNotLost ==
  ASSUME Commands, Roles, Plain, ClientStep
  PROVE  client' # "lost"
<1>1. TypeOK /\ Busy /\ Moves /\ client \notin {"ready", "killed", "lost"}
  BY ClientMoves DEF Commands
<1>2. Current \in 1 .. Current
  BY <1>1, TypeFacts DEF Busy
<1>3. client # "length"
  BY <1>2 DEF Roles, Plain
<1> QED
  BY <1>1, <1>3 DEF Moves

-----------------------------------------------------------------------------
(* The client reads a length and a payload when nothing else is on its way. *)

Acks(q)     == {i \in DOMAIN q : q[i].kind = "ack"}
Lengths(q)  == {i \in DOMAIN q : q[i].kind = "length"}
HasPayload  == ~said[files[said[serving].file]].empty
LengthComes == /\ toServer = <<>> /\ client # "payload"
               /\ \A i \in Lengths(toClient) :
                    HasPayload /\ (toClient[i].ends => i = Len(toClient))
LengthCame  == Len(toServer) = 1 /\ client = "payload" /\ toClient = <<>> /\ HasPayload
PayloadComes == toServer = <<>> /\ client = "payload" /\ toClient = Payload
PayloadCame == Acks(toServer) = {1} /\ client # "payload" /\ toClient = <<>>
NoDownload  == Acks(toServer) = {} /\ client # "payload" /\ Lengths(toClient) = {}

LEMMA AloneIs ==
  /\ Alone <=> /\ server = "lengthAck" => LengthComes \/ LengthCame
               /\ server = "payloadAck" => PayloadComes \/ PayloadCame
               /\ server \notin {"lengthAck", "payloadAck"} => NoDownload
  /\ Alone' <=> /\ server' = "lengthAck" => LengthComes' \/ LengthCame'
                /\ server' = "payloadAck" => PayloadComes' \/ PayloadCame'
                /\ server' \notin {"lengthAck", "payloadAck"} => NoDownload'
<1>1. Alone <=> /\ server = "lengthAck" => LengthComes \/ LengthCame
                /\ server = "payloadAck" => PayloadComes \/ PayloadCame
                /\ server \notin {"lengthAck", "payloadAck"} => NoDownload
  BY DEF Alone, LengthComes, LengthCame, PayloadComes, PayloadCame, NoDownload, Acks, Lengths,
         HasPayload
<1>2. Alone' <=> /\ server' = "lengthAck" => LengthComes' \/ LengthCame'
                 /\ server' = "payloadAck" => PayloadComes' \/ PayloadCame'
                 /\ server' \notin {"lengthAck", "payloadAck"} => NoDownload'
  BY DEF Alone, LengthComes, LengthCame, PayloadComes, PayloadCame, NoDownload, Acks, Lengths,
         HasPayload
<1> QED
  BY <1>1, <1>2

LEMMA LengthsRest ==
  ASSUME NEW S, NEW q \in Seq(S), NEW r \in Seq(S), NEW n, RestOf(q, n, r)
  PROVE  \A i \in Lengths(r) : i + n \in Lengths(q) /\ r[i] = q[i + n]
                               /\ (i + n = Len(q) => i = Len(r))
<1>1. /\ Len(q) \in Nat /\ Len(r) \in Nat /\ n \in Nat /\ DOMAIN q = 1 .. Len(q)
      /\ DOMAIN r = 1 .. Len(r) /\ n <= Len(q) /\ Len(r) = Len(q) - n
  BY SeqFacts DEF RestOf
<1>2. ASSUME NEW i \in Lengths(r)
      PROVE  i + n \in Lengths(q) /\ r[i] = q[i + n] /\ (i + n = Len(q) => i = Len(r))
  <2>1. i \in 1 .. Len(r) /\ r[i].kind = "length" /\ r[i] = q[i + n]
    BY <1>1 DEF Lengths, RestOf
  <2>2. i + n \in 1 .. Len(q) /\ (i + n = Len(q) => i = Len(r))
    <3>1. PICK m \in Nat, l \in Nat : m = Len(q) /\ l = Len(r) /\ n \in Nat /\ l = m - n
      BY <1>1
    <3>2. i \in 1 .. l
      BY <2>1, <3>1
    <3>3. i + n \in 1 .. m /\ (i + n = m => i = l)
      BY <3>1, <3>2
    <3> QED
      BY <3>1, <3>3
  <2> QED
    BY <1>1, <2>1, <2>2 DEF Lengths
<1> QED
  BY <1>2

LEMMA AcksAppend ==
  ASSUME NEW S, NEW q \in Seq(S), NEW t, NEW r, r = Append(q, t)
  PROVE  /\ t.kind # "ack" => Acks(r) = Acks(q)
         /\ q = <<>> => /\ Len(r) = 1 /\ Head(r) = t /\ r # <<>>
                        /\ t.kind = "ack" => Acks(r) = {1}
<1>1. PICK m \in Nat : Len(q) = m /\ DOMAIN q = 1 .. m /\ (q = <<>> <=> m = 0)
  BY SeqFacts
<1>2. Len(r) = m + 1 /\ DOMAIN r = 1 .. m + 1 /\ r[m + 1] = t /\ \A i \in 1 .. m : r[i] = q[i]
  BY <1>1
<1>3. Acks(r) = Acks(q) \cup (IF t.kind = "ack" THEN {m + 1} ELSE {})
  <2>1. \A i : i \in 1 .. m + 1 <=> (i \in 1 .. m \/ i = m + 1)
    BY <1>1
  <2>2. m + 1 \notin 1 .. m
    BY <1>1
  <2> QED
    BY <1>1, <1>2, <2>1, <2>2 DEF Acks
<1>4. ASSUME q = <<>> PROVE Len(r) = 1 /\ Head(r) = t /\ r # <<>> /\ Acks(q) = {}
  <2>1. m = 0 /\ r[1] = t /\ r # <<>> /\ Len(r) = 1
    BY <1>1, <1>2, <1>4
  <2>2. Acks(q) = {}
    BY <1>1, <2>1 DEF Acks
  <2> QED
    BY <2>1, <2>2
<1> QED
  BY <1>1, <1>3, <1>4

\* A thread that is about to be lost stays so until it is.
LEMMA StuckStays ==
  ASSUME TypeOK, Stuck, UNCHANGED server,
         UNCHANGED toServer \/ \E t : toServer' = Append(toServer, t)
  PROVE  Stuck'
<1>1. toServer \in Seq(TokenSet) /\ toServer # <<>> /\ Head(toServer).kind # "ack"
  BY TypeFacts DEF Stuck
<1>2. ASSUME NEW t, toServer' = Append(toServer, t)
      PROVE  toServer' # <<>> /\ Head(toServer') = Head(toServer)
  <2>1. PICK m \in Nat : Len(toServer) = m + 1
    <3>1. Len(toServer) \in Nat /\ Len(toServer) # 0
      BY <1>1, SeqFacts
    <3> QED
      BY <3>1
  <2>2. toServer'[1] = toServer[1] /\ toServer' # <<>>
    BY <1>1, <1>2, <2>1
  <2> QED
    BY <1>1, <2>2
<1> QED
  BY <1>1, <1>2 DEF Stuck

LEMMA ClientKeepsAlone ==
  ASSUME Commands, WritesEnd, Alone, ClientStep, ~Stuck'
  PROVE  Alone'
<1>1. /\ TypeOK /\ UNCHANGED <<said, server, serving, files>> /\ Moves /\ Ended(toClient)
      /\ toServer \in Seq(TokenSet) /\ toClient \in Seq(ByteSet)
  BY ClientMoves, TypeFacts, WritesEndIs DEF Commands
<1>2. HasPayload' = HasPayload
  BY <1>1 DEF HasPayload
<1>3. ASSUME client # "payload"
      PROVE  /\ toClient # <<>> /\ toClient' \in Seq(ByteSet)
             /\ \E n : RestOf(toClient, n, toClient')
  <2>1. PICK n \in ReadSome(8) : Take(n)
    BY <1>1, <1>3, ClientMoves
  <2> QED
    BY <1>1, <2>1, ReadTakesEnd
<1>4. ASSUME NEW kind, Writes(kind)
      PROVE  /\ Acks(toServer) = {} /\ kind # "ack" => Acks(toServer') = {}
             /\ toServer = <<>> => /\ Len(toServer') = 1 /\ Head(toServer').kind = kind
                                   /\ toServer' # <<>>
                                   /\ kind = "ack" => Acks(toServer') = {1}
  <2>0. Token(kind).kind = kind
    BY DEF Token
  <2>1. PICK t : t = Token(kind) /\ t.kind = kind
    BY <2>0
  <2>2. toServer' = Append(toServer, t)
    BY <1>4, <2>1 DEF Writes
  <2> QED
    BY <1>1, <2>1, <2>2, AcksAppend
<1>5. CASE server = "lengthAck"
  <2>1. SUFFICES LengthComes' \/ LengthCame'
    BY <1>1, <1>5, AloneIs
  <2>2. ~LengthCame
    <3>1. client = "payload" => toClient # <<>>
      BY <1>1, ClientMoves
    <3> QED
      BY <3>1 DEF LengthCame
  <2>3. LengthComes
    BY <1>5, <2>2, AloneIs
  <2>4. toServer = <<>> /\ client # "payload"
    BY <2>3 DEF LengthComes
  <2>5. CASE UNCHANGED toServer
    <3>1. client' # "payload"
      BY <1>1, <1>4, <2>4, <2>5 DEF Moves
    <3>2. PICK n : RestOf(toClient, n, toClient') /\ toClient' \in Seq(ByteSet)
      BY <1>3, <2>4
    <3>3. ASSUME NEW i \in Lengths(toClient')
          PROVE  HasPayload /\ (toClient'[i].ends => i = Len(toClient'))
      <4>1. /\ i + n \in Lengths(toClient) /\ toClient'[i] = toClient[i + n]
            /\ i + n = Len(toClient) => i = Len(toClient')
        BY <1>1, <3>2, LengthsRest
      <4> QED
        BY <2>3, <4>1 DEF LengthComes
    <3> QED
      BY <1>2, <2>4, <2>5, <3>1, <3>3 DEF LengthComes
  <2>6. CASE ~UNCHANGED toServer
    <3>1. \E kind : Writes(kind) /\ (kind # "ack" \/ (client' = "payload" /\ LengthRead))
      BY <1>1, <2>4, <2>6 DEF Moves
    <3>2. PICK kind : Writes(kind) /\ (kind # "ack" \/ (client' = "payload" /\ LengthRead))
      BY <3>1
    <3>3. toServer' # <<>> /\ Len(toServer') = 1 /\ Head(toServer').kind = kind
      BY <1>4, <2>4, <3>2
    <3>4. kind = "ack"
      BY <1>1, <1>5, <3>3 DEF Stuck
    <3>5. client' = "payload" /\ LengthRead
      BY <3>2, <3>4
    <3>6. 8 \in Lengths(toClient) /\ toClient[8].ends
      <4>1. PICK m \in Nat : m = Len(toClient) /\ DOMAIN toClient = 1 .. m
        BY <1>1, SeqFacts
      <4>2. m >= 8
        BY <3>5, <4>1 DEF LengthRead
      <4>3. 8 \in 1 .. m
        BY <4>2
      <4> QED
        BY <3>5, <4>1, <4>3 DEF LengthRead, Lengths
    <3>7. HasPayload /\ 8 = Len(toClient)
      BY <2>3, <3>6 DEF LengthComes
    <3>8. toClient' = <<>>
      <4>1. Take(8)
        BY <3>5 DEF LengthRead
      <4>2. RestOf(toClient, 8, toClient') /\ toClient' \in Seq(ByteSet)
        <5>1. PICK n \in Nat : n = 8 /\ n <= Len(toClient)
          BY <3>7
        <5>2. Take(n)
          BY <4>1, <5>1
        <5>3. RestOf(toClient, n, toClient') /\ toClient' \in Seq(ByteSet)
          BY <1>1, <5>1, <5>2, TakeRest
        <5> QED
          BY <5>1, <5>3
      <4>3. Len(toClient') = 0
        BY <3>7, <4>2 DEF RestOf
      <4> QED
        BY <4>2, <4>3, SeqFacts
    <3> QED
      BY <1>2, <3>3, <3>5, <3>7, <3>8 DEF LengthCame
  <2> QED
    BY <2>5, <2>6
<1>6. CASE server = "payloadAck"
  <2>1. SUFFICES PayloadComes' \/ PayloadCame'
    BY <1>1, <1>6, AloneIs
  <2>2. ~PayloadCame
    BY <1>3 DEF PayloadCame
  <2>3. PayloadComes
    BY <1>6, <2>2, AloneIs
  <2>4. toServer = <<>> /\ client = "payload" /\ toClient = Payload /\ Take(4)
    BY <1>1, <2>3, ClientMoves DEF PayloadComes
  <2>5. client' = "ready" /\ Writes("ack")
    BY <1>1, <2>4 DEF Moves
  <2>6. Acks(toServer') = {1}
    BY <1>4, <2>4, <2>5
  <2>7. toClient' = <<>>
    <3>1. Len(toClient) = 4
      BY <2>4, BytesAreOneWrite DEF Payload, ByteKind
    <3>2. RestOf(toClient, 4, toClient') /\ toClient' \in Seq(ByteSet)
      BY <1>1, <2>4, <3>1, TakeRest
    <3>3. Len(toClient') = 0
      BY <3>1, <3>2 DEF RestOf
    <3> QED
      BY <3>2, <3>3, SeqFacts
  <2> QED
    BY <2>5, <2>6, <2>7 DEF PayloadCame
<1>7. CASE server \notin {"lengthAck", "payloadAck"}
  <2>1. SUFFICES NoDownload'
    BY <1>1, <1>7, AloneIs
  <2>2. Acks(toServer) = {} /\ client # "payload" /\ Lengths(toClient) = {}
    BY <1>7, AloneIs DEF NoDownload
  <2>3. ~LengthRead
    <3>1. SUFFICES ASSUME LengthRead PROVE FALSE
      OBVIOUS
    <3>2. PICK m \in Nat : m = Len(toClient) /\ DOMAIN toClient = 1 .. m
      BY <1>1, SeqFacts
    <3>3. m >= 8
      BY <3>1, <3>2 DEF LengthRead
    <3>4. 8 \in 1 .. m
      BY <3>3
    <3> QED
      BY <2>2, <3>1, <3>2, <3>4 DEF LengthRead, Lengths
  <2>4. client' # "payload"
    BY <1>1, <2>2, <2>3 DEF Moves
  <2>5. Acks(toServer') = {}
    <3>1. UNCHANGED toServer \/ \E kind : kind # "ack" /\ Writes(kind)
      BY <1>1, <2>2, <2>3 DEF Moves
    <3> QED
      BY <1>4, <2>2, <3>1
  <2>6. Lengths(toClient') = {}
    <3>1. PICK n : RestOf(toClient, n, toClient') /\ toClient' \in Seq(ByteSet)
      BY <1>3, <2>2
    <3> QED
      BY <1>1, <2>2, <3>1, LengthsRest
  <2> QED
    BY <2>4, <2>5, <2>6 DEF NoDownload
<1> QED
  BY <1>5, <1>6, <1>7

LEMMA SayKeepsAlone ==
  ASSUME TypeOK, Alone, Say, UNCHANGED clientSees, ~Stuck'
  PROVE  Alone'
<1>1. /\ client = "ready" /\ client' = "command" /\ UNCHANGED <<toClient, server>>
      /\ toServer' = Append(toServer, [kind |-> "command", of |-> Current'])
      /\ toServer \in Seq(TokenSet)
  BY SayEffect, TypeFacts DEF clientSees
<1>2. PICK t : t = [kind |-> "command", of |-> Current']
  OBVIOUS
<1>3. /\ Acks(toServer) = {} => Acks(toServer') = {}
      /\ Acks(toServer) = {1} => Acks(toServer') = {1}
      /\ toServer = <<>> => Head(toServer').kind # "ack" /\ toServer' # <<>>
  <2>1. PICK q, r : q = toServer /\ r = toServer'
    OBVIOUS
  <2>2. PICK S : S = TokenSet
    OBVIOUS
  <2>3. q \in Seq(S) /\ r = Append(q, t) /\ t.kind # "ack"
    BY <1>1, <1>2, <2>1, <2>2
  <2>4. /\ Acks(q) = {} => Acks(r) = {}
        /\ Acks(q) = {1} => Acks(r) = {1}
        /\ q = <<>> => Head(r) = t /\ r # <<>>
    <3>1. Acks(r) = Acks(q)
      BY ONLY <2>3, AcksAppend
    <3>2. q = <<>> => Head(r) = t /\ r # <<>>
      BY ONLY <2>3, AcksAppend
    <3> QED
      BY <3>1, <3>2
  <2> QED
    BY <2>1, <2>3, <2>4
<1>4. server # "lengthAck"
  <2>1. SUFFICES ASSUME server = "lengthAck" PROVE FALSE
    OBVIOUS
  <2>2. toServer = <<>>
    BY <1>1, <2>1, AloneIs DEF LengthComes, LengthCame
  <2> QED
    BY <1>1, <1>3, <2>1, <2>2 DEF Stuck
<1>5. server = "payloadAck" => PayloadCame'
  BY <1>1, <1>3, AloneIs DEF PayloadComes, PayloadCame
<1>6. server # "payloadAck" => NoDownload'
  BY <1>1, <1>3, <1>4, AloneIs DEF NoDownload
<1> QED
  BY <1>1, <1>4, <1>5, <1>6, AloneIs

LEMMA AcksTail ==
  ASSUME NEW S, NEW q \in Seq(S), q # <<>>
  PROVE  /\ Acks(q) \subseteq {1} => Acks(Tail(q)) = {}
         /\ Acks(q) = {} => Head(q).kind # "ack"
         /\ Len(q) = 1 => Tail(q) = <<>>
<1>1. PICK m \in Nat : Len(q) = m + 1
  <2>1. Len(q) \in Nat /\ Len(q) # 0
    BY SeqFacts
  <2> QED
    BY <2>1
<1>2. /\ DOMAIN q = 1 .. m + 1 /\ DOMAIN Tail(q) = 1 .. m /\ Len(Tail(q)) = m
      /\ Head(q) = q[1] /\ Tail(q) \in Seq(S)
      /\ \A i \in 1 .. m : Tail(q)[i] = q[i + 1]
  BY <1>1, HeadTailProperties, SeqFacts
<1>3. \A i \in 1 .. m : i + 1 \in 1 .. m + 1 /\ i + 1 # 1
  BY <1>1
<1>4. 1 \in 1 .. m + 1
  BY <1>1
<1>5. Acks(q) \subseteq {1} => Acks(Tail(q)) = {}
  BY <1>2, <1>3 DEF Acks
<1>6. Acks(q) = {} => Head(q).kind # "ack"
  BY <1>2, <1>4 DEF Acks
<1>7. Len(q) = 1 => Tail(q) = <<>>
  <2>1. Len(q) = 1 => m = 0
    BY SMTT(20), <1>1
  <2> QED
    BY <1>2, <2>1, SeqFacts
<1> QED
  BY <1>5, <1>6, <1>7

\* r is q and one write more; byte i of r is one of that write.
Brings(q, b, r)    == OneWrite(b) /\ r = q \o b
ComesWith(b, r, i) == \E k \in Lengths(b) : r[i] = b[k] /\ (k = Len(b) => i = Len(r))

\* What a write brings of a length.
LEMMA LengthsWritten ==
  ASSUME NEW q \in Seq(ByteSet), Lengths(q) = {}, NEW b, NEW r, Brings(q, b, r),
         NEW i \in Lengths(r)
  PROVE  ComesWith(b, r, i)
<1>1. /\ Len(r) = Len(q) + Len(b) /\ DOMAIN r = 1 .. Len(q) + Len(b)
      /\ \A j \in 1 .. Len(q) : r[j] = q[j]
      /\ \A j \in 1 .. Len(b) : r[Len(q) + j] = b[j]
      /\ DOMAIN q = 1 .. Len(q) /\ DOMAIN b = 1 .. Len(b)
  BY EndsWritten, SeqFacts DEF Brings, OneWrite
<1>2. PICK m \in Nat, l \in Nat : m = Len(q) /\ l = Len(b)
  BY SeqFacts DEF Brings, OneWrite
<1>3. i \in 1 .. m + l /\ r[i].kind = "length"
  BY <1>1, <1>2 DEF Lengths
<1>4. i \notin 1 .. m
  BY <1>1, <1>2, <1>3 DEF Lengths
<1>5. PICK k \in 1 .. l : m + k = i
  <2>1. i - m \in 1 .. l /\ m + (i - m) = i
    BY <1>2, <1>3, <1>4
  <2> QED
    BY <2>1
<1>6. r[i] = b[k] /\ k \in Lengths(b)
  BY <1>1, <1>2, <1>3, <1>5 DEF Lengths
<1>7. k = Len(b) => i = Len(r)
  BY <1>1, <1>2, <1>5
<1> QED
  BY <1>6, <1>7 DEF ComesWith

LEMMA LengthsOfWrites ==
  /\ Lengths(Ack) = {} /\ Lengths(Missing) = {}
  /\ \A n : \A i \in Lengths(Length(n)) :
       ~said[n].empty /\ (Length(n)[i].ends => i = Len(Length(n)))
<1>1. ASSUME NEW kind \in ByteKind \ {"length"}, NEW n \in 1 .. 8
      PROVE  Lengths(Bytes(kind, n)) = {}
  BY DEF Lengths, Bytes
<1>2. ASSUME NEW n, NEW i \in Lengths(Length(n))
      PROVE  ~said[n].empty /\ (Length(n)[i].ends => i = Len(Length(n)))
  <2>1. said[n].empty => Length(n) = Bytes("zero", 8)
    BY DEF Length
  <2>2. ~said[n].empty
    BY <1>1, <1>2, <2>1 DEF ByteKind
  <2>3. Length(n) = Bytes("length", 8)
    BY <2>2 DEF Length
  <2>4. Len(Bytes("length", 8)) = 8
    BY BytesAreOneWrite DEF ByteKind
  <2>5. i \in 1 .. 8
    BY <2>3 DEF Lengths, Bytes
  <2>6. Bytes("length", 8)[i] = [kind |-> "length", ends |-> i = 8]
    BY <2>5 DEF Bytes
  <2>7. CASE i = 8
    BY <2>2, <2>3, <2>4, <2>7
  <2>8. CASE i # 8
    <3>1. Bytes("length", 8)[i] = [kind |-> "length", ends |-> FALSE]
      BY <2>6, <2>8
    <3> QED
      BY <2>2, <2>3, <3>1
  <2> QED
    BY <2>7, <2>8
<1>3. Lengths(Ack) = {} /\ Lengths(Missing) = {}
  BY <1>1 DEF Ack, Missing, ByteKind
<1> QED
  BY <1>2, <1>3

LEMMA ServerKeepsAlone ==
  ASSUME Commands, Alone, ServerStep, ~Gone, InStep', ~Stuck'
  PROVE  Alone'
<1>1. /\ TypeOK /\ Order /\ UNCHANGED <<said, client>> /\ Serves
      /\ server \notin {"crashed", "lost", "ended"}
      /\ toServer \in Seq(TokenSet) /\ toClient \in Seq(ByteSet)
  BY ServerMoves, TypeFacts DEF Commands
<1>2. ~AtEnd /\ ~LoseStep
  BY DEF AtEnd, EndOfStream, LoseStep, InStep
<1>3. ASSUME NEW kind, Read(kind)
      PROVE  /\ toServer # <<>> /\ Head(toServer).kind = kind
             /\ Acks(toServer) \subseteq {1} => Acks(toServer') = {}
             /\ Acks(toServer) = {} => kind # "ack"
             /\ Len(toServer) = 1 => toServer' = <<>>
  BY <1>1, <1>3, AcksTail DEF Read
<1>4. ASSUME NEW b, NEW next, Write(b, next)
      PROVE  toClient' = toClient \o b /\ server' = next
  BY <1>4 DEF Write
<1>5. server \notin {"lengthAck", "payloadAck"} =>
        Acks(toServer) = {} /\ client # "payload" /\ Lengths(toClient) = {}
  BY AloneIs DEF NoDownload
<1>6. ASSUME server \notin {"lengthAck", "payloadAck"}, server' \notin {"lengthAck", "payloadAck"},
             UNCHANGED toServer \/ \E kind : Read(kind),
             \/ UNCHANGED toClient
             \/ \E b : OneWrite(b) /\ Lengths(b) = {} /\ toClient' = toClient \o b
      PROVE  Alone'
  <2>1. Acks(toServer') = {}
    BY <1>3, <1>5, <1>6
  <2>2. Lengths(toClient') = {}
    <3>1. CASE UNCHANGED toClient
      BY <1>5, <1>6, <3>1
    <3>2. ASSUME NEW b, OneWrite(b), Lengths(b) = {}, toClient' = toClient \o b,
                 NEW i \in Lengths(toClient')
          PROVE  FALSE
      <4>1. PICK q, r : q = toClient /\ r = toClient'
        OBVIOUS
      <4>2. q \in Seq(ByteSet) /\ Lengths(q) = {} /\ Brings(q, b, r) /\ i \in Lengths(r)
        BY <1>1, <1>5, <1>6, <3>2, <4>1 DEF Brings
      <4>3. ComesWith(b, r, i)
        BY ONLY <4>2, LengthsWritten
      <4> QED
        BY <3>2, <4>3 DEF ComesWith
    <3> QED
      BY <1>6, <3>1, <3>2
  <2> QED
    BY <1>1, <1>5, <1>6, <2>1, <2>2, AloneIs DEF NoDownload
<1>7. ASSUME NEW next, next \notin {"lengthAck", "payloadAck"},
             server \notin {"lengthAck", "payloadAck"},
             UNCHANGED toServer \/ \E kind : Read(kind),
             Write(Ack, next) \/ Write(Missing, next)
      PROVE  Alone'
  <2>1. \E b : OneWrite(b) /\ Lengths(b) = {} /\ toClient' = toClient \o b /\ server' = next
    BY <1>4, <1>7, WritesAreOne, LengthsOfWrites
  <2> QED
    BY <1>6, <1>7, <2>1
<1>8. CASE /\ server = "idle" /\ Read("command") /\ serving' = Head(toServer).of
           /\ Write(Ack, said[Head(toServer).of].op)
  <2>1. said[Head(toServer).of].op \in Op
    BY <1>1, <1>8, ReadEffect, TypeFacts DEF Store!Command, Op
  <2> QED
    BY <1>7, <1>8, <2>1 DEF Op
<1>9. CASE /\ server \in {"delete", "list", "exit"} /\ server' \in {"idle", "ended"}
           /\ UNCHANGED <<toServer, toClient, serving>>
  BY <1>6, <1>9
<1>10. CASE \/ server = "upload" /\ Read("type") /\ Write(Ack, "size") /\ UNCHANGED serving
            \/ server = "size" /\ Read("size") /\ Write(Ack, "name") /\ UNCHANGED serving
            \/ server = "name" /\ Read("name") /\ Write(Ack, "payload")
            \/ server = "payload" /\ UNCHANGED <<toServer, serving>> /\ Write(Ack, "idle")
            \/ server = "payload" /\ Read("payload") /\ Write(Ack, "idle")
  BY <1>7, <1>10
<1>11. CASE /\ server = "download" /\ UNCHANGED <<toServer, serving, files>>
            /\ Write(Missing, "idle")
  BY <1>7, <1>11
<1>12. CASE /\ server = "download" /\ UNCHANGED <<toServer, serving, files>>
            /\ Write(Length(files[said[serving].file]), "lengthAck")
  <2>1. PICK n, b : n = files[said[serving].file] /\ b = Length(n)
    OBVIOUS
  <2>2. toClient' = toClient \o b /\ server' = "lengthAck" /\ OneWrite(b)
    BY <1>4, <1>12, <2>1, WritesAreOne
  <2>3. toServer = <<>>
    <3>1. SUFFICES ASSUME toServer # <<>> PROVE FALSE
      OBVIOUS
    <3>2. Head(toServer).kind # "ack"
      BY <1>1, <1>5, <1>12, <3>1, AcksTail
    <3> QED
      BY <1>12, <2>2, <3>1, <3>2 DEF Stuck
  <2>4. HasPayload' <=> ~said[n].empty
    BY <1>1, <1>12, <2>1 DEF HasPayload
  <2>5. ASSUME NEW i \in Lengths(toClient')
        PROVE  ~said[n].empty /\ (toClient'[i].ends => i = Len(toClient'))
    <3>1. toClient \in Seq(ByteSet) /\ Lengths(toClient) = {}
      BY <1>1, <1>5, <1>12
    <3>2. PICK k \in Lengths(b) : toClient'[i] = b[k] /\ (k = Len(b) => i = Len(toClient'))
      <4>1. PICK q, r : q = toClient /\ r = toClient'
        OBVIOUS
      <4>2. q \in Seq(ByteSet) /\ Lengths(q) = {} /\ Brings(q, b, r) /\ i \in Lengths(r)
        BY <2>2, <3>1, <4>1 DEF Brings
      <4>3. ComesWith(b, r, i)
        BY ONLY <4>2, LengthsWritten
      <4> QED
        BY <4>1, <4>3 DEF ComesWith
    <3>3. ~said[n].empty /\ (b[k].ends => k = Len(b))
      BY <2>1, LengthsOfWrites
    <3> QED
      BY <3>2, <3>3
  <2>6. LengthComes'
    BY <1>1, <1>5, <1>12, <2>3, <2>4, <2>5 DEF LengthComes
  <2> QED
    BY <2>2, <2>6, AloneIs
<1>13. CASE /\ server = "lengthAck" /\ Read("ack") /\ UNCHANGED <<serving, files>>
            /\ Write(IF said[files[said[serving].file]].empty THEN <<>> ELSE Payload, "payloadAck")
  <2>1. LengthCame
    BY <1>3, <1>13, AloneIs DEF LengthComes
  <2>2. toClient' = <<>> \o Payload /\ server' = "payloadAck" /\ toServer' = <<>>
    BY <1>3, <1>4, <1>13, <2>1 DEF LengthCame, HasPayload
  <2>3. toClient' = Payload
    <3>1. Payload \in Seq(ByteSet)
      BY WritesAreOne DEF OneWrite
    <3> QED
      BY <2>2, <3>1, ConcatEmptySeq
  <2> QED
    BY <1>1, <2>1, <2>2, <2>3, AloneIs DEF LengthCame, PayloadComes
<1>14. CASE /\ server = "payloadAck" /\ Read("ack") /\ server' = "idle"
            /\ UNCHANGED <<toClient, serving>>
  <2>1. PayloadCame
    BY <1>3, <1>14, AloneIs DEF PayloadComes
  <2>2. Lengths(toClient') = {}
    BY <1>14, <2>1 DEF PayloadCame, Lengths
  <2>3. NoDownload'
    BY <1>1, <1>3, <1>14, <2>1, <2>2 DEF PayloadCame, NoDownload
  <2> QED
    BY <1>14, <2>3, AloneIs
<1> QED
  BY <1>1, <1>2, <1>8, <1>9, <1>10, <1>11, <1>12, <1>13, <1>14 DEF Serves

-----------------------------------------------------------------------------
(* The client counts on all the answers it will get but one for each upload. *)

\* The answers due when a token is written.
LEMMA DueWrites ==
  ASSUME TypeOK, Current > 0, UNCHANGED said, NEW kind \in TokenKind, Writes(kind)
  PROVE  Cardinality(DueIn(toServer', said')) = Cardinality(DueIn(toServer, said))
                                                + RepliesIn(Token(kind), said)
<1>1. toServer \in Seq(TokenSet) /\ Current \in Nat
  BY TypeFacts
<1>2. PICK S, q, t, s : S = TokenSet /\ q = toServer /\ t = Token(kind) /\ s = said
  OBVIOUS
<1>3. q \in Seq(S) /\ t \in S
  BY <1>1, <1>2 DEF Token, TokenSet
<1>4. Cardinality(DueIn(Append(q, t), s)) = Cardinality(DueIn(q, s)) + RepliesIn(t, s)
  BY <1>3, DueAppend
<1> QED
  BY <1>2, <1>4 DEF Writes

LEMMA DueRead ==
  ASSUME TypeOK, UNCHANGED said, NEW kind, Read(kind)
  PROVE  Cardinality(DueIn(toServer', said')) + RepliesIn(Head(toServer), said)
           <= Cardinality(DueIn(toServer, said))
<1>1. toServer \in Seq(TokenSet)
  BY TypeFacts
<1>2. PICK S, q, s : S = TokenSet /\ q = toServer /\ s = said
  OBVIOUS
<1>3. q \in Seq(S) /\ q # <<>> /\ toServer' = Tail(q)
  BY <1>1, <1>2 DEF Read
<1>4. Cardinality(DueIn(Tail(q), s)) + RepliesIn(Head(q), s) <= Cardinality(DueIn(q, s))
  BY <1>3, DueTail
<1> QED
  BY <1>2, <1>3, <1>4

LEMMA DueSay ==
  ASSUME TypeOK, Say
  PROVE  Cardinality(DueIn(toServer', said'))
           = Cardinality(DueIn(toServer, said))
             + (IF said'[Current'].op = "download" THEN 2 ELSE 1)
<1>1. /\ Current' = Current + 1 /\ \A n \in 1 .. Current : said'[n] = said[n]
      /\ toServer' = Append(toServer, [kind |-> "command", of |-> Current'])
      /\ toServer \in Seq(TokenSet) /\ Current \in Nat
  BY SayEffect, TypeFacts
<1>2. PICK t : t = [kind |-> "command", of |-> Current']
  OBVIOUS
<1>3. PICK S, q, s, z : S = TokenSet \cup {t} /\ q = toServer /\ s = said /\ z = said'
  OBVIOUS
<1>4. q \in Seq(S) /\ t \in S
  <2>1. Len(toServer) \in Nat /\ toServer \in [1 .. Len(toServer) -> S]
    BY <1>1, <1>3, SeqFacts, LenProperties
  <2> QED
    BY <1>3, <2>1, SeqDef
<1>5. DueIn(q, z) = DueIn(q, s)
  <2>1. ASSUME NEW i \in DOMAIN q PROVE RepliesIn(q[i], z) = RepliesIn(q[i], s)
    <3>1. q[i] \in TokenSet
      BY <1>1, <1>3, SeqFacts
    <3>2. q[i].of \in 1 .. Current
      BY <3>1 DEF TokenSet
    <3>3. z[q[i].of] = s[q[i].of]
      BY <1>1, <1>3, <3>2
    <3> QED
      BY <3>3 DEF RepliesIn
  <2> QED
    BY <2>1 DEF DueIn
<1>6. Cardinality(DueIn(Append(q, t), z)) = Cardinality(DueIn(q, z)) + RepliesIn(t, z)
  BY <1>4, DueAppend
<1>7. RepliesIn(t, z) = IF said'[Current'].op = "download" THEN 2 ELSE 1
  BY <1>2, <1>3 DEF RepliesIn
<1> QED
  BY <1>1, <1>2, <1>3, <1>5, <1>6, <1>7

LEMMA PendingKept ==
  ASSUME TypeOK, UNCHANGED <<server, got>>, ~Gone, ~Gone',
         \A n \in 1 .. Current : said'[n] = said[n]
  PROVE  Pending' = Pending
<1>1. got.size \in 0 .. Current /\ Current \in Nat
  BY TypeFacts
<1>2. NoPayload' = NoPayload
  BY <1>1 DEF NoPayload, EndOfStream
<1> QED
  BY <1>2 DEF Pending

\* A step of the client takes an answer.
LEMMA ClientTakes ==
  ASSUME Commands, WritesEnd, Alone, ClientStep
  PROVE  Cardinality(EndsOf(toClient')) + 1 <= Cardinality(EndsOf(toClient))
<1>1. toClient \in Seq(ByteSet) /\ Ended(toClient) /\ TypeOK
  BY TypeFacts, WritesEndIs DEF Commands
<1>2. CASE client # "payload"
  BY <1>1, <1>2, ClientMoves, ReadTakesEnd
<1>3. CASE client = "payload"
  <2>1. Take(4) /\ toClient # <<>>
    BY <1>1, <1>3, ClientMoves
  <2>2. toClient = Payload
    BY <1>3, <2>1, AloneIs
       DEF LengthComes, LengthCame, PayloadComes, PayloadCame, NoDownload
  <2>3. Len(toClient) = 4 /\ EndsOf(toClient) = {4}
    <3>1. OneWrite(Payload) /\ Len(Payload) = 4
      BY BytesAreOneWrite DEF Payload, ByteKind
    <3> QED
      BY <2>2, <3>1 DEF OneWrite
  <2>4. PICK n \in Nat : n = 4 /\ n <= Len(toClient)
    BY <2>3
  <2>5. RestOf(toClient, n, toClient') /\ toClient' \in Seq(ByteSet)
    BY <1>1, <2>1, <2>4, TakeRest
  <2>6. toClient[n].ends /\ n \in 1 .. n
    BY <2>3, <2>4 DEF EndsOf
  <2> QED
    BY <1>1, <2>5, <2>6, EndsTaken
<1> QED
  BY <1>2, <1>3

LEMMA ClientKeepsBalance ==
  ASSUME Commands, WritesEnd, Alone, Balance, ClientStep
  PROVE  Balance'
<1>1. /\ TypeOK /\ TypeOK' /\ Busy
      /\ UNCHANGED <<said, server, serving, got, files>> /\ Moves /\ ~Gone /\ ~Gone'
      /\ client \notin {"ready", "killed", "lost"}
  BY ClientMoves, ClientKeepsCommands DEF Commands
<1>2. /\ Pending' = Pending /\ Count("upload")' = Count("upload") /\ Current' = Current
      /\ Current > 0 /\ Current \in Nat
  BY <1>1, PendingKept, CountKept, TypeFacts DEF Busy
<1>3. Cardinality(EndsOf(toClient')) + 1 <= Cardinality(EndsOf(toClient))
  BY ClientTakes
<1>4. Cardinality(EndsOf(toClient)) + Cardinality(DueIn(toServer, said)) + Pending
        <= Count("upload") + Counts
  BY BalanceIs
<1>5. PICK e \in Nat, d \in Nat, p \in 0 .. 1, u \in Nat, c \in 0 .. 2 :
        /\ e = Cardinality(EndsOf(toClient)) /\ d = Cardinality(DueIn(toServer, said))
        /\ p = Pending /\ u = Count("upload") /\ c = Counts
  BY <1>1, BalanceTypes
<1>6. Cardinality(EndsOf(toClient')) \in Nat
  <2>1. toClient' \in Seq(ByteSet)
    BY <1>1, ClientEffect
  <2> QED
    BY <2>1, EndsFinite
<1>7. PICK f \in Nat : f = Cardinality(EndsOf(toClient'))
  BY <1>6
<1>8. f + 1 <= e /\ e + d + p <= u + c
  BY <1>3, <1>4, <1>5, <1>7
<1>9. ASSUME NEW n \in Nat, Cardinality(DueIn(toServer', said')) = d + n,
             n + c <= Counts' + 1, Counts' \in 0 .. 2
      PROVE  Balance'
  <2>1. PICK k \in 0 .. 2 : k = Counts'
    BY <1>9
  <2>2. n + c <= k + 1
    BY <1>9, <2>1
  <2>3. f + (d + n) + p <= u + k
    BY <1>8, <2>2
  <2> QED
    BY <1>2, <1>5, <1>7, <1>9, <2>1, <2>3, BalanceIs
<1>10. Counts' \in 0 .. 2
  BY DEF Counts
<1>11. ASSUME UNCHANGED toServer, c <= Counts' + 1 PROVE Balance'
  <2>1. Cardinality(DueIn(toServer', said')) = d + 0 /\ 0 + c <= Counts' + 1
    BY <1>1, <1>5, <1>11
  <2> QED
    BY <1>9, <1>10, <2>1
<1>12. ASSUME NEW kind \in TokenKind, Writes(kind), RepliesIn(Token(kind), said) + c <= Counts' + 1
       PROVE  Balance'
  <2>1. RepliesIn(Token(kind), said) \in 0 .. 2
    BY DEF RepliesIn
  <2>2. PICK n \in Nat : n = RepliesIn(Token(kind), said)
    BY <2>1
  <2>3. Cardinality(DueIn(toServer', said')) = d + n
    BY <1>1, <1>2, <1>5, <1>12, <2>2, DueWrites
  <2> QED
    BY <1>9, <1>10, <1>12, <2>2, <2>3
<1>13. CASE /\ client = "command" /\ said[Current].op \in {"delete", "list", "exit"}
            /\ client' \in {"ready", "closed"} /\ UNCHANGED toServer
  <2>1. c = 1 /\ Counts' = 0
    BY <1>5, <1>13 DEF Counts
  <2> QED
    BY <1>11, <1>13, <2>1
<1>14. CASE client = "command" /\ said[Current].op = "upload" /\ client' = "type" /\ Writes("type")
  <2>1. c = 0 /\ Counts' = 0 /\ RepliesIn(Token("type"), said) = 1
    BY <1>5, <1>14 DEF Counts, RepliesIn, Token
  <2> QED
    BY <1>12, <1>14, <2>1 DEF TokenKind
<1>15. CASE /\ client = "command" /\ said[Current].op = "download" /\ client' = "length"
            /\ UNCHANGED toServer
  <2>1. c = 2 /\ Counts' = 1
    BY <1>5, <1>15 DEF Counts
  <2> QED
    BY <1>11, <1>15, <2>1
<1>16. CASE client = "type" /\ client' = "size" /\ Writes("size")
  <2>1. c = 0 /\ Counts' = 0 /\ RepliesIn(Token("size"), said) = 1
    BY <1>5, <1>16 DEF Counts, RepliesIn, Token
  <2> QED
    BY <1>12, <1>16, <2>1 DEF TokenKind
<1>17. CASE client = "size" /\ client' = "name" /\ Writes("name")
  <2>1. c = 0 /\ Counts' = (IF said[Current].empty THEN 1 ELSE 0)
    BY <1>1, <1>2, <1>5, <1>17 DEF Counts
  <2>2. RepliesIn(Token("name"), said) = IF said[Current].empty THEN 2 ELSE 1
    BY DEF RepliesIn, Token
  <2>3. RepliesIn(Token("name"), said) + c <= Counts' + 1
    BY <2>1, <2>2
  <2> QED
    BY <1>12, <1>17, <2>3 DEF TokenKind
<1>18. CASE client = "name" /\ said[Current].empty /\ client' = "ready" /\ UNCHANGED toServer
  <2>1. c = 1 /\ Counts' = 0
    BY <1>5, <1>18 DEF Counts
  <2> QED
    BY <1>11, <1>18, <2>1
<1>19. CASE client = "name" /\ ~said[Current].empty /\ client' = "ready" /\ Writes("payload")
  <2>1. c = 0 /\ Counts' = 0 /\ RepliesIn(Token("payload"), said) = 1
    BY <1>5, <1>19 DEF Counts, RepliesIn, Token
  <2> QED
    BY <1>12, <1>19, <2>1 DEF TokenKind
<1>20. CASE client = "length" /\ client' \in {"ready", "lost"} /\ UNCHANGED toServer
  <2>1. c = 1 /\ Counts' = 0
    BY <1>5, <1>20 DEF Counts
  <2> QED
    BY <1>11, <1>20, <2>1
<1>21. CASE client = "length" /\ client' = "payload" /\ Writes("ack") /\ LengthRead
  <2>1. c = 1 /\ Counts' = 1 /\ RepliesIn(Token("ack"), said) = 0
    BY <1>5, <1>21 DEF Counts, RepliesIn, Token
  <2> QED
    BY <1>12, <1>21, <2>1 DEF TokenKind
<1>22. CASE client = "payload" /\ client' = "ready" /\ Writes("ack")
  <2>1. c = 1 /\ Counts' = 0 /\ RepliesIn(Token("ack"), said) = 0
    BY <1>5, <1>22 DEF Counts, RepliesIn, Token
  <2> QED
    BY <1>12, <1>22, <2>1 DEF TokenKind
<1> QED
  BY <1>1, <1>13, <1>14, <1>15, <1>16, <1>17, <1>18, <1>19, <1>20, <1>21, <1>22 DEF Moves

LEMMA SayKeepsBalance ==
  ASSUME Commands, Balance, Say, UNCHANGED clientSees
  PROVE  Balance'
<1>1. /\ TypeOK /\ client = "ready" /\ client' = "command"
      /\ UNCHANGED <<toClient, server, got>> /\ \A n \in 1 .. Current : said'[n] = said[n]
  BY SayEffect DEF Commands, clientSees
<1>2. ~Gone /\ ~Gone'
  BY <1>1 DEF Gone
<1>3. Pending' = Pending
  BY <1>1, <1>2, PendingKept
<1>4. PICK e \in Nat, d \in Nat, p \in 0 .. 1, u \in Nat :
        /\ e = Cardinality(EndsOf(toClient)) /\ d = Cardinality(DueIn(toServer, said))
        /\ p = Pending /\ u = Count("upload")
  BY <1>1, BalanceTypes
<1>5. e + d + p <= u
  <2>1. Counts = 0
    BY <1>1 DEF Counts
  <2>2. e + d + p <= u + Counts
    BY <1>4, BalanceIs
  <2> QED
    BY <1>4, <2>1, <2>2
<1>6. PICK op : op = said'[Current'].op
  OBVIOUS
<1>7. /\ Cardinality(DueIn(toServer', said')) = d + (IF op = "download" THEN 2 ELSE 1)
      /\ Count("upload")' = u + (IF op = "upload" THEN 1 ELSE 0)
      /\ Counts' = IF op = "upload" THEN 0 ELSE IF op = "download" THEN 2 ELSE 1
  BY <1>1, <1>4, <1>6, DueSay, CountSay DEF Counts
<1>8. /\ Cardinality(EndsOf(toClient')) = e /\ Pending' = p
  BY <1>1, <1>3, <1>4
<1>9. e + (d + (IF op = "download" THEN 2 ELSE 1)) + p
        <= (u + (IF op = "upload" THEN 1 ELSE 0))
           + (IF op = "upload" THEN 0 ELSE IF op = "download" THEN 2 ELSE 1)
  BY <1>5
<1> QED
  BY <1>7, <1>8, <1>9, BalanceIs

LEMMA ServerKeepsBalance ==
  ASSUME Commands, Alone, Balance, ServerStep, ~Gone, InStep'
  PROVE  Balance'
<1>1. /\ TypeOK /\ TypeOK' /\ Order /\ UNCHANGED <<said, client>> /\ Serves
      /\ server \notin {"crashed", "lost", "ended"}
      /\ toServer \in Seq(TokenSet) /\ toClient \in Seq(ByteSet)
  BY ServerMoves, ServerKeepsCommands, TypeFacts DEF Commands
<1>2. ~AtEnd /\ ~LoseStep
  BY DEF AtEnd, EndOfStream, LoseStep, InStep
<1>3. Count("upload")' = Count("upload") /\ Counts' = Counts
  BY <1>1, CountKept DEF Counts
<1>4. PICK e \in Nat, d \in Nat, p \in 0 .. 1, u \in Nat, c \in 0 .. 2 :
        /\ e = Cardinality(EndsOf(toClient)) /\ d = Cardinality(DueIn(toServer, said))
        /\ p = Pending /\ u = Count("upload") /\ c = Counts
  BY <1>1, BalanceTypes
<1>5. e + d + p <= u + c
  BY <1>4, BalanceIs
<1>6. PICK f \in Nat, g \in Nat :
        f = Cardinality(EndsOf(toClient')) /\ g = Cardinality(DueIn(toServer', said'))
  <2>1. toClient' \in Seq(ByteSet) /\ toServer' \in Seq([kind : TokenKind, of : 1 .. Current'])
    BY <1>1 DEF TypeOK, ByteSet, ByteKind, TokenKind, Current
  <2>2. Cardinality(EndsOf(toClient')) \in Nat
    BY <2>1, EndsFinite
  <2>3. Cardinality(DueIn(toServer', said')) \in Nat
    BY <2>1, DueUnits
  <2> QED
    BY <2>2, <2>3
<1>7. PICK w \in 0 .. 1 : w = Pending'
  BY PendingType
<1>8. SUFFICES f + g + w <= u + c
  BY <1>3, <1>4, <1>6, <1>7, BalanceIs
<1>9. ASSUME NEW b, NEW next, OneWrite(b), Write(b, next) PROVE f = e + 1 /\ server' = next
  <2>1. toClient' = toClient \o b /\ server' = next
    BY <1>9 DEF Write
  <2> QED
    BY <1>1, <1>4, <1>6, <1>9, <2>1, EndsWritten
<1>10. UNCHANGED toServer => g = d
  BY <1>1, <1>4, <1>6
<1>11. ASSUME NEW kind, Read(kind), NEW n \in Nat, n = RepliesIn(Head(toServer), said)
       PROVE  g + n <= d
  BY <1>1, <1>4, <1>6, <1>11, DueRead
<1>12. ASSUME NEW kind, Read(kind), kind \in {"type", "size", "payload"} PROVE g + 1 <= d
  <2>1. RepliesIn(Head(toServer), said) = 1
    BY <1>12 DEF RepliesIn, Read
  <2> QED
    BY <1>11, <1>12, <2>1
<1>13. CASE /\ server = "idle" /\ Read("command") /\ serving' = Head(toServer).of
            /\ Write(Ack, said[Head(toServer).of].op)
  <2>1. f = e + 1 /\ server' = said[Head(toServer).of].op
    BY <1>9, <1>13, WritesAreOne
  <2>2. PICK n \in Nat : n = IF server' = "download" THEN 2 ELSE 1
    OBVIOUS
  <2>3. n = RepliesIn(Head(toServer), said)
    BY <1>13, <2>1, <2>2 DEF RepliesIn, Read
  <2>4. g + n <= d
    BY <1>11, <1>13, <2>3
  <2>5. server' # "payload"
    <3>1. said[Head(toServer).of].op \in Op
      BY <1>1, <1>13, ReadEffect, TypeFacts DEF Store!Command, Op
    <3> QED
      BY <2>1, <3>1 DEF Op
  <2>6. w = IF server' = "download" THEN 1 ELSE 0
    BY <1>7, <2>5 DEF Pending
  <2>7. w + 1 = n
    BY <2>2, <2>6
  <2> QED
    BY <1>5, <2>1, <2>4, <2>7
<1>14. CASE /\ server \in {"delete", "list", "exit"} /\ server' \in {"idle", "ended"}
            /\ UNCHANGED <<toServer, toClient, serving>>
  <2>1. w = 0 /\ f = e /\ g = d
    BY <1>4, <1>6, <1>7, <1>10, <1>14 DEF Pending
  <2> QED
    BY <1>5, <2>1
<1>15. CASE server = "upload" /\ Read("type") /\ Write(Ack, "size") /\ UNCHANGED serving
  <2>1. f = e + 1 /\ g + 1 <= d /\ server' = "size"
    BY <1>9, <1>12, <1>15, WritesAreOne
  <2>2. w = 0
    BY <1>7, <2>1 DEF Pending
  <2> QED
    BY <1>5, <2>1, <2>2
<1>16. CASE server = "size" /\ Read("size") /\ Write(Ack, "name") /\ UNCHANGED serving
  <2>1. f = e + 1 /\ g + 1 <= d /\ server' = "name"
    BY <1>9, <1>12, <1>16, WritesAreOne
  <2>2. w = 0
    BY <1>7, <2>1 DEF Pending
  <2> QED
    BY <1>5, <2>1, <2>2
<1>17. CASE /\ server = "name" /\ Read("name") /\ Write(Ack, "payload") /\ UNCHANGED serving
            /\ NoPayload' <=> said[serving].empty
  <2>1. f = e + 1 /\ server' = "payload"
    BY <1>9, <1>17, WritesAreOne
  <2>2. Head(toServer).of = serving
    <3>1. ReadData("name") /\ ~EndOfStream
      BY <1>17 DEF ReadData, Read, EndOfStream
    <3> QED
      BY <1>1, <1>17, <3>1, ReadDataEffect
  <2>3. PICK n \in Nat : n = IF said[serving].empty THEN 2 ELSE 1
    OBVIOUS
  <2>4. n = RepliesIn(Head(toServer), said)
    BY <1>17, <2>2, <2>3 DEF RepliesIn, Read
  <2>5. g + n <= d
    BY <1>11, <1>17, <2>4
  <2>6. w + 1 = n
    BY <1>7, <1>17, <2>1, <2>3 DEF Pending
  <2> QED
    BY <1>5, <2>1, <2>5, <2>6
<1>18. CASE /\ server = "payload" /\ NoPayload /\ UNCHANGED <<toServer, serving>>
            /\ Write(Ack, "idle")
  <2>1. f = e + 1 /\ g = d /\ server' = "idle" /\ p = 1
    BY <1>4, <1>9, <1>10, <1>18, WritesAreOne DEF Pending
  <2>2. w = 0
    BY <1>7, <2>1 DEF Pending
  <2> QED
    BY <1>5, <2>1, <2>2
<1>19. CASE /\ server = "payload" /\ ~NoPayload /\ Read("payload") /\ UNCHANGED serving
            /\ Write(Ack, "idle")
  <2>1. f = e + 1 /\ g + 1 <= d /\ server' = "idle"
    BY <1>9, <1>12, <1>19, WritesAreOne
  <2>2. w = 0
    BY <1>7, <2>1 DEF Pending
  <2> QED
    BY <1>5, <2>1, <2>2
<1>20. CASE /\ server = "download" /\ UNCHANGED <<toServer, serving, files>>
            /\ \/ Write(Missing, "idle")
               \/ Write(Length(files[said[serving].file]), "lengthAck")
  <2>1. f = e + 1 /\ g = d /\ server' \in {"idle", "lengthAck"} /\ p = 1
    BY <1>4, <1>9, <1>10, <1>20, WritesAreOne DEF Pending
  <2>2. w = 0
    BY <1>7, <2>1 DEF Pending
  <2> QED
    BY <1>5, <2>1, <2>2
<1>21. CASE /\ server = "lengthAck" /\ Read("ack") /\ UNCHANGED <<serving, files>>
            /\ Write(IF said[files[said[serving].file]].empty THEN <<>> ELSE Payload, "payloadAck")
  <2>1. LengthCame
    BY <1>21, AloneIs DEF LengthComes, Read
  <2>2. Write(Payload, "payloadAck") /\ toClient = <<>> /\ client = "payload" /\ Len(toServer) = 1
    BY <1>21, <2>1 DEF LengthCame, HasPayload
  <2>3. f = e + 1 /\ server' = "payloadAck"
    BY <1>9, <2>2, WritesAreOne
  <2>4. e = 0
    <3>1. EndsOf(toClient) = {}
      BY <2>2 DEF EndsOf
    <3> QED
      BY <1>4, <3>1, FS_EmptySet
  <2>5. g = 0
    <3>1. toServer # <<>> /\ toServer' = Tail(toServer)
      BY <1>21 DEF Read
    <3>2. toServer' = <<>>
      BY <1>1, <2>2, <3>1, AcksTail
    <3>3. DueIn(toServer', said') = {}
      BY <3>2 DEF DueIn
    <3> QED
      BY <1>6, <3>3, FS_EmptySet
  <2>6. w = 0
    BY <1>7, <2>3 DEF Pending
  <2>7. c = 1
    BY <1>4, <2>2 DEF Counts
  <2> QED
    BY <2>3, <2>4, <2>5, <2>6, <2>7
<1>22. CASE /\ server = "payloadAck" /\ Read("ack") /\ server' = "idle"
            /\ UNCHANGED <<toClient, serving>>
  <2>1. 0 = RepliesIn(Head(toServer), said)
    BY <1>22 DEF RepliesIn, Read
  <2>2. g + 0 <= d
    BY <1>11, <1>22, <2>1
  <2>3. f = e /\ w = 0
    BY <1>4, <1>6, <1>7, <1>22 DEF Pending
  <2> QED
    BY <1>5, <2>2, <2>3
<1> QED
  BY <1>1, <1>2, <1>13, <1>14, <1>15, <1>16, <1>17, <1>18, <1>19, <1>20, <1>21, <1>22
     DEF Serves

-----------------------------------------------------------------------------
(* Answers holds at first, and all keep it. *)

LEMMA InitAnswers == Init => Answers
<1> SUFFICES ASSUME Init PROVE Answers
  OBVIOUS
<1>1. TypeOK /\ Current = 0 /\ DOMAIN toServer = {} /\ DOMAIN toClient = {}
  BY InitCommands DEF Init, Commands, Current
<1>2. Roles /\ WritesEnd /\ NameLast /\ InStep
  BY <1>1 DEF Init, Roles, WritesEnd, NameLast, InStep
<1>3. Speech
  BY <1>1 DEF Init, Speech, Owed, Awaited
<1>4. Alone
  BY <1>1 DEF Init, Alone
<1>5. Balance
  <2>1. Cardinality(EndsOf(toClient)) = 0 /\ Cardinality(DueIn(toServer, said)) = 0
    <3>1. EndsOf(toClient) = {} /\ DueIn(toServer, said) = {}
      BY <1>1 DEF EndsOf, DueIn
    <3> QED
      BY <3>1, FS_EmptySet
  <2>2. Pending = 0 /\ Counts = 0 /\ Count("upload") \in Nat
    BY <1>1, CountType DEF Init, Pending, Counts
  <2> QED
    BY <2>1, <2>2, BalanceIs
<1> QED
  BY <1>2, <1>3, <1>4, <1>5 DEF Answers

LEMMA ClientKeepsAnswers ==
  ASSUME Commands, Answers, ClientStep
  PROVE  Answers'
<1>1. /\ TypeOK /\ Busy /\ InStep /\ ~Gone /\ UNCHANGED <<said, server, serving>> /\ Moves
      /\ Roles /\ WritesEnd /\ Speech /\ NameLast
  BY ClientMoves DEF Commands, Answers
<1>2. Roles'
  <2>1. Current' = Current
    BY <1>1, CountKept
  <2>2. client' \in {"type", "size", "name"} => said[Current].op = "upload"
    BY <1>1 DEF Moves, Roles
  <2>3. client' \in {"length", "payload"} => said[Current].op = "download"
    BY <1>1 DEF Moves, Roles
  <2>4. server # "crashed"
    BY <1>1 DEF Roles
  <2> QED
    BY <1>1, <2>1, <2>2, <2>3, <2>4 DEF Roles
<1>3. Speech' /\ WritesEnd' /\ NameLast'
  BY <1>1, ClientKeepsSpeech, ClientKeepsWritesEnd, ClientKeepsNameLast
<1>4. ASSUME ~Stuck' PROVE Alone' /\ Balance'
  <2>1. UNCHANGED toServer \/ \E t : toServer' = Append(toServer, t)
    BY <1>1, ClientEffect
  <2>2. ~Stuck
    BY <1>1, <1>4, <2>1, StuckStays
  <2>3. Alone /\ Balance
    BY <1>1, <2>2 DEF Answers
  <2> QED
    BY <1>1, <1>4, <2>3, ClientKeepsAlone, ClientKeepsBalance
<1>5. Plain' /\ Count("upload")' <= 1 => InStep'
  BY <1>1, CountKept, ClientNotLost DEF InStep
<1> QED
  BY <1>2, <1>3, <1>4, <1>5 DEF Answers

LEMMA SayKeepsAnswers ==
  ASSUME Commands, Answers, Say, UNCHANGED clientSees, UNCHANGED strange
  PROVE  Answers'
<1>1. /\ TypeOK /\ TypeOK' /\ Progress /\ client = "ready" /\ client' = "command"
      /\ UNCHANGED <<toClient, server, serving>>
      /\ Current' = Current + 1 /\ \A n \in 1 .. Current : said'[n] = said[n]
      /\ toServer' = Append(toServer, [kind |-> "command", of |-> Current'])
      /\ Current \in Nat /\ serving \in 0 .. Current
  BY SayEffect, SayKeepsCommands, TypeFacts DEF Commands, clientSees
<1>2. /\ Roles /\ WritesEnd /\ Speech /\ NameLast /\ ~Gone
      /\ Plain /\ Count("upload") <= 1 => InStep
  BY <1>1 DEF Answers, Gone
<1>3. Roles'
  <2>1. server \in {"lengthAck", "payloadAck"} => serving > 0 /\ said[serving].op = "download"
    BY <1>2 DEF Roles
  <2>2. serving > 0 => said'[serving] = said[serving]
    BY <1>1
  <2>3. server # "crashed"
    BY <1>2 DEF Roles
  <2> QED
    BY <1>1, <2>1, <2>2, <2>3 DEF Roles
<1>4. Speech' /\ NameLast'
  BY <1>1, <1>2, SayKeepsSpeech, SayKeepsNameLast
<1>5. WritesEnd'
  BY <1>1, <1>2, WritesEndIs
<1>6. ASSUME InStep', ~Stuck' PROVE Alone' /\ Balance'
  <2>1. InStep
    BY <1>1, <1>6 DEF InStep
  <2>2. ~Stuck
    BY <1>1, <1>6, StuckStays
  <2>3. Alone /\ Balance
    BY <1>2, <2>1, <2>2 DEF Answers
  <2> QED
    BY <1>1, <1>6, <2>3, SayKeepsAlone, SayKeepsBalance
<1>7. Plain' /\ Count("upload")' <= 1 => InStep'
  <2>1. Count("upload") \in Nat
    BY <1>1, CountType
  <2>2. Plain' /\ Count("upload")' <= 1 => Plain /\ Count("upload") <= 1
    BY <1>1, <2>1, CountSay
  <2> QED
    BY <1>1, <1>2, <2>2 DEF InStep
<1> QED
  BY <1>3, <1>4, <1>5, <1>6, <1>7 DEF Answers

LEMMA KillKeepsAnswers ==
  ASSUME Commands, Answers, InStep, Kill, UNCHANGED clientSees, UNCHANGED strange
  PROVE  Answers'
<1>1. /\ TypeOK /\ InFunction /\ client' = "killed"
      /\ UNCHANGED <<said, toServer, toClient, server, serving, got, files, applied>>
      /\ Roles /\ WritesEnd /\ Speech /\ NameLast
  BY DEF Kill, clientSees, Commands, Answers
<1>2. Gone' /\ InStep'
  BY <1>1 DEF Gone, InStep
<1>3. Roles'
  BY <1>1, <1>2 DEF Roles
<1>4. WritesEnd'
  BY <1>1, WritesEndIs
<1>5. Speech'
  BY <1>1, KillKeepsSpeech
<1>6. NameLast'
  BY <1>1, CountKept DEF NameLast
<1> QED
  BY <1>2, <1>3, <1>4, <1>5, <1>6 DEF Answers

\* A thread that is stuck can only be lost.
LEMMA StuckIsLost ==
  ASSUME Commands, Stuck, ServerStep
  PROVE  ~InStep'
<1>1. Serves
  BY ServerServes
<1>2. ~Read("ack") /\ toServer # <<>>
  BY DEF Stuck, Read
<1>3. server' = "lost"
  BY <1>1, <1>2 DEF Stuck, Serves, AtEnd, EndOfStream, LoseStep
<1> QED
  BY <1>3 DEF InStep

LEMMA ServerKeepsAnswers ==
  ASSUME Commands, Answers, ServerStep
  PROVE  Answers'
<1>1. /\ UNCHANGED <<said, client>> /\ InStep /\ TypeOK
      /\ Roles /\ WritesEnd /\ Speech /\ NameLast
  BY ServerMoves DEF Commands, Answers
<1>2. Roles' /\ Speech' /\ WritesEnd' /\ NameLast'
  BY <1>1, ServerKeepsRoles, ServerKeepsSpeech, ServerKeepsWritesEnd, ServerKeepsNameLast
<1>3. ASSUME InStep', ~Gone', ~Stuck' PROVE Alone' /\ Balance'
  <2>1. ~Gone /\ ~Stuck
    BY <1>1, <1>3, StuckIsLost DEF Gone
  <2>2. Alone /\ Balance
    BY <1>1, <2>1 DEF Answers
  <2> QED
    BY <1>3, <2>1, <2>2, ServerKeepsAlone, ServerKeepsBalance
<1>4. Plain' /\ Count("upload")' <= 1 => InStep'
  <2>1. ASSUME Plain, Count("upload") <= 1 PROVE server' # "lost"
    BY <2>1, ServerNotLost
  <2> QED
    BY <1>1, <2>1, CountKept DEF InStep
<1> QED
  BY <1>2, <1>3, <1>4 DEF Answers

LEMMA InitInvariant == Init => Invariant
BY InitCommands, InitAnswers DEF Invariant, Clean, Init

\* Who is lost stays lost, and until then the directory is clean.
LEMMA CleanKept == Clean /\ [Next]_vars => Clean'
  BY DEF Clean, InStep, Next, UserStep, ClientStep, ServerStep, Astray, vars, serverSees,
     clientSees

LEMMA StepInvariant == Invariant /\ [Next]_vars => Invariant'
<1> SUFFICES ASSUME Commands, Answers, [Next]_vars PROVE Answers'
  BY CommandsKept, CleanKept DEF Invariant
<1>1. CASE UserStep
  <2>1. InStep /\ UNCHANGED clientSees /\ UNCHANGED strange /\ (Say \/ Kill)
    BY <1>1 DEF UserStep
  <2> QED
    BY <2>1, SayKeepsAnswers, KillKeepsAnswers
<1>2. CASE ClientStep
  BY <1>2, ClientKeepsAnswers
<1>3. CASE ServerStep
  BY <1>3, ServerKeepsAnswers
<1>4. CASE Astray \/ UNCHANGED vars
  <2>1. UNCHANGED spoken
    BY <1>4 DEF Astray, vars, spoken
  <2> QED
    BY <2>1 DEF spoken, Answers, Roles, WritesEnd, Ends, Speech, After, Awaited, NoPayload,
    Owed, Plain, Stuck, Alone, Replies, Due, Pending, Counts, Balance, Count, Current,
    NameLast, InStep, Gone, EndOfStream
<1> QED
  BY <1>1, <1>2, <1>3, <1>4 DEF Next

-----------------------------------------------------------------------------
(* The theorems. *)

\* Tokens, commands and the steps of the session thread keep in step, and the answers
\* the client counts on are due or have been written, as long as neither side is lost.
THEOREM InvariantHolds == Spec => []Invariant
BY InitInvariant, StepInvariant, PTL DEF Spec

\* The types hold: no command is carried out before it is given, or twice
\* (terminalThreadFunction).
THEOREM TypesCorrect == Spec => []TypeOK
<1>1. Invariant => TypeOK
  BY DEF Invariant, Commands
<1> QED
  BY <1>1, InvariantHolds, PTL

\* When nothing is under way every command has been carried out, although the
\* client runs ahead by the acks it takes for later ones.
THEOREM EveryCommandDone == Spec => []CaughtUp
<1>1. ASSUME Invariant, Quiet PROVE applied = Current
  <2>1. server \in {"idle", "ended"} /\ toServer = <<>> /\ client \in {"ready", "closed"}
    BY <1>1 DEF Quiet
  <2>2. Current = serving
    BY <1>1, <2>1 DEF Invariant, Commands, Order
  <2>3. ~EndOfStream
    BY <2>1 DEF EndOfStream, Gone
  <2> QED
    BY <1>1, <2>1, <2>2, <2>3 DEF Invariant, Commands, Progress
<1>2. Invariant => CaughtUp
  BY <1>1 DEF CaughtUp
<1> QED
  BY <1>2, InvariantHolds, PTL

\* Neither side reads what the other did not mean unless there was a download or a
\* second upload: deletes and lists never hurt (Client.cpp:106, Server.cpp:918).
THEOREM OutOfStepHolds == Spec => []OutOfStepOnlyAfterTransfer
<1>1. ASSUME Invariant, ~InStep PROVE Count("download") > 0 \/ Count("upload") > 1
  <2>1. TypeOK /\ ~(Plain /\ Count("upload") <= 1)
    BY <1>1 DEF Invariant, Commands, Answers
  <2> QED
    BY <2>1, PlainIs, CountType
<1>2. Invariant => OutOfStepOnlyAfterTransfer
  BY <1>1 DEF OutOfStepOnlyAfterTransfer
<1> QED
  BY <1>2, InvariantHolds, PTL

\* What lies in the stream when all is quiet is at most one answer for each upload,
\* the ack sendFilePacket does not wait for (Client.cpp:106), although the client
\* takes answers for others and several at once.
THEOREM AnswersLeftOverHolds == Spec => []AnswersLeftOver
<1>1. ASSUME Invariant, Quiet PROVE Cardinality(EndsOf(toClient)) <= Count("upload")
  <2>1. InStep /\ ~Gone /\ client \in {"ready", "closed"} /\ server \in {"idle", "ended"}
    BY <1>1 DEF Quiet, Gone
  <2>2. ~Stuck /\ Counts = 0
    BY <2>1 DEF Stuck, Counts
  <2>3. TypeOK /\ Balance
    BY <1>1, <2>1, <2>2 DEF Invariant, Commands, Answers
  <2> QED
    BY <2>2, <2>3, BalanceIs, BalanceTypes
<1>2. Invariant => AnswersLeftOver
  BY <1>1 DEF AnswersLeftOver, EndsOf
<1> QED
  BY <1>2, InvariantHolds, PTL

\* A step of the connection is a command given, the next command carried out, the end
\* of the promise, what comes after that, or nothing for the directory.
LEMMA StepRefines ==
  ASSUME Invariant, [Next]_vars
  PROVE  [Store!Next]_(Store!vars)
<1>1. TypeOK /\ Order /\ Progress /\ InFunction
  BY DEF Invariant, Commands
<1>2. ASSUME InStep, UNCHANGED <<said, files, strange, applied>>
      PROVE  [Store!Next]_(Store!vars)
  <2>1. CASE InStep'
    BY <1>2, <2>1 DEF Store!vars
  <2>2. CASE ~InStep'
    <3>1. ~(Plain' /\ Count("upload")' <= 1)
      BY <2>2, StepInvariant DEF Invariant, Answers
    <3>2. Count("download") > 0 \/ Count("upload") > 1
      BY <1>1, <1>2, <3>1, CountKept, PlainIs, CountType
    <3>3. \E m, n \in 1 .. Len(said) :
            said[m].op = "download" \/ (m # n /\ said[m].op = "upload" /\ said[n].op = "upload")
      BY <1>1, <3>2, CountWitness
    <3> QED
      BY <1>2, <2>2, <3>3 DEF Store!Next, Store!Break
  <2> QED
    BY <2>1, <2>2
<1>3. CASE UserStep
  <2>1. InStep /\ InStep' /\ UNCHANGED strange
    BY <1>3 DEF UserStep, Say, Kill, clientSees, InStep
  <2>2. CASE Kill
    BY <1>2, <1>3, <2>1, <2>2 DEF UserStep, Kill, clientSees
  <2>3. CASE Say
    BY <1>3, <2>1, <2>3 DEF UserStep, Say, Current, clientSees, Store!Next, Store!Say
  <2> QED
    BY <1>3, <2>2, <2>3 DEF UserStep
<1>4. CASE ClientStep
  <2>1. InStep /\ UNCHANGED strange
    BY <1>4 DEF ClientStep
  <2> QED
    BY <1>1, <1>2, <1>4, <2>1, ClientEffect
<1>5. CASE ServerStep
  <2>1. said' = said /\ client' = client /\ UNCHANGED strange /\ InStep
    BY <1>5 DEF ServerStep, serverSees
  <2>2. ASSUME applied + 1 = serving, applied' = applied + 1, files' = Store!Effect(serving),
               server' # "lost"
        PROVE  Store!Next
    <3>1. applied < Len(said)
      BY <1>1, <2>2, TypeFacts DEF Current
    <3>2. InStep'
      BY <2>1, <2>2 DEF InStep
    <3> QED
      BY <2>1, <2>2, <3>1, <3>2 DEF Store!Next, Store!Apply
  <2>3. CASE DeleteFile
    <3>1. said[serving].op = "delete" /\ applied + 1 = serving
      BY <1>1, <2>3 DEF DeleteFile, InFunction, Progress, Op
    <3> QED
      BY <2>2, <2>3, <3>1 DEF DeleteFile, Finish, Store!Effect
  <2>4. CASE ListServer
    <3>1. said[serving].op = "list" /\ applied + 1 = serving
      BY <1>1, <2>4 DEF ListServer, InFunction, Progress, Op
    <3> QED
      BY <2>2, <2>4, <3>1 DEF ListServer, Finish, Store!Effect
  <2>5. CASE Exit
    <3>1. said[serving].op = "exit" /\ applied + 1 = serving
      BY <1>1, <2>5 DEF Exit, InFunction, Progress, Op
    <3> QED
      BY <2>2, <2>5, <3>1 DEF Exit, Finish, Store!Effect
  <2>6. CASE SendLength
    <3>1. said[serving].op = "download" /\ applied + 1 = serving
      BY <1>1, <2>6 DEF SendLength, InFunction, Progress, Op
    <3> QED
      BY <2>2, <2>6, <3>1 DEF SendLength, Write, Store!Effect
  <2>7. CASE ReadFile
    <3>1. \/ UNCHANGED <<files, applied>>
          \/ /\ server = "payload" /\ got.name # 0
             /\ files' = [files EXCEPT ![said[got.name].file] = got.size]
             /\ applied' = applied + 1 /\ server' = "idle"
      BY <2>7 DEF ReadFile, ShortRead
    <3>2. CASE UNCHANGED <<files, applied>>
      BY <1>2, <2>1, <3>2
    <3>3. CASE /\ server = "payload" /\ got.name # 0
               /\ files' = [files EXCEPT ![said[got.name].file] = got.size]
               /\ applied' = applied + 1 /\ server' = "idle"
      <4>1. applied + 1 = serving /\ said[serving].op = "upload"
            /\ got.name = serving /\ got.size = serving
        BY <1>1, <3>3 DEF InFunction, Progress
      <4> QED
        BY <2>2, <3>3, <4>1 DEF Store!Effect
    <3> QED
      BY <3>1, <3>2, <3>3
  <2>8. CASE \/ ReadCommand \/ ReadType \/ ReadSize \/ ReadName
             \/ SendPayload \/ PayloadAcked \/ LoseStep
    BY <1>2, <2>1, <2>8
       DEF ReadCommand, ShortRead, ReadType, ReadSize, ReadName, SendPayload,
           PayloadAcked, LoseStep
  <2> QED
    BY <1>5, <2>3, <2>4, <2>5, <2>6, <2>7, <2>8 DEF ServerStep
<1>6. CASE Astray
  BY <1>6 DEF Astray, InStep, Store!Next, Store!Stray
<1>7. CASE UNCHANGED vars
  BY <1>7 DEF vars, InStep, Store!vars
<1> QED
  BY <1>3, <1>4, <1>5, <1>6, <1>7 DEF Next

\* As long as both sides are in step, and they are unless there is a download or a
\* second upload, the directory changes by whole commands, each once and in the order
\* they were given, wherever the client dies.  After that nothing is promised: what a
\* name and a payload read together do to the directory is Store!Stray.
THEOREM Implements == Spec => ImplementsFileStore
<1>1. Init => Store!Init
  BY DEF Init, InStep, Store!Init
<1> QED
  BY <1>1, InvariantHolds, StepRefines, PTL DEF Spec, ImplementsFileStore, Store!Spec
=============================================================================
