------------------------- MODULE ReplicationProofs -------------------------
(***************************************************************************)
(* Theorems about Replication, for every number of session threads,        *)
(* secondaries, users and operations: types, the semaphores, the slots of  *)
(* backupServers, and that frames of one semaphore arrive in one piece.    *)
(***************************************************************************)
EXTENDS Replication, UserTableProofs, SequenceTheorems

-----------------------------------------------------------------------------
(* Streams. *)

\* Typed sequences, and their entries.
LEMMA SeqFacts ==
  ASSUME NEW S, NEW q \in Seq(S)
  PROVE  /\ Len(q) \in Nat /\ DOMAIN q = 1 .. Len(q)
         /\ \A i \in DOMAIN q : q[i] \in S
         /\ q = <<>> <=> Len(q) = 0
  BY ElementOfSeq, LenProperties, EmptySeq

LEMMA AppendIs ==
  ASSUME NEW S, NEW q \in Seq(S), NEW e \in S
  PROVE  /\ Append(q, e) \in Seq(S)
         /\ Len(Append(q, e)) = Len(q) + 1
         /\ DOMAIN Append(q, e) = 1 .. Len(q) + 1
         /\ \A i \in 1 .. Len(q) : Append(q, e)[i] = q[i]
         /\ Append(q, e)[Len(q) + 1] = e
  BY AppendProperties

LEMMA TailIs ==
  ASSUME NEW S, NEW q \in Seq(S), q # <<>>
  PROVE  /\ Head(q) = q[1] /\ q[1] \in S
         /\ Tail(q) \in Seq(S)
         /\ Len(q) \in Nat \ {0} /\ Len(Tail(q)) = Len(q) - 1
         /\ DOMAIN Tail(q) = 1 .. Len(q) - 1
         /\ \A i \in 1 .. Len(q) - 1 : Tail(q)[i] = q[i + 1]
  BY HeadTailProperties, EmptySeq, LenProperties, ElementOfSeq

\* r is q without its first d entries.
Rest(q, d, r) ==
  /\ Len(q) \in Nat /\ DOMAIN q = 1 .. Len(q) /\ Len(q) >= d
  /\ Len(r) = Len(q) - d /\ DOMAIN r = 1 .. Len(q) - d
  /\ \A i \in 1 .. Len(q) - d : r[i] = q[i + d]

LEMMA RestOfOne ==
  ASSUME NEW S, NEW q \in Seq(S), q # <<>>
  PROVE  Rest(q, 1, Tail(q)) /\ Tail(q) \in Seq(S) /\ Head(q) = q[1] /\ q[1] \in S
  BY TailIs, SeqFacts DEF Rest

LEMMA RestOfTwo ==
  ASSUME NEW S, NEW q \in Seq(S), Len(q) > 1
  PROVE  /\ Rest(q, 2, Tail(Tail(q))) /\ Tail(Tail(q)) \in Seq(S)
         /\ q[1] \in S /\ q[2] \in S /\ 1 \in DOMAIN q /\ 2 \in DOMAIN q
<1>1. q # <<>> /\ Len(q) \in Nat /\ DOMAIN q = 1 .. Len(q)
  BY SeqFacts
<1>2. PICK t \in Seq(S) : t = Tail(q) /\ Len(t) = Len(q) - 1 /\ \A i \in 1 .. Len(q) - 1 : t[i] = q[i + 1]
  BY <1>1, TailIs
<1>3. t # <<>>
  <2>1. t = <<>> => Len(t) = 0
    BY SeqFacts
  <2>2. Len(t) # 0
    BY <1>1, <1>2
  <2> QED
    BY <2>1, <2>2
<1>4. PICK r \in Seq(S) : /\ r = Tail(t) /\ Len(r) = Len(t) - 1 /\ DOMAIN r = 1 .. Len(t) - 1
                          /\ \A i \in 1 .. Len(t) - 1 : r[i] = t[i + 1]
  BY <1>3, TailIs
<1>5. ASSUME NEW i \in 1 .. Len(q) - 2
      PROVE  r[i] = q[i + 2]
  <2>1. i \in 1 .. Len(t) - 1 /\ i + 1 \in 1 .. Len(q) - 1 /\ (i + 1) + 1 = i + 2
    BY <1>1, <1>2
  <2>2. r[i] = t[i + 1] /\ t[i + 1] = q[(i + 1) + 1]
    BY <1>2, <1>4, <2>1
  <2> QED
    BY <2>1, <2>2
<1>6. q[1] \in S /\ q[2] \in S /\ 1 \in DOMAIN q /\ 2 \in DOMAIN q
  BY <1>1, SeqFacts
<1>7. Rest(q, 2, r)
  BY <1>1, <1>2, <1>4, <1>5 DEF Rest
<1> QED
  BY <1>2, <1>4, <1>6, <1>7

-----------------------------------------------------------------------------
(* What the steps of a session thread do to its state. *)

Numbers == 0 .. MaxOps

LEMMA NumbersAreContents == Numbers \subseteq Content /\ Cut \in Content
BY ReplicationAssumption DEF Numbers, Content, Cut

LEMMA WorkerFields ==
  ASSUME NEW r \in WorkerState
  PROVE  /\ r.pc \in {"idle", "user_wait", "write", "notify_wait", "server_wait", "slots",
                      "send", "ended"}
         /\ r.op \in Op \cup {NoOp} /\ r.n \in Numbers /\ r.slot \in 0 .. MaxServers + 1
         /\ r.half \in 0 .. 2 /\ r.to \in Server \cup {NoServer}
BY DEF WorkerState, Numbers

\* Only w moves, and it moves to these values.
Turns(w, pc, op, n, slot, half, to) ==
  /\ worker' \in [Worker -> WorkerState]
  /\ \A v \in Worker \ {w} : worker'[v] = worker[v]
  /\ worker'[w].pc = pc /\ worker'[w].op = op /\ worker'[w].n = n
  /\ worker'[w].slot = slot /\ worker'[w].half = half /\ worker'[w].to = to

LEMMA GotoIs ==
  ASSUME worker \in [Worker -> WorkerState], NEW w \in Worker,
         NEW pc \in {"idle", "user_wait", "write", "notify_wait", "server_wait", "slots", "send",
                     "ended"},
         Goto(w, pc)
  PROVE  LET r == worker[w] IN Turns(w, pc, r.op, r.n, r.slot, r.half, r.to)
BY DEF Goto, WorkerState, Turns

LEMMA GotoSlotsIs ==
  ASSUME worker \in [Worker -> WorkerState], NEW w \in Worker, NEW n \in Numbers,
         GotoSlots(w, n)
  PROVE  LET r == worker[w] IN Turns(w, "slots", r.op, n, 1, r.half, r.to)
<1>1. 1 \in 0 .. MaxServers + 1
  BY ReplicationAssumption
<1>2. worker' = [worker EXCEPT ![w].pc = "slots", ![w].n = n, ![w].slot = 1]
  BY DEF GotoSlots
<1> DEFINE r == [worker[w] EXCEPT !.pc = "slots", !.n = n, !.slot = 1]
<1>3. worker[w] \in WorkerState
  OBVIOUS
<1>4. r \in WorkerState
  BY <1>1, <1>3 DEF WorkerState, Numbers
<1>5. worker' = [worker EXCEPT ![w] = r]
  BY <1>2
<1>6. /\ worker' \in [Worker -> WorkerState] /\ worker'[w] = r
      /\ \A v \in Worker \ {w} : worker'[v] = worker[v]
  BY <1>4, <1>5
<1> QED
  BY <1>3, <1>6 DEF Turns, WorkerState

LEMMA IdleIs ==
  /\ Idle \in WorkerState /\ [Idle EXCEPT !.pc = "ended"] \in WorkerState
  /\ Idle.pc = "idle" /\ Idle.op = NoOp /\ Idle.n = 0 /\ Idle.slot = 0 /\ Idle.half = 0
  /\ Idle.to = NoServer
BY ReplicationAssumption DEF Idle, WorkerState

LEMMA BeginIs ==
  ASSUME worker \in [Worker -> WorkerState], ops \in Numbers, NEW w \in Worker,
         NEW op \in Workload, Begin(w, op)
  PROVE  /\ ops' = ops + 1 /\ ops' \in Numbers
         /\ Turns(w, IF op.file = NoFile THEN "user_wait" ELSE "write", op,
                  IF op.kind = "UPLOAD" THEN ops + 1 ELSE 0, 0, 0, NoServer)
<1>1. ops + 1 \in Numbers /\ 0 \in Numbers
  BY ReplicationAssumption DEF Begin, Numbers
<1>2. op \in Op
  BY ReplicationAssumption
<1>3. PICK n \in Numbers, pc \in {"user_wait", "write"} :
        /\ n = IF op.kind = "UPLOAD" THEN ops + 1 ELSE 0
        /\ pc = IF op.file = NoFile THEN "user_wait" ELSE "write"
  BY <1>1
<1> DEFINE r == [Idle EXCEPT !.pc = pc, !.op = op, !.n = n]
<1>4. worker' = [worker EXCEPT ![w] = r] /\ ops' = ops + 1
  BY <1>3 DEF Begin
<1>5. /\ r \in WorkerState
      /\ r.pc = pc /\ r.op = op /\ r.n = n /\ r.slot = 0 /\ r.half = 0 /\ r.to = NoServer
  <2>1. Idle \in WorkerState /\ Idle.slot = 0 /\ Idle.half = 0 /\ Idle.to = NoServer
    BY IdleIs
  <2>2. PICK x \in WorkerState : x = Idle
    BY <2>1
  <2>3. r = [x EXCEPT !.pc = pc, !.op = op, !.n = n]
    BY <2>2
  <2> HIDE DEF r
  <2> QED
    BY <1>2, <1>3, <2>1, <2>2, <2>3 DEF WorkerState, Numbers
<1> HIDE DEF r
<1>6. Turns(w, pc, op, n, 0, 0, NoServer)
  BY <1>4, <1>5 DEF Turns
<1> QED
  BY <1>1, <1>3, <1>4, <1>6

LEMMA RefuseIs ==
  ASSUME worker \in [Worker -> WorkerState], NEW w \in Worker, Refuse(w)
  PROVE  Turns(w, "ended", NoOp, 0, 0, 0, NoServer)
<1> DEFINE r == [Idle EXCEPT !.pc = "ended"]
<1>1. worker' = [worker EXCEPT ![w] = r]
  BY DEF Refuse
<1>2. /\ r \in WorkerState /\ r.pc = "ended" /\ r.op = NoOp /\ r.n = 0 /\ r.slot = 0
      /\ r.half = 0 /\ r.to = NoServer
  BY IdleIs DEF Idle
<1> HIDE DEF r
<1> QED
  BY <1>1, <1>2 DEF Turns

LEMMA FinishIs ==
  ASSUME worker \in [Worker -> WorkerState], NEW w \in Worker, Finish(w)
  PROVE  Turns(w, "idle", NoOp, 0, 0, 0, NoServer)
<1>1. worker' = [worker EXCEPT ![w] = Idle]
  BY DEF Finish
<1> QED
  BY <1>1, IdleIs DEF Turns

\* A slot without an id is skipped; to another one w begins to send.
LEMMA VisitSlotIs ==
  ASSUME worker \in [Worker -> WorkerState], NEW w \in Worker, VisitSlot(w),
         backupServers \in [Slot -> [id : Server \cup {NoServer}, socket : Server \cup {NoServer}]]
  PROVE  LET r == worker[w]
             b == backupServers[r.slot]
         IN /\ r.pc = "slots" /\ r.slot \in Slot
            /\ IF b.id = NoServer
                 THEN Turns(w, "slots", r.op, r.n, r.slot + 1, r.half, r.to)
                 ELSE Turns(w, "send", r.op, r.n, r.slot, 1, b.socket)
<1> DEFINE r == worker[w]
           b == backupServers[r.slot]
<1>1. r.pc = "slots" /\ r.slot \in Slot /\ r.slot + 1 \in 0 .. MaxServers + 1
  BY ReplicationAssumption DEF VisitSlot, Slot
<1>2. CASE b.id = NoServer
  <2>1. worker' = [worker EXCEPT ![w].slot = r.slot + 1]
    BY <1>2 DEF VisitSlot
  <2>2. Turns(w, "slots", r.op, r.n, r.slot + 1, r.half, r.to)
    BY <1>1, <2>1 DEF Turns, WorkerState
  <2> QED
    BY <1>1, <1>2, <2>2
<1>3. CASE b.id # NoServer
  <2>1. worker' = [worker EXCEPT ![w].pc = "send", ![w].half = 1, ![w].to = b.socket]
    BY <1>3 DEF VisitSlot
  <2>2. PICK to \in Server \cup {NoServer} : to = b.socket
    BY <1>1
  <2>3. worker' = [worker EXCEPT ![w].pc = "send", ![w].half = 1, ![w].to = to] /\ 1 \in 0 .. 2
    BY <2>1, <2>2
  <2>4. Turns(w, "send", r.op, r.n, r.slot, 1, to)
    <3> DEFINE s == [r EXCEPT !.pc = "send", !.half = 1, !.to = to]
    <3>1. r \in WorkerState
      OBVIOUS
    <3>2. s \in WorkerState
      BY <2>3, <3>1 DEF WorkerState
    <3>3. worker' = [worker EXCEPT ![w] = s]
      BY <2>3
    <3>4. /\ worker' \in [Worker -> WorkerState] /\ worker'[w] = s
          /\ \A v \in Worker \ {w} : worker'[v] = worker[v]
      BY <3>2, <3>3
    <3> QED
      BY <3>1, <3>4 DEF Turns, WorkerState
  <2> QED
    BY <1>1, <1>3, <2>2, <2>4
<1> QED
  BY <1>2, <1>3

LEMMA SendHalfIs ==
  ASSUME worker \in [Worker -> WorkerState], NEW w \in Worker, SendHalf(w),
         worker[w].slot \in Slot
  PROVE  LET r == worker[w] IN
         /\ r.pc = "send"
         /\ IF r.half = 1 THEN Turns(w, "send", r.op, r.n, r.slot, 2, r.to)
                          ELSE Turns(w, "slots", r.op, r.n, r.slot + 1, 0, NoServer)
<1> DEFINE r == worker[w]
<1>1. r.pc = "send" /\ r.slot + 1 \in 0 .. MaxServers + 1
  BY ReplicationAssumption DEF SendHalf, Slot
<1>2. CASE r.half = 1
  <2>1. worker' = [worker EXCEPT ![w].half = 2]
    BY <1>2 DEF SendHalf
  <2>2. Turns(w, "send", r.op, r.n, r.slot, 2, r.to)
    BY <1>1, <2>1 DEF Turns, WorkerState
  <2> QED
    BY <1>1, <1>2, <2>2
<1>3. CASE r.half # 1
  <2>1. worker' = [worker EXCEPT ![w].pc = "slots", ![w].slot = r.slot + 1, ![w].half = 0,
                                 ![w].to = NoServer]
    BY <1>3 DEF SendHalf
  <2>2. Turns(w, "slots", r.op, r.n, r.slot + 1, 0, NoServer)
    BY <1>1, <2>1 DEF Turns, WorkerState
  <2> QED
    BY <1>1, <1>3, <2>2
<1> QED
  BY <1>2, <1>3

-----------------------------------------------------------------------------
(* What the steps of a registration do. *)

\* Only the registration of n moves, and it moves to these values.
Enters(n, pc, slot) ==
  /\ entering' \in [Server -> EnteringState]
  /\ \A m \in Server \ {n} : entering'[m] = entering[m]
  /\ entering'[n].pc = pc /\ entering'[n].slot = slot

LEMMA EnterIs ==
  ASSUME entering \in [Server -> EnteringState], NEW n \in Server,
         NEW pc \in {"none", "server_wait", "insert", "socket", "ack", "done"}, Enter(n, pc)
  PROVE  Enters(n, pc, entering[n].slot)
BY DEF Enter, EnteringState, Enters

\* A search of backupServers returns a free slot, or 0 if there is none.
FreeSlot(s) ==
  IF s = 0 THEN \A t \in Slot : backupServers[t].id # NoServer
           ELSE s \in Slot /\ backupServers[s].id = NoServer

LEMMA FindSlotIs ==
  ASSUME entering \in [Server -> EnteringState], NEW n \in Server, FindSlot(n)
  PROVE  \E s \in 0 .. MaxServers : FreeSlot(s) /\ Enters(n, "insert", s)
<1> DEFINE S == {s \in Slot : backupServers[s].id = NoServer}
<1>1. S \in SUBSET (Nat \ {0})
  BY ReplicationAssumption DEF Slot
<1>2. PICK s : s = First(S)
  OBVIOUS
<1>3. FreeSlot(s)
  BY <1>1, <1>2, FirstFound DEF FreeSlot
<1>4. s \in 0 .. MaxServers
  BY <1>3, ReplicationAssumption DEF FreeSlot, Slot
<1>5. entering' = [entering EXCEPT ![n] = [pc |-> "insert", slot |-> s]]
  BY <1>2 DEF FindSlot
<1>6. Enters(n, "insert", s)
  BY <1>4, <1>5 DEF Enters, EnteringState
<1> QED
  BY <1>3, <1>4, <1>6

Backup == [id : Server \cup {NoServer}, socket : Server \cup {NoServer}]

LEMMA InsertIdIs ==
  ASSUME backupServers \in [Slot -> Backup], NEW n \in Server, InsertId(n),
         entering[n].slot \in Slot
  PROVE  LET s == entering[n].slot IN
         /\ backupServers' \in [Slot -> Backup]
         /\ backupServers'[s].id = n /\ backupServers'[s].socket = backupServers[s].socket
         /\ \A t \in Slot \ {s} : backupServers'[t] = backupServers[t]
BY DEF InsertId, Backup

LEMMA InsertSocketIs ==
  ASSUME backupServers \in [Slot -> Backup], NEW n \in Server, InsertSocket(n),
         entering[n].slot \in Slot
  PROVE  LET s == entering[n].slot IN
         /\ backupServers' \in [Slot -> Backup]
         /\ backupServers'[s].id = backupServers[s].id /\ backupServers'[s].socket = n
         /\ \A t \in Slot \ {s} : backupServers'[t] = backupServers[t]
BY DEF InsertSocket, Backup

-----------------------------------------------------------------------------
(* What the steps of a secondary do: it goes on, or it stops for good. *)

LEMMA SecondaryFields ==
  ASSUME NEW s \in SecondaryState
  PROVE  /\ s.users \in Table /\ s.dirs \in SUBSET UserName /\ s.files \in [File -> Content]
         /\ s.first \in Numbers /\ s.last \in Numbers
BY DEF SecondaryState, Numbers

Stopped == {"astray", "misled", "corrupt", "election", "primary", "loser", "crashed", "nullDevice", "killed"}

LEMMA StoppedIs ==
  ASSUME NEW s \in SecondaryState, NEW state \in Stopped
  PROVE  LET t == [s EXCEPT !.state = state] IN
         /\ t \in SecondaryState /\ t.state = state
         /\ t.users = s.users /\ t.dirs = s.dirs /\ t.files = s.files
         /\ t.first = s.first /\ t.last = s.last
BY DEF SecondaryState, Stopped

\* What a step of a secondary leaves alone.
Elsewhere(n) ==
  /\ \A m \in Server \ {n} : secondary'[m] = secondary[m] /\ stream'[m] = stream[m]
  /\ UNCHANGED <<users, past, dirs, files, unsure, mutex_user, mutex_server, backupServers,
                 entering, worker, down, ops>>

\* n takes no notice of its stream any more; state is what becomes of it.
StopsAs(n, state) ==
  /\ Elsewhere(n)
  /\ stream'[n] = <<>>
  /\ secondary'[n].state = state
  /\ secondary'[n].users = secondary[n].users /\ secondary'[n].dirs = secondary[n].dirs
  /\ secondary'[n].first = secondary[n].first /\ secondary'[n].last = secondary[n].last

\* n has read its acknowledgement.
ReadsAck(n) ==
  /\ Elsewhere(n)
  /\ secondary[n].state = "joining"
  /\ stream[n] # <<>> /\ Head(stream[n]) = Ack /\ stream'[n] = Tail(stream[n])
  /\ secondary'[n].state = "serving"
  /\ secondary'[n].users = secondary[n].users /\ secondary'[n].dirs = secondary[n].dirs
  /\ secondary'[n].files = secondary[n].files
  /\ secondary'[n].first = secondary[n].first /\ secondary'[n].last = secondary[n].last

LEMMA StopsIs ==
  ASSUME secondary \in [Server -> SecondaryState], stream \in [Server -> Stream],
         NEW n \in Server, NEW state \in Stopped, Stops(n, state)
  PROVE  /\ StopsAs(n, state) /\ kills' = kills
         /\ secondary' \in [Server -> SecondaryState] /\ stream' \in [Server -> Stream]
<1>1. <<>> \in Stream
  BY DEF Stream
<1> QED
  BY <1>1, StoppedIs DEF Stops, Becomes, StopsAs, Elsewhere, tableVars, fileVars, lockVars, countVars

\* The entries of a stream: an acknowledgement, or half a frame.
LEMMA UnitIs ==
  ASSUME NEW e \in Unit \cup {Ack}
  PROVE  /\ e.op.kind \in {"LOGIN", "EXIT", "UPLOAD", "DELETE"} => e \in Unit
         /\ e \in Unit => /\ e.op \in Op /\ e.n \in Numbers /\ e.half \in {1, 2}
                          /\ e.op.kind \in {"LOGIN", "EXIT", "UPLOAD", "DELETE"}
                          /\ e = [op |-> e.op, n |-> e.n, half |-> e.half]
         /\ e \notin Unit => e = Ack
         /\ Ack.op.kind = "none" /\ Ack.half = 1
<1>1. Ack.op.kind = "none" /\ Ack.half = 1
  BY DEF Ack, NoOp
<1>2. e \in Unit => /\ e.op \in Op /\ e.n \in Numbers /\ e.half \in {1, 2}
                    /\ e = [op |-> e.op, n |-> e.n, half |-> e.half]
  BY DEF Unit, Numbers
<1>3. \A o \in Op : o.kind \in {"LOGIN", "EXIT", "UPLOAD", "DELETE"}
  BY DEF Op
<1> QED
  BY <1>1, <1>2, <1>3

LEMMA WholeFrameIs ==
  ASSUME NEW q \in Stream, Len(q) > 1, WholeFrame(q)
  PROVE  /\ q[1] \in Unit /\ q[2] \in Unit
         /\ q[2].op = q[1].op /\ q[2].n = q[1].n /\ q[1].half = 1 /\ q[2].half = 2
         /\ q[1].op \in Op /\ q[1].n \in Numbers
<1>1. q[1] \in Unit \cup {Ack} /\ q[2] \in Unit \cup {Ack}
  BY RestOfTwo DEF Stream
<1>2. q[1].half = 1 /\ q[2] = [q[1] EXCEPT !.half = 2]
  BY DEF WholeFrame
<1>3. CASE q[1] = Ack
  <2>1. q[2].op = NoOp /\ q[2].half = 2
    BY <1>2, <1>3 DEF Ack
  <2>2. q[2] \in Unit
    BY <1>1, <2>1, UnitIs
  <2>3. NoOp.kind = "none"
    BY DEF NoOp
  <2> QED
    BY <2>1, <2>2, <2>3, UnitIs
<1>4. CASE q[1] \in Unit
  <2>1. q[2].op = q[1].op /\ q[2].n = q[1].n /\ q[2].half = 2
    BY <1>2, <1>4 DEF Unit
  <2>2. q[2] \in Unit
    BY <1>1, <2>1, <1>4, UnitIs
  <2> QED
    BY <1>2, <1>4, <2>1, <2>2, UnitIs
<1> QED
  BY <1>1, <1>3, <1>4

\* The state of a secondary after a LOGIN, an EXIT or a file frame it survives.
LogsIn(s, t, op, k) ==
  /\ \E socket \in Descriptor, u \in UserSlot, d \in DeviceSlot :
        /\ SeatFor(s.users, u, d, op.name, op.id)
        /\ t.users = Seated(s.users, u, d, op.name, op.id, op.type, socket)
  /\ t.dirs = s.dirs \cup {op.name} /\ t.files = s.files
  /\ t.last = k /\ t.first = IF s.first = 0 THEN k ELSE s.first

LogsOut(s, t, op, k) ==
  /\ t.users = Logout(s.users, op.name, op.id)
  /\ t.dirs = s.dirs /\ t.files = s.files
  /\ t.last = k /\ t.first = IF s.first = 0 THEN k ELSE s.first

Stores(s, t, op, k) ==
  /\ t.users = s.users /\ t.dirs = s.dirs /\ t.first = s.first /\ t.last = s.last
  /\ IF op.kind = "DELETE" \/ op.name \in s.dirs
       THEN /\ op.file \in File => t.files[op.file] = k
            /\ \A f \in File \ {op.file} : t.files[f] = s.files[f]
       ELSE t.files = s.files

LEMMA WithUsersIs ==
  ASSUME NEW s \in SecondaryState, NEW us \in Table, NEW k \in Numbers, NEW t, t = WithUsers(s, us, k)
  PROVE  /\ t \in SecondaryState /\ t.state = s.state /\ t.users = us
         /\ t.dirs = s.dirs /\ t.files = s.files
         /\ t.last = k /\ t.first = IF s.first = 0 THEN k ELSE s.first
<1>1. PICK first \in Numbers : first = IF s.first = 0 THEN k ELSE s.first
  BY SecondaryFields
<1>2. t = [s EXCEPT !.users = us, !.last = k, !.first = first]
  BY <1>1 DEF WithUsers
<1> QED
  BY <1>1, <1>2 DEF SecondaryState, Numbers

LEMMA InsertUserIs ==
  ASSUME NEW s \in SecondaryState, WellFormed(s.users), NEW op \in Op, NEW k \in Numbers,
         NEW socket \in Descriptor, NEW t, t = InsertUser(s, op, k, socket), NEW h,
         h = handle_user_controller_structure(s.users, op.name, op.id, op.type, socket)
  PROVE  \/ h.reply # "ack" /\ t = [s EXCEPT !.state = "nullDevice"]
         \/ t \in SecondaryState /\ t.state = s.state /\ LogsIn(s, t, op, k)
<1>1. s.users \in Table /\ op.name \in UserName /\ op.id \in DeviceId /\ op.type \in SocketType
  BY SecondaryFields DEF Op
<1>2. NamedWhileConnected(s.users)
  BY DEF WellFormed
<1> DEFINE us == insert_device(insert_user(s.users, op.name).users, op.name, op.id).users
<1>3. /\ h.reply = "ack" =>
           get_device(us, op.id, op.name) # 0
           /\ insert_socket(us, op.name, op.id, socket, op.type) = h.users
      /\ h.reply # "ack" => get_device(us, op.id, op.name) = 0
  BY <1>1, <1>2, UncheckedLogin
<1>4. CASE h.reply # "ack"
  BY <1>3, <1>4 DEF InsertUser
<1>5. CASE h.reply = "ack"
  <2>1. PICK u \in UserSlot, d \in DeviceSlot :
          /\ SeatFor(s.users, u, d, op.name, op.id)
          /\ h.users = Seated(s.users, u, d, op.name, op.id, op.type, socket)
    BY <1>1, <1>2, <1>5, LoginEffect
  <2>2. h.users \in Table
    BY <1>1, <2>1, SeatedIs
  <2>3. PICK r : r = WithUsers(s, h.users, k)
    OBVIOUS
  <2>4. t = [r EXCEPT !.dirs = r.dirs \cup {op.name}]
    <3>1. get_device(us, op.id, op.name) # 0
          /\ insert_socket(us, op.name, op.id, socket, op.type) = h.users
      BY <1>3, <1>5
    <3> HIDE DEF us
    <3>2. t = [WithUsers(s, insert_socket(us, op.name, op.id, socket, op.type), k)
                 EXCEPT !.dirs = @ \cup {op.name}]
      BY <3>1 DEF InsertUser, us
    <3> QED
      BY <2>3, <3>1, <3>2
  <2>5. /\ r \in SecondaryState /\ r.state = s.state /\ r.users = h.users
        /\ r.dirs = s.dirs /\ r.files = s.files
        /\ r.last = k /\ r.first = IF s.first = 0 THEN k ELSE s.first
    BY <2>2, <2>3, WithUsersIs
  <2>6. /\ t \in SecondaryState /\ t.state = r.state /\ t.users = r.users /\ t.files = r.files
        /\ t.dirs = r.dirs \cup {op.name} /\ t.last = r.last /\ t.first = r.first
    BY <1>1, <2>4, <2>5 DEF SecondaryState
  <2> QED
    BY <2>1, <2>5, <2>6 DEF LogsIn
<1> QED
  BY <1>4, <1>5

LEMMA LogoutTable ==
  ASSUME NEW us \in Table, WellFormed(us), NEW name \in UserName, NEW id \in DeviceId
  PROVE  Logout(us, name, id) \in Table /\ WellFormed(Logout(us, name, id))
<1>1. CASE get_device(us, id, name) = 0
  <2>1. remove_device(us, name, id) = [result |-> "ERROR", users |-> us]
    BY <1>1 DEF remove_device
  <2>2. Logout(us, name, id) = us
    BY <2>1 DEF Logout
  <2> QED
    BY <2>2
<1>2. CASE get_device(us, id, name) # 0
  <2>1. PICK u, d : u = get_user(us, name) /\ d = get_device(us, id, name) /\ d # 0
    BY <1>2
  <2>2. u \in UserSlot /\ d \in DeviceSlot /\ us[u].devices[d].id = id /\ id # NoId
    BY <2>1, GetDevice, UserTableAssumption
  <2>3. Logout(us, name, id) = Cleared(us, u, d)
    BY <2>1, LogoutEffect DEF WellFormed
  <2> QED
    BY <2>2, <2>3, ClearedIs, ClearedWellFormed
<1> QED
  BY <1>1, <1>2

LEMMA ReceiveFileIs ==
  ASSUME NEW s \in SecondaryState, NEW op \in Op, NEW k \in Content, NEW t,
         t = ReceiveFile(s, op, k)
  PROVE  t \in SecondaryState /\ t.state = s.state /\ Stores(s, t, op, k)
<1>1. s.files \in [File -> Content]
  BY SecondaryFields
<1>2. CASE op.kind = "DELETE" \/ op.name \in s.dirs
  <2>1. t = [s EXCEPT !.files = [s.files EXCEPT ![op.file] = k]]
    BY <1>2 DEF ReceiveFile
  <2>2. PICK files2 \in [File -> Content] :
          /\ files2 = [s.files EXCEPT ![op.file] = k]
          /\ op.file \in File => files2[op.file] = k
          /\ \A f \in File \ {op.file} : files2[f] = s.files[f]
    <3> DEFINE files2 == [s.files EXCEPT ![op.file] = k]
    <3>1. files2 \in [File -> Content]
      BY <1>1
    <3>2. op.file \in File => files2[op.file] = k
      BY <1>1
    <3>3. \A f \in File \ {op.file} : files2[f] = s.files[f]
      BY <1>1
    <3> QED
      BY <3>1, <3>2, <3>3
  <2>3. /\ t \in SecondaryState /\ t.state = s.state /\ t.users = s.users /\ t.dirs = s.dirs
        /\ t.first = s.first /\ t.last = s.last /\ t.files = files2
    BY <2>1, <2>2 DEF SecondaryState, Numbers
  <2> QED
    BY <1>2, <2>2, <2>3 DEF Stores
<1>3. CASE ~ (op.kind = "DELETE" \/ op.name \in s.dirs)
  <2>1. t = s
    BY <1>3 DEF ReceiveFile
  <2> QED
    BY <1>3, <2>1 DEF Stores
<1> QED
  BY <1>2, <1>3

\* What a secondary's state is after a frame that it survives.
Survives(s, t, op, k) ==
  \/ op.kind = "LOGIN" /\ LogsIn(s, t, op, k)
  \/ op.kind = "EXIT" /\ LogsOut(s, t, op, k)
  \/ op.kind \in FileKinds /\ Stores(s, t, op, k)

\* ... or the user does not fit into its table.
NoRoom(s, op) ==
  /\ op.kind = "LOGIN"
  /\ \E socket \in Descriptor :
       handle_user_controller_structure(s.users, op.name, op.id, op.type, socket).reply # "ack"

LEMMA ReceivedIs ==
  ASSUME NEW s \in SecondaryState, WellFormed(s.users), NEW op \in Op, NEW k \in Numbers,
         NEW t \in Received(s, op, k)
  PROVE  \/ t \in SecondaryState /\ t.state = s.state /\ Survives(s, t, op, k)
         \/ t = [s EXCEPT !.state = "crashed"]
         \/ t = [s EXCEPT !.state = "misled"]
         \/ t = [s EXCEPT !.state = "corrupt"]
         \/ t = [s EXCEPT !.state = "nullDevice"] /\ NoRoom(s, op)
<1>1. s.users \in Table /\ op.name \in UserName /\ op.id \in DeviceId
      /\ op.kind \in {"LOGIN", "EXIT", "UPLOAD", "DELETE"}
  BY SecondaryFields DEF Op
<1>2. CASE op.kind = "LOGIN"
  <2>1. t \in {InsertUser(s, op, k, socket) : socket \in Descriptor}
    BY <1>2 DEF Received
  <2>2. PICK socket \in Descriptor : t = InsertUser(s, op, k, socket)
    BY <2>1
  <2>3. PICK h : h = handle_user_controller_structure(s.users, op.name, op.id, op.type, socket)
    OBVIOUS
  <2>4. \/ h.reply # "ack" /\ t = [s EXCEPT !.state = "nullDevice"]
        \/ t \in SecondaryState /\ t.state = s.state /\ LogsIn(s, t, op, k)
    BY <2>2, <2>3, InsertUserIs
  <2> QED
    BY <1>2, <2>3, <2>4 DEF Survives, NoRoom
<1>3. CASE op.kind = "EXIT"
  <2>1. t \in ReceiveExit(s, op, k)
    BY <1>3 DEF Received
  <2>2. Logout(s.users, op.name, op.id) \in Table
    BY <1>1, LogoutTable
  <2>3. CASE t = WithUsers(s, Logout(s.users, op.name, op.id), k)
    BY <1>3, <2>2, <2>3, WithUsersIs DEF Survives, LogsOut
  <2>4. CASE t \in {[s EXCEPT !.state = state] : state \in {"crashed", "misled", "corrupt"}}
    BY <2>4
  <2> QED
    BY <2>1, <2>3, <2>4 DEF ReceiveExit
<1>4. CASE op.kind \in FileKinds
  <2>1. t \in {ReceiveFile(s, op, k)}
    BY <1>4 DEF Received, FileKinds
  <2> QED
    BY <1>4, <2>1, ReceiveFileIs, NumbersAreContents DEF Survives
<1> QED
  BY <1>1, <1>2, <1>3, <1>4 DEF FileKinds

\* n carries out the frame at the front of its stream.
ReadsWhole(n) ==
  LET q == stream[n] IN
  /\ Elsewhere(n)
  /\ secondary[n].state = "serving" /\ secondary'[n].state = "serving"
  /\ Len(q) > 1 /\ WholeFrame(q) /\ stream'[n] = Tail(Tail(q))
  /\ Survives(secondary[n], secondary'[n], q[1].op, q[1].n)

\* n cannot carry out the frame at the front of its stream.
FindsNoRoom(n) ==
  LET q == stream[n] IN
  /\ secondary[n].state = "serving" /\ Len(q) > 1 /\ WholeFrame(q)
  /\ NoRoom(secondary[n], q[1].op)

LEMMA BecomesIs ==
  ASSUME secondary \in [Server -> SecondaryState], stream \in [Server -> Stream],
         NEW n \in Server, NEW t \in SecondaryState, NEW rest \in Stream, Becomes(n, t, rest)
  PROVE  /\ Elsewhere(n) /\ kills' = kills /\ secondary'[n] = t /\ stream'[n] = rest
         /\ secondary' \in [Server -> SecondaryState] /\ stream' \in [Server -> Stream]
BY DEF Becomes, Elsewhere, tableVars, fileVars, lockVars, countVars

\* Every step of a secondary is one of these.
SecondaryMoves(n) ==
  /\ secondary' \in [Server -> SecondaryState] /\ stream' \in [Server -> Stream]
  /\ kills' \in 0 .. MaxKills
  /\ \/ \E state \in Stopped \ {"nullDevice"} : secondary[n].state # "off" /\ StopsAs(n, state)
     \/ StopsAs(n, "nullDevice") /\ FindsNoRoom(n)
     \/ ReadsAck(n)
     \/ ReadsWhole(n)

LEMMA ReadFrameMoves ==
  ASSUME TypeOK, Tables, NEW n \in Server, ReadFrame(n)
  PROVE  SecondaryMoves(n)
<1>1. /\ secondary \in [Server -> SecondaryState] /\ stream \in [Server -> Stream]
      /\ stream[n] \in Stream /\ secondary[n] \in SecondaryState /\ kills \in 0 .. MaxKills
  BY DEF TypeOK
<1>2. PICK s \in SecondaryState, q \in Stream : s = secondary[n] /\ q = stream[n]
  BY <1>1
<1>3. /\ s.state = "serving" /\ Len(q) > 1 /\ WholeFrame(q)
      /\ \E t \in Received(s, q[1].op, q[1].n) :
           Becomes(n, t, IF t.state = "serving" THEN Tail(Tail(q)) ELSE <<>>)
  BY <1>2 DEF ReadFrame
<1>4. PICK t \in Received(s, q[1].op, q[1].n) :
        Becomes(n, t, IF t.state = "serving" THEN Tail(Tail(q)) ELSE <<>>)
  BY <1>3
<1>5. q[1].op \in Op /\ q[1].n \in Numbers
  BY <1>3, WholeFrameIs
<1>6. WellFormed(s.users)
  BY <1>2, <1>3 DEF Tables, Hearing
<1>7. \/ t \in SecondaryState /\ t.state = s.state /\ Survives(s, t, q[1].op, q[1].n)
      \/ t = [s EXCEPT !.state = "crashed"]
      \/ t = [s EXCEPT !.state = "misled"]
      \/ t = [s EXCEPT !.state = "corrupt"]
      \/ t = [s EXCEPT !.state = "nullDevice"] /\ NoRoom(s, q[1].op)
  BY <1>5, <1>6, ReceivedIs
<1>8. Tail(Tail(q)) \in Stream /\ <<>> \in Stream
  BY <1>3, RestOfTwo DEF Stream
<1>9. CASE t \in SecondaryState /\ t.state = s.state /\ Survives(s, t, q[1].op, q[1].n)
  <2>1. Becomes(n, t, Tail(Tail(q)))
    BY <1>3, <1>4, <1>9
  <2>2. /\ Elsewhere(n) /\ kills' = kills /\ secondary'[n] = t /\ stream'[n] = Tail(Tail(q))
        /\ secondary' \in [Server -> SecondaryState] /\ stream' \in [Server -> Stream]
    BY <1>1, <1>8, <1>9, <2>1, BecomesIs
  <2>3. ReadsWhole(n)
    BY <1>2, <1>3, <1>9, <2>2 DEF ReadsWhole
  <2> QED
    BY <1>1, <2>2, <2>3 DEF SecondaryMoves
<1>10. ASSUME NEW state \in {"crashed", "misled", "corrupt", "nullDevice"}, t = [s EXCEPT !.state = state]
       PROVE  /\ StopsAs(n, state) /\ kills' = kills
              /\ secondary' \in [Server -> SecondaryState] /\ stream' \in [Server -> Stream]
  <2>1. t.state = state /\ t \in SecondaryState
    <3>1. state \in Stopped
      BY DEF Stopped
    <3>2. [s EXCEPT !.state = state] \in SecondaryState /\ [s EXCEPT !.state = state].state = state
      BY <3>1, StoppedIs
    <3> QED
      BY <1>10, <3>2
  <2>2. Stops(n, state)
    BY <1>2, <1>4, <1>10, <2>1 DEF Stops
  <2> QED
    BY <1>1, <2>2, StopsIs DEF Stopped
<1>11. CASE t = [s EXCEPT !.state = "crashed"]
  BY <1>1, <1>2, <1>3, <1>10, <1>11 DEF SecondaryMoves, Stopped
<1>12. CASE t = [s EXCEPT !.state = "corrupt"] \/ t = [s EXCEPT !.state = "misled"]
  <2>1. PICK state \in {"corrupt", "misled"} : t = [s EXCEPT !.state = state]
    BY <1>12
  <2> QED
    BY <1>1, <1>2, <1>3, <1>10, <2>1 DEF SecondaryMoves, Stopped
<1>13. CASE t = [s EXCEPT !.state = "nullDevice"] /\ NoRoom(s, q[1].op)
  <2>1. FindsNoRoom(n)
    BY <1>2, <1>3, <1>13 DEF FindsNoRoom
  <2> QED
    BY <1>1, <1>10, <1>13, <2>1 DEF SecondaryMoves
<1> QED
  BY <1>7, <1>9, <1>11, <1>12, <1>13

LEMMA ReadAckMoves ==
  ASSUME TypeOK, NEW n \in Server, ReadAck(n)
  PROVE  SecondaryMoves(n)
<1>1. /\ secondary \in [Server -> SecondaryState] /\ stream \in [Server -> Stream]
      /\ stream[n] \in Stream /\ secondary[n] \in SecondaryState /\ kills \in 0 .. MaxKills
  BY DEF TypeOK
<1>2. PICK s \in SecondaryState, q \in Stream : s = secondary[n] /\ q = stream[n]
  BY <1>1
<1>3. s.state = "joining" /\ q # <<>>
  BY <1>2 DEF ReadAck
<1>4. CASE Head(q) = Ack /\ Becomes(n, [s EXCEPT !.state = "serving"], Tail(q))
  <2>1. PICK t \in SecondaryState :
          /\ t = [s EXCEPT !.state = "serving"] /\ t.state = "serving" /\ t.users = s.users
          /\ t.dirs = s.dirs /\ t.files = s.files /\ t.first = s.first /\ t.last = s.last
    <3> DEFINE t == [s EXCEPT !.state = "serving"]
    <3>1. t \in SecondaryState
      BY DEF SecondaryState
    <3>2. /\ t.state = "serving" /\ t.users = s.users /\ t.dirs = s.dirs /\ t.files = s.files
          /\ t.first = s.first /\ t.last = s.last
      BY DEF SecondaryState
    <3> QED
      BY <3>1, <3>2
  <2>2. Tail(q) \in Stream
    BY <1>3, RestOfOne DEF Stream
  <2>3. /\ Elsewhere(n) /\ kills' = kills /\ secondary'[n] = t /\ stream'[n] = Tail(q)
        /\ secondary' \in [Server -> SecondaryState] /\ stream' \in [Server -> Stream]
    BY <1>1, <1>4, <2>1, <2>2, BecomesIs
  <2>4. ReadsAck(n)
    BY <1>2, <1>3, <1>4, <2>1, <2>3 DEF ReadsAck
  <2> QED
    BY <1>1, <2>3, <2>4 DEF SecondaryMoves
<1>5. CASE Stops(n, "astray")
  BY <1>1, <1>2, <1>3, <1>5, StopsIs DEF SecondaryMoves, Stopped
<1> QED
  BY <1>2, <1>4, <1>5 DEF ReadAck

LEMMA KillMoves ==
  ASSUME TypeOK, NEW n \in Server, KillSecondary(n)
  PROVE  SecondaryMoves(n)
<1>1. /\ secondary \in [Server -> SecondaryState] /\ stream \in [Server -> Stream]
      /\ secondary[n] \in SecondaryState /\ kills \in 0 .. MaxKills
  BY DEF TypeOK
<1>2. kills' \in 0 .. MaxKills
  BY <1>1, ReplicationAssumption DEF KillSecondary
<1>3. <<>> \in Stream
  BY DEF Stream
<1>4. /\ secondary' = [secondary EXCEPT ![n] = [secondary[n] EXCEPT !.state = "killed"]]
      /\ stream' = [stream EXCEPT ![n] = <<>>] /\ secondary[n].state # "off"
      /\ UNCHANGED <<users, past, dirs, files, unsure, mutex_user, mutex_server, backupServers,
                     entering, worker, down, ops>>
  BY DEF KillSecondary, tableVars, fileVars, lockVars
<1>5. StopsAs(n, "killed")
  BY <1>1, <1>4, StoppedIs DEF StopsAs, Elsewhere, Stopped
<1>6. secondary' \in [Server -> SecondaryState] /\ stream' \in [Server -> Stream]
  BY <1>1, <1>3, <1>4, StoppedIs DEF Stopped
<1> QED
  BY <1>2, <1>4, <1>5, <1>6 DEF SecondaryMoves, Stopped

\* Half a frame, and then the end of the stream.
LEMMA InterruptedIs ==
  ASSUME NEW s \in SecondaryState, NEW op \in Op \cup {NoOp}, NEW t \in Interrupted(s, op)
  PROVE  /\ t \in SecondaryState /\ t.state \in {"election", "crashed"}
         /\ t.users = s.users /\ t.dirs = s.dirs /\ t.first = s.first /\ t.last = s.last
<1>1. PICK r \in SecondaryState, state \in {"election", "crashed"} :
         /\ t = [r EXCEPT !.state = state]
         /\ r.users = s.users /\ r.dirs = s.dirs /\ r.first = s.first /\ r.last = s.last
  <2>1. CASE op.kind = "UPLOAD" /\ t = [ReceiveFile(s, op, Cut) EXCEPT !.state = "election"]
    <3>1. op \in Op
      BY <2>1 DEF NoOp
    <3>2. PICK r : r = ReceiveFile(s, op, Cut)
      OBVIOUS
    <3>3. r \in SecondaryState /\ Stores(s, r, op, Cut)
      BY <3>1, <3>2, ReceiveFileIs, NumbersAreContents
    <3> QED
      BY <2>1, <3>2, <3>3 DEF Stores
  <2>2. CASE t = [s EXCEPT !.state = "election"] \/ t = [s EXCEPT !.state = "crashed"]
    BY <2>2
  <2> QED
    BY <2>1, <2>2 DEF Interrupted
<1>2. state \in Stopped
  BY DEF Stopped
<1>3. PICK u : u = [r EXCEPT !.state = state]
  OBVIOUS
<1>4. u \in SecondaryState /\ u.state = state /\ u.users = r.users /\ u.dirs = r.dirs
      /\ u.first = r.first /\ u.last = r.last
  BY ONLY <1>2, <1>3, r \in SecondaryState, StoppedIs
<1> QED
  BY <1>1, <1>3, <1>4

LEMMA ReadFailsMoves ==
  ASSUME TypeOK, NEW n \in Server, ReadFails(n)
  PROVE  SecondaryMoves(n)
<1>1. /\ secondary \in [Server -> SecondaryState] /\ stream \in [Server -> Stream]
      /\ secondary[n] \in SecondaryState /\ stream[n] \in Stream /\ kills \in 0 .. MaxKills
  BY DEF TypeOK
<1>2. CASE secondary[n].state # "off" /\ Stops(n, "election")
  BY <1>1, <1>2, StopsIs DEF SecondaryMoves, Stopped
<1>3. CASE /\ secondary[n].state = "serving" /\ Len(stream[n]) = 1
           /\ \E s \in Interrupted(secondary[n], stream[n][1].op) : Becomes(n, s, <<>>)
  <2>1. stream[n][1].op \in Op \cup {NoOp}
    <3>1. stream[n] \in Seq(Unit \cup {Ack}) /\ 1 \in 1 .. Len(stream[n])
      BY <1>1, <1>3 DEF Stream
    <3>2. stream[n][1] \in Unit \cup {Ack}
      BY <3>1, SeqFacts
    <3> QED
      BY <3>2 DEF Unit, Ack
  <2>2. PICK s \in Interrupted(secondary[n], stream[n][1].op) : Becomes(n, s, <<>>)
    BY <1>3
  <2>3. /\ s \in SecondaryState /\ s.state \in {"election", "crashed"}
        /\ s.users = secondary[n].users /\ s.dirs = secondary[n].dirs
        /\ s.first = secondary[n].first /\ s.last = secondary[n].last
    BY <1>1, <2>1, InterruptedIs
  <2>4. <<>> \in Stream
    BY DEF Stream
  <2>5. /\ secondary' \in [Server -> SecondaryState] /\ stream' \in [Server -> Stream]
        /\ kills' = kills /\ StopsAs(n, s.state)
    BY <1>1, <2>2, <2>3, <2>4
       DEF Becomes, StopsAs, Elsewhere, tableVars, fileVars, lockVars, countVars
  <2> QED
    BY <1>1, <1>3, <2>3, <2>5 DEF SecondaryMoves, Stopped
<1> QED
  BY <1>2, <1>3 DEF ReadFails

LEMMA SecondaryMovesIs ==
  ASSUME TypeOK, Tables, NEW n \in Server, SecondaryStep(n) \/ KillSecondary(n)
  PROVE  SecondaryMoves(n)
<1>1. /\ secondary \in [Server -> SecondaryState] /\ stream \in [Server -> Stream]
      /\ secondary[n] \in SecondaryState /\ kills \in 0 .. MaxKills
  BY DEF TypeOK
<1>2. ASSUME NEW state \in Stopped \ {"nullDevice"}, Stops(n, state), secondary[n].state # "off"
      PROVE  SecondaryMoves(n)
  BY <1>1, <1>2, StopsIs DEF SecondaryMoves
<1>3. CASE ReadMixed(n)
  BY <1>2, <1>3 DEF ReadMixed, Stopped
<1>4. CASE ReadFails(n)
  BY <1>4, ReadFailsMoves
<1>5. CASE Stray(n)
  BY <1>2, <1>5 DEF Stray, Stopped
<1>6. CASE Elect(n)
  BY <1>2, <1>6 DEF Elect, Stopped
<1>7. CASE Abort(n)
  BY <1>2, <1>7 DEF Abort, Stopped
<1> QED
  BY <1>3, <1>4, <1>5, <1>6, <1>7, ReadAckMoves, ReadFrameMoves, KillMoves DEF SecondaryStep

-----------------------------------------------------------------------------
(* Users and devices: what changes of the table do to its view. *)

LEMMA ViewHas ==
  ASSUME NEW us, NEW x
  PROVE  x \in View(us) <=>
           \E u \in UserSlot, d \in DeviceSlot :
              us[u].devices[d].id # NoId /\ x = <<us[u].name, us[u].devices[d].id>>
<1> DEFINE S == {y \in UserSlot \X DeviceSlot : us[y[1]].devices[y[2]].id # NoId}
           G(y) == <<us[y[1]].name, us[y[1]].devices[y[2]].id>>
<1>1. x \in View(us) <=> \E y \in S : x = G(y)
  BY DEF View
<1>2. ASSUME NEW y \in S
      PROVE  /\ y[1] \in UserSlot /\ y[2] \in DeviceSlot /\ us[y[1]].devices[y[2]].id # NoId
  OBVIOUS
<1>3. ASSUME NEW u \in UserSlot, NEW d \in DeviceSlot, us[u].devices[d].id # NoId
      PROVE  <<u, d>> \in S /\ G(<<u, d>>) = <<us[u].name, us[u].devices[d].id>>
  BY <1>3
<1>4. ASSUME x \in View(us)
      PROVE  \E u \in UserSlot, d \in DeviceSlot :
               us[u].devices[d].id # NoId /\ x = <<us[u].name, us[u].devices[d].id>>
  <2>1. PICK y \in S : x = G(y)
    BY <1>1, <1>4
  <2> QED
    BY <2>1, <1>2
<1>5. ASSUME NEW u \in UserSlot, NEW d \in DeviceSlot, us[u].devices[d].id # NoId,
             x = <<us[u].name, us[u].devices[d].id>>
      PROVE  x \in View(us)
  <2>1. <<u, d>> \in S /\ G(<<u, d>>) = x
    BY <1>3, <1>5
  <2> HIDE DEF S, G
  <2> QED
    BY <1>1, <2>1
<1> QED
  BY <1>4, <1>5

LEMMA ViewType ==
  ASSUME NEW us \in Table, WellFormed(us)
  PROVE  /\ View(us) \in SUBSET (UserName \X DeviceId)
         /\ \A u \in UserSlot, d \in DeviceSlot :
              us[u].devices[d].id # NoId => us[u].name \in UserName /\ us[u].devices[d].id \in DeviceId
<1>1. ASSUME NEW u \in UserSlot, NEW d \in DeviceSlot, us[u].devices[d].id # NoId
      PROVE  us[u].name \in UserName /\ us[u].devices[d].id \in DeviceId
  <2>1. us[u].name # NoName
    BY <1>1 DEF WellFormed, NamedWhileConnected, Connected
  <2>2. us[u].name \in UserName \cup {NoName} /\ us[u].devices[d] \in Device
    BY TableEntry
  <2> QED
    BY <1>1, <2>1, <2>2 DEF Device
<1>2. ASSUME NEW x \in View(us)
      PROVE  x \in UserName \X DeviceId
  <2>1. PICK u \in UserSlot, d \in DeviceSlot :
          us[u].devices[d].id # NoId /\ x = <<us[u].name, us[u].devices[d].id>>
    BY ViewHas
  <2> QED
    BY <1>1, <2>1
<1> QED
  BY <1>1, <1>2

LEMMA ViewOfEmptyTable == View(EmptyTable) = {}
<1>1. \A u \in UserSlot, d \in DeviceSlot : EmptyTable[u].devices[d].id = NoId
  BY DEF EmptyTable, EmptyDevice
<1> QED
  BY <1>1, ViewHas

LEMMA ViewOfSeated ==
  ASSUME NEW us \in Table, WellFormed(us), NEW u \in UserSlot, NEW d \in DeviceSlot,
         NEW name \in UserName, NEW id \in DeviceId, NEW type \in SocketType,
         NEW socket \in Descriptor, NEW vs, SeatFor(us, u, d, name, id),
         vs = Seated(us, u, d, name, id, type, socket)
  PROVE  View(vs) = View(us) \cup {<<name, id>>}
<1>1. /\ vs[u].name = name /\ vs[u].devices[d].id = id
      /\ \A e \in DeviceSlot \ {d} : vs[u].devices[e] = us[u].devices[e]
      /\ \A v \in UserSlot \ {u} : vs[v] = us[v]
  BY SeatedIs
<1>2. id # NoId
  BY UserTableAssumption
<1>3. \A e \in DeviceSlot : us[u].devices[e].id # NoId => us[u].name = name
  BY FreeSlotIsEmpty DEF SeatFor, WellFormed
<1>4. us[u].devices[d].id # NoId => us[u].devices[d].id = id
  BY DEF SeatFor
<1>5. ASSUME NEW x \in View(vs)
      PROVE  x \in View(us) \cup {<<name, id>>}
  <2>1. PICK v \in UserSlot, e \in DeviceSlot :
          vs[v].devices[e].id # NoId /\ x = <<vs[v].name, vs[v].devices[e].id>>
    BY ViewHas
  <2>2. CASE v = u /\ e = d
    BY <1>1, <2>1, <2>2
  <2>3. CASE v = u /\ e # d
    <3>1. us[u].devices[e].id # NoId /\ x = <<us[u].name, us[u].devices[e].id>>
      BY <1>1, <1>3, <2>1, <2>3
    <3> QED
      BY <3>1, ViewHas
  <2>4. CASE v # u
    <3>1. us[v].devices[e].id # NoId /\ x = <<us[v].name, us[v].devices[e].id>>
      BY <1>1, <2>1, <2>4
    <3> QED
      BY <3>1, ViewHas
  <2> QED
    BY <2>2, <2>3, <2>4
<1>6. ASSUME NEW x \in View(us)
      PROVE  x \in View(vs)
  <2>1. PICK v \in UserSlot, e \in DeviceSlot :
          us[v].devices[e].id # NoId /\ x = <<us[v].name, us[v].devices[e].id>>
    BY ViewHas
  <2>2. vs[v].devices[e].id # NoId /\ x = <<vs[v].name, vs[v].devices[e].id>>
    <3>1. CASE v = u /\ e = d
      BY <1>1, <1>2, <1>3, <1>4, <2>1, <3>1
    <3>2. CASE v = u /\ e # d
      BY <1>1, <1>3, <2>1, <3>2
    <3>3. CASE v # u
      BY <1>1, <2>1, <3>3
    <3> QED
      BY <3>1, <3>2, <3>3
  <2> QED
    BY <2>2, ViewHas
<1>7. <<name, id>> \in View(vs)
  BY <1>1, <1>2, ViewHas
<1> QED
  BY <1>5, <1>6, <1>7

LEMMA ViewOfCleared ==
  ASSUME NEW us \in Table, WellFormed(us), NEW u \in UserSlot, NEW d \in DeviceSlot,
         us[u].devices[d].id # NoId, NEW vs, vs = Cleared(us, u, d)
  PROVE  View(vs) = View(us) \ {<<us[u].name, us[u].devices[d].id>>}
<1>1. /\ vs[u].name = IF Connected(us, u) \subseteq {d} THEN NoName ELSE us[u].name
      /\ vs[u].devices[d] = EmptyDevice
      /\ \A e \in DeviceSlot \ {d} : vs[u].devices[e] = us[u].devices[e]
      /\ \A v \in UserSlot \ {u} : vs[v] = us[v]
  BY ClearedIs
<1>2. vs[u].devices[d].id = NoId
  BY <1>1 DEF EmptyDevice
<1>3. \A e \in DeviceSlot \ {d} : us[u].devices[e].id # NoId => vs[u].name = us[u].name
  BY <1>1 DEF Connected
<1>4. \A e \in DeviceSlot \ {d} : us[u].devices[e].id # us[u].devices[d].id
  BY DEF WellFormed, UniqueIds
<1>5. \A v \in UserSlot \ {u}, e \in DeviceSlot :
        us[v].devices[e].id # NoId => us[v].name # us[u].name
  <2>1. us[u].name # NoName
    BY DEF WellFormed, NamedWhileConnected, Connected
  <2> QED
    BY <2>1 DEF WellFormed, UniqueNames
<1>6. ASSUME NEW x \in View(vs)
      PROVE  x \in View(us) /\ x # <<us[u].name, us[u].devices[d].id>>
  <2>1. PICK v \in UserSlot, e \in DeviceSlot :
          vs[v].devices[e].id # NoId /\ x = <<vs[v].name, vs[v].devices[e].id>>
    BY ViewHas
  <2>2. us[v].devices[e].id # NoId /\ x = <<us[v].name, us[v].devices[e].id>>
    <3>1. CASE v = u
      BY <1>1, <1>2, <1>3, <2>1, <3>1
    <3>2. CASE v # u
      BY <1>1, <2>1, <3>2
    <3> QED
      BY <3>1, <3>2
  <2>3. us[v].name # us[u].name \/ us[v].devices[e].id # us[u].devices[d].id
    BY <1>2, <1>4, <1>5, <2>1, <2>2
  <2> QED
    BY <2>2, <2>3, ViewHas
<1>7. ASSUME NEW x \in View(us), x # <<us[u].name, us[u].devices[d].id>>
      PROVE  x \in View(vs)
  <2>1. PICK v \in UserSlot, e \in DeviceSlot :
          us[v].devices[e].id # NoId /\ x = <<us[v].name, us[v].devices[e].id>>
    BY ViewHas
  <2>2. vs[v].devices[e].id # NoId /\ x = <<vs[v].name, vs[v].devices[e].id>>
    <3>1. CASE v = u
      BY <1>1, <1>3, <1>7, <2>1, <3>1
    <3>2. CASE v # u
      BY <1>1, <2>1, <3>2
    <3> QED
      BY <3>1, <3>2
  <2> QED
    BY <2>2, ViewHas
<1> QED
  BY <1>6, <1>7

\* A logout takes the device out of the view, if it was there.
LEMMA ViewOfLogout ==
  ASSUME NEW us \in Table, WellFormed(us), NEW name \in UserName, NEW id \in DeviceId
  PROVE  View(Logout(us, name, id)) = View(us) \ {<<name, id>>}
<1>1. CASE get_device(us, id, name) = 0
  <2>1. remove_device(us, name, id) = [result |-> "ERROR", users |-> us]
    BY <1>1 DEF remove_device
  <2>2. Logout(us, name, id) = us
    BY <2>1 DEF Logout
  <2>3. <<name, id>> \notin View(us)
    <3>1. SUFFICES ASSUME NEW u \in UserSlot, NEW d \in DeviceSlot, us[u].devices[d].id # NoId,
                          us[u].name = name, us[u].devices[d].id = id
                   PROVE  FALSE
      BY ViewHas
    <3>2. get_user(us, name) # 0
      BY <3>1, GetUser
    <3>3. get_user(us, name) = u
      <4>1. name # NoName
        BY UserTableAssumption
      <4> QED
        BY <3>1, <3>2, <4>1, GetUser DEF WellFormed, UniqueNames
    <3>4. DeviceOf(us, u, id) = 0
      BY <1>1, <3>2, <3>3 DEF get_device
    <3> QED
      BY <3>1, <3>4, FindDevice
  <2> QED
    BY <2>2, <2>3
<1>2. CASE get_device(us, id, name) # 0
  <2>1. PICK u, d : u = get_user(us, name) /\ d = get_device(us, id, name) /\ d # 0
    BY <1>2
  <2>2. u \in UserSlot /\ us[u].name = name /\ d \in DeviceSlot /\ us[u].devices[d].id = id
        /\ id # NoId
    BY <2>1, GetDevice, UserTableAssumption
  <2>3. Logout(us, name, id) = Cleared(us, u, d)
    BY <2>1, LogoutEffect DEF WellFormed
  <2> QED
    BY <2>2, <2>3, ViewOfCleared
<1> QED
  BY <1>1, <1>2

-----------------------------------------------------------------------------
(* Changes of the primary's table. *)

Waiting == {w \in Worker : worker[w].pc = "user_wait"}

\* A change that has begun can be numbered.
LEMMA RoomForChange ==
  ASSUME TypeOK, Counted, past # <<>>, NEW w \in Worker, worker[w].pc = "user_wait"
  PROVE  Len(past) \in Numbers /\ Len(past) >= 1
<1>1. IsFiniteSet(Waiting)
  BY FS_Subset, ReplicationAssumption DEF Waiting
<1>2. Cardinality(Waiting) \in Nat /\ Cardinality(Waiting) # 0
  BY <1>1, FS_CardinalityType, FS_EmptySet DEF Waiting
<1>3. Len(past) + Cardinality(Waiting) <= ops + 1
  BY DEF Counted, Waiting
<1>4. past \in Seq(SUBSET (UserName \X DeviceId)) /\ ops \in 0 .. MaxOps
  BY DEF TypeOK
<1>5. Len(past) \in Nat /\ Len(past) # 0
  BY <1>4, SeqFacts
<1> QED
  BY <1>2, <1>3, <1>4, <1>5, ReplicationAssumption DEF Numbers

\* w changes the table and goes to its loop over backupServers.
ChangesTable(w) ==
  LET op == worker[w].op IN
  /\ worker[w].pc = "user_wait" /\ op \in Op /\ op.kind \in UserKinds
  /\ mutex_user = Nobody /\ mutex_user' = w
  /\ users' \in Table /\ WellFormed(users') /\ View(users') = Applied(op, View(users))
  /\ past' = Append(past, View(users')) /\ Len(past) \in Numbers /\ Len(past) >= 1
  /\ Turns(w, "slots", op, Len(past), 1, worker[w].half, worker[w].to)
  /\ UNCHANGED <<dirs, files, unsure, mutex_server, backupServers, entering, stream, secondary,
                 down, ops, kills>>

LEMMA LoginChanges ==
  ASSUME TypeOK, Locks, Counted, Tables, NEW w \in Worker, Login(w)
  PROVE  ChangesTable(w)
<1>1. PICK op : op = worker[w].op
  OBVIOUS
<1>2. /\ worker[w].pc = "user_wait" /\ op.kind = "LOGIN" /\ mutex_user = Nobody /\ mutex_user' = w
      /\ GotoSlots(w, Len(past))
      /\ UNCHANGED <<dirs, files, unsure, mutex_server, backupServers, entering, stream, secondary,
                     down, ops, kills>>
  BY <1>1 DEF Login, UserLockFree, fileVars, remoteVars, countVars
<1>3. op \in Op
  BY <1>1, <1>2, ReplicationAssumption DEF Locks, Busy
<1>4. op.name \in UserName /\ op.id \in DeviceId /\ op.type \in SocketType
  BY <1>3 DEF Op
<1>5. users \in Table /\ WellFormed(users) /\ past # <<>>
  BY DEF TypeOK, Tables
<1>6. PICK s \in Descriptor : \E r :
        /\ r = handle_user_controller_structure(users, op.name, op.id, op.type, s)
        /\ r.reply = "ack" /\ Changed(r.users)
  BY <1>1 DEF Login
<1>7. PICK r :
        /\ r = handle_user_controller_structure(users, op.name, op.id, op.type, s)
        /\ r.reply = "ack" /\ Changed(r.users)
  BY <1>6
<1>8. PICK u \in UserSlot, d \in DeviceSlot :
        /\ SeatFor(users, u, d, op.name, op.id)
        /\ r.users = Seated(users, u, d, op.name, op.id, op.type, s)
  BY <1>4, <1>5, <1>7, LoginEffect DEF WellFormed
<1>9. /\ r.users \in Table /\ WellFormed(r.users)
      /\ View(r.users) = View(users) \cup {<<op.name, op.id>>}
  BY <1>4, <1>5, <1>8, SeatedIs, SeatedWellFormed, ViewOfSeated
<1>10. Applied(op, View(users)) = View(users) \cup {<<op.name, op.id>>}
  BY <1>2 DEF Applied
<1>11. users' = r.users /\ past' = Append(past, View(r.users))
  BY <1>7 DEF Changed
<1>12. View(users') = View(r.users)
  BY <1>11 DEF View
<1>13. Len(past) \in Numbers /\ Len(past) >= 1
  BY <1>2, <1>5, RoomForChange
<1>14. Turns(w, "slots", op, Len(past), 1, worker[w].half, worker[w].to)
  BY <1>1, <1>2, <1>13, GotoSlotsIs DEF TypeOK
<1>15. users' \in Table /\ WellFormed(users') /\ View(users') = Applied(op, View(users))
       /\ past' = Append(past, View(users'))
  BY <1>9, <1>10, <1>11, <1>12
<1> QED
  BY <1>1, <1>2, <1>3, <1>13, <1>14, <1>15 DEF ChangesTable, UserKinds

LEMMA ExitChanges ==
  ASSUME TypeOK, Locks, Counted, Tables, NEW w \in Worker, Exit(w)
  PROVE  ChangesTable(w) \/ Crash("nullDevice")
<1>1. PICK op : op = worker[w].op
  OBVIOUS
<1>2. /\ worker[w].pc = "user_wait" /\ op.kind = "EXIT" /\ mutex_user = Nobody
  BY <1>1 DEF Exit, UserLockFree
<1>3. op \in Op
  BY <1>1, <1>2, ReplicationAssumption DEF Locks, Busy
<1>4. op.name \in UserName /\ op.id \in DeviceId
  BY <1>3 DEF Op
<1>5. users \in Table /\ WellFormed(users) /\ past # <<>>
  BY DEF TypeOK, Tables
<1>6. SUFFICES ASSUME ~ Crash("nullDevice")
               PROVE  ChangesTable(w)
  OBVIOUS
<1>7. /\ mutex_user' = w /\ Changed(Logout(users, op.name, op.id)) /\ GotoSlots(w, Len(past))
      /\ UNCHANGED <<dirs, files, unsure, mutex_server, backupServers, entering, stream, secondary,
                     down, ops, kills>>
  BY <1>1, <1>6 DEF Exit, fileVars, remoteVars, countVars
<1>8. PICK us \in Table : us = Logout(users, op.name, op.id) /\ WellFormed(us)
                          /\ View(us) = View(users) \ {<<op.name, op.id>>}
  BY <1>4, <1>5, LogoutTable, ViewOfLogout
<1>9. Applied(op, View(users)) = View(users) \ {<<op.name, op.id>>}
  BY <1>2 DEF Applied
<1>10. users' = us /\ past' = Append(past, View(us))
  BY <1>7, <1>8 DEF Changed
<1>11. View(users') = View(us)
  BY <1>10 DEF View
<1>12. Len(past) \in Numbers /\ Len(past) >= 1
  BY <1>2, <1>5, RoomForChange
<1>13. Turns(w, "slots", op, Len(past), 1, worker[w].half, worker[w].to)
  BY <1>1, <1>7, <1>12, GotoSlotsIs DEF TypeOK
<1>14. users' \in Table /\ WellFormed(users') /\ View(users') = Applied(op, View(users))
       /\ past' = Append(past, View(users'))
  BY <1>8, <1>9, <1>10, <1>11
<1> QED
  BY <1>1, <1>2, <1>3, <1>7, <1>12, <1>13, <1>14 DEF ChangesTable, UserKinds

\* A write to a connection adds to the stream of n at most, and may end the primary.
LEMMA WriteIs ==
  ASSUME TypeOK, NEW n \in Server \cup {NoServer}, NEW unit \in Unit \cup {Ack}, Write(n, unit)
  PROVE  /\ stream' \in [Server -> Stream]
         /\ \A m \in Server \ {n} : stream'[m] = stream[m]
         /\ n \in Server => stream'[n] = IF Hearing(n) THEN Append(stream[n], unit) ELSE stream[n]
         /\ down' \in {down, "sigpipe"}
<1>1. stream \in [Server -> Stream] /\ NoServer \notin Server
  BY ReplicationAssumption DEF TypeOK
<1>2. CASE n # NoServer /\ Hearing(n)
  <2>1. n \in Server
    BY <1>2
  <2>2. /\ stream' = [stream EXCEPT ![n] = Append(stream[n], unit)] /\ down' = down
    BY <1>2 DEF Write, Hearing
  <2>3. Append(stream[n], unit) \in Stream
    BY <1>1, <2>1, AppendIs DEF Stream
  <2> QED
    BY <1>1, <1>2, <2>1, <2>2, <2>3
<1>3. CASE ~ (n # NoServer /\ Hearing(n))
  <2>1. stream' = stream /\ down' \in {down, "sigpipe"}
    BY <1>3 DEF Write, Hearing
  <2> QED
    BY <1>1, <1>3, <2>1
<1> QED
  BY <1>2, <1>3

-----------------------------------------------------------------------------
(* Types *)

\* What every case of the next-state relation leaves of the types.
LEMMA WorkerTypes ==
  ASSUME TypeOK, worker' \in [Worker -> WorkerState],
         UNCHANGED <<users, past, dirs, backupServers, entering, secondary, kills>>,
         files' \in [File -> Content], unsure' \subseteq File, ops' \in Numbers,
         mutex_user' \in Worker \cup {Nobody}, mutex_server' \in Worker \cup Server \cup {Nobody},
         stream' \in [Server -> Stream],
         down' \in {"no", "killed", "sigpipe", "nullUser", "nullDevice"}
  PROVE  TypeOK'
BY DEF TypeOK, Numbers

LEMMA CrashTypes ==
  ASSUME TypeOK, NEW cause \in {"nullUser", "nullDevice"}, Crash(cause)
  PROVE  TypeOK'
BY DEF TypeOK, Crash, tableVars, fileVars, lockVars, remoteVars, countVars

LEMMA WorkerStepTypes ==
  ASSUME TypeOK, Locks, Counted, Tables, NEW w \in Worker, WorkerStep(w)
  PROVE  TypeOK'
<1>1. /\ worker \in [Worker -> WorkerState] /\ files \in [File -> Content] /\ unsure \subseteq File
      /\ ops \in Numbers /\ mutex_user \in Worker \cup {Nobody}
      /\ mutex_server \in Worker \cup Server \cup {Nobody} /\ stream \in [Server -> Stream]
      /\ down \in {"no", "killed", "sigpipe", "nullUser", "nullDevice"}
      /\ backupServers \in [Slot -> Backup] /\ dirs \subseteq UserName
  BY DEF TypeOK, Numbers, Backup
<1>2. CASE ChangesTable(w)
  <2>1. users' \in Table /\ View(users') \in SUBSET (UserName \X DeviceId)
    <3>1. PICK us : us = users'
      OBVIOUS
    <3>2. us \in Table /\ WellFormed(us)
      BY <1>2, <3>1 DEF ChangesTable
    <3>3. View(us) = View(users')
      BY <3>1 DEF View
    <3> QED
      BY <3>1, <3>2, <3>3, ViewType
  <2>2. past' \in Seq(SUBSET (UserName \X DeviceId))
    <3>1. past \in Seq(SUBSET (UserName \X DeviceId)) /\ past' = Append(past, View(users'))
      BY <1>2 DEF TypeOK, ChangesTable
    <3> QED
      BY <2>1, <3>1, AppendIs
  <2>3. worker' \in [Worker -> WorkerState]
    BY <1>2 DEF ChangesTable, Turns
  <2> QED
    BY <1>2, <2>1, <2>2, <2>3 DEF ChangesTable, TypeOK
<1>3. CASE Login(w)
  BY <1>2, <1>3, LoginChanges
<1>4. CASE Exit(w)
  BY <1>2, <1>4, ExitChanges, CrashTypes
<1>5. CASE Refuse(w)
  <2>1. worker' \in [Worker -> WorkerState]
    BY <1>1, <1>5, RefuseIs DEF Turns
  <2> QED
    BY <1>1, <1>5, <2>1, WorkerTypes DEF Refuse, tableVars, fileVars, remoteVars, countVars
<1>6. CASE WriteFile(w)
  <2>1. worker' \in [Worker -> WorkerState]
    BY <1>1, <1>6, GotoIs DEF Turns, WriteFile
  <2>2. files' \in [File -> Content]
    <3>1. worker[w].n \in Content
      BY <1>1, WorkerFields, NumbersAreContents
    <3>2. files' = [files EXCEPT ![worker[w].op.file] = worker[w].n]
      BY <1>6 DEF WriteFile
    <3> QED
      BY <1>1, <3>1, <3>2
  <2> QED
    BY <1>1, <1>6, <2>1, <2>2, WorkerTypes DEF WriteFile, tableVars, lockVars, remoteVars, countVars
<1>7. CASE Notify(w)
  <2>1. CASE Crash("nullUser")
    BY <2>1, CrashTypes
  <2>2. CASE /\ Goto(w, "server_wait")
             /\ UNCHANGED <<tableVars, fileVars, lockVars, remoteVars, down, countVars>>
    <3>1. worker' \in [Worker -> WorkerState]
      BY <1>1, <2>2, GotoIs DEF Turns
    <3> QED
      BY <1>1, <2>2, <3>1, WorkerTypes DEF tableVars, fileVars, lockVars, remoteVars, countVars
  <2> QED
    BY <1>7, <2>1, <2>2 DEF Notify
<1>8. CASE LockServers(w)
  <2>1. worker' \in [Worker -> WorkerState]
    <3>1. worker[w].n \in Numbers
      BY <1>1, WorkerFields
    <3> QED
      BY <1>1, <1>8, <3>1, GotoSlotsIs DEF Turns, LockServers
  <2> QED
    BY <1>1, <1>8, <2>1, WorkerTypes DEF LockServers, tableVars, fileVars, remoteVars, countVars
<1>9. CASE VisitSlot(w)
  <2>1. worker' \in [Worker -> WorkerState]
    BY <1>1, <1>9, VisitSlotIs DEF Turns, Backup
  <2> QED
    BY <1>1, <1>9, <2>1, WorkerTypes DEF VisitSlot, tableVars, fileVars, lockVars, remoteVars, countVars
<1>10. CASE SendHalf(w)
  <2>1. worker[w].pc = "send"
    BY <1>10 DEF SendHalf
  <2>2. worker[w].slot \in Slot /\ worker[w].half \in {1, 2} /\ worker[w].op \in Op
    BY <2>1, ReplicationAssumption DEF Locks, Busy
  <2>3. worker' \in [Worker -> WorkerState]
    BY <1>1, <1>10, <2>2, SendHalfIs DEF Turns
  <2>4. /\ stream' \in [Server -> Stream] /\ down' \in {down, "sigpipe"}
    <3>1. worker[w].n \in Numbers /\ worker[w].to \in Server \cup {NoServer}
      BY <1>1, WorkerFields
    <3>2. [op |-> worker[w].op, n |-> worker[w].n, half |-> worker[w].half] \in Unit \cup {Ack}
      BY <2>2, <3>1 DEF Unit, Numbers
    <3>3. Write(worker[w].to, [op |-> worker[w].op, n |-> worker[w].n, half |-> worker[w].half])
      BY <1>10 DEF SendHalf
    <3> QED
      BY <3>1, <3>2, <3>3, WriteIs
  <2> QED
    BY <1>1, <1>10, <2>3, <2>4, WorkerTypes DEF SendHalf, tableVars, fileVars, lockVars, countVars
<1>11. CASE Finish(w)
  <2>1. worker' \in [Worker -> WorkerState]
    BY <1>1, <1>11, FinishIs DEF Turns
  <2>2. dirs' \subseteq UserName
    BY <1>1, <1>11 DEF Finish
  <2> QED
    BY <1>11, <2>1, <2>2 DEF Finish, TypeOK, tableVars, remoteVars, countVars
<1> QED
  BY <1>3, <1>4, <1>5, <1>6, <1>7, <1>8, <1>9, <1>10, <1>11 DEF WorkerStep

LEMMA EnterStepTypes ==
  ASSUME TypeOK, Slots, NEW n \in Server, Connect(n) \/ EnterStep(n)
  PROVE  TypeOK'
<1>1. /\ entering \in [Server -> EnteringState] /\ backupServers \in [Slot -> Backup]
      /\ secondary \in [Server -> SecondaryState] /\ stream \in [Server -> Stream]
      /\ down \in {"no", "killed", "sigpipe", "nullUser", "nullDevice"}
  BY DEF TypeOK, Backup
<1>2. entering[n].slot # 0 => entering[n].slot \in Slot
  BY <1>1 DEF EnteringState, Slot
<1>3. CASE Connect(n)
  <2>1. entering' \in [Server -> EnteringState]
    BY <1>1, <1>3, EnterIs DEF Connect, Enters
  <2>2. secondary' \in [Server -> SecondaryState]
    <3>1. secondary' = [secondary EXCEPT ![n].state = "joining"]
      BY <1>3 DEF Connect
    <3>2. [secondary[n] EXCEPT !.state = "joining"] \in SecondaryState
      BY <1>1 DEF SecondaryState
    <3> QED
      BY <1>1, <3>1, <3>2
  <2> QED
    BY <1>3, <2>1, <2>2 DEF Connect, TypeOK, tableVars, fileVars, lockVars, countVars
<1>4. CASE FindSlot(n)
  <2>1. entering' \in [Server -> EnteringState]
    BY <1>1, <1>4, FindSlotIs DEF Enters
  <2> QED
    BY <1>4, <2>1 DEF FindSlot, TypeOK, tableVars, fileVars, countVars
<1>5. CASE InsertId(n)
  <2>1. entering' \in [Server -> EnteringState]
    BY <1>1, <1>5, EnterIs DEF InsertId, Enters
  <2>2. backupServers' \in [Slot -> Backup]
    BY <1>1, <1>2, <1>5, InsertIdIs DEF InsertId
  <2> QED
    BY <1>5, <2>1, <2>2 DEF InsertId, TypeOK, Backup, tableVars, fileVars, lockVars, countVars
<1>6. CASE InsertSocket(n)
  <2>1. entering' \in [Server -> EnteringState]
    BY <1>1, <1>6, EnterIs DEF InsertSocket, Enters
  <2>2. entering[n].slot \in Slot
    BY <1>2, <1>6 DEF InsertSocket, Slots
  <2>3. backupServers' \in [Slot -> Backup]
    BY <1>1, <2>2, <1>6, InsertSocketIs
  <2> QED
    BY <1>6, <2>1, <2>3 DEF InsertSocket, TypeOK, Backup, tableVars, fileVars, countVars
<1>7. CASE InsertFails(n)
  <2>1. entering' \in [Server -> EnteringState]
    BY <1>1, <1>7, EnterIs DEF InsertFails, Enters
  <2> QED
    BY <1>7, <2>1 DEF InsertFails, TypeOK, tableVars, fileVars, countVars
<1>8. CASE Acknowledge(n)
  <2>1. entering' \in [Server -> EnteringState]
    BY <1>1, <1>8, EnterIs DEF Acknowledge, Enters
  <2>2. stream' \in [Server -> Stream] /\ down' \in {down, "sigpipe"}
    BY <1>8, WriteIs DEF Acknowledge
  <2> QED
    BY <1>1, <1>8, <2>1, <2>2 DEF Acknowledge, TypeOK, tableVars, fileVars, lockVars, countVars
<1> QED
  BY <1>3, <1>4, <1>5, <1>6, <1>7, <1>8 DEF EnterStep

LEMMA TypesKept ==
  ASSUME TypeOK, Locks, Counted, Slots, Tables, [Next]_vars
  PROVE  TypeOK'
<1>1. CASE UNCHANGED vars
  BY <1>1 DEF vars, TypeOK
<1>2. ASSUME NEW w \in Worker, NEW op \in Workload, Begin(w, op)
      PROVE  TypeOK'
  <2>1. worker' \in [Worker -> WorkerState] /\ ops' \in Numbers
    BY <1>2, BeginIs DEF TypeOK, Numbers, Turns
  <2>2. unsure' \subseteq File
    <3>1. op \in Op
      BY ReplicationAssumption
    <3>2. op.file \in File \cup {NoFile}
      BY <3>1 DEF Op
    <3>3. unsure' = unsure \cup ({op.file} \ {NoFile}) \/ unsure' = unsure \ {op.file}
      BY <1>2 DEF Begin
    <3> QED
      BY <3>2, <3>3 DEF TypeOK
  <2> QED
    BY <1>2, <2>1, <2>2 DEF Begin, TypeOK, Numbers, tableVars, lockVars, remoteVars
<1>3. ASSUME NEW n \in Server, SecondaryStep(n) \/ KillSecondary(n)
      PROVE  TypeOK'
  <2>1. SecondaryMoves(n)
    BY <1>3, SecondaryMovesIs
  <2>2. Elsewhere(n)
    BY <2>1 DEF SecondaryMoves, StopsAs, ReadsAck, ReadsWhole
  <2> QED
    BY <2>1, <2>2 DEF SecondaryMoves, Elsewhere, TypeOK
<1>4. CASE KillPrimary
  <2>1. kills' \in 0 .. MaxKills
    BY <1>4, ReplicationAssumption DEF KillPrimary, TypeOK
  <2> QED
    BY <1>4, <2>1 DEF KillPrimary, TypeOK, tableVars, fileVars, lockVars, remoteVars
<1> QED
  BY <1>1, <1>2, <1>3, <1>4, WorkerStepTypes, EnterStepTypes DEF Next, PrimaryStep

-----------------------------------------------------------------------------
(* The semaphores *)

\* Locks, for one session thread and for one registration.
Holds(w) ==
  LET o == worker[w].op IN
    /\ Busy(w) => o \in Workload
    /\ worker[w].pc = "user_wait" => o.kind \in UserKinds
    /\ worker[w].pc \in {"write", "notify_wait", "server_wait"} => o.kind \in FileKinds
    /\ Sending(w) => w = IF o.kind \in UserKinds THEN mutex_user ELSE mutex_server
    /\ Sending(w) => worker[w].slot \in 1 .. MaxServers + 1
    /\ worker[w].pc = "send" => worker[w].slot \in Slot /\ worker[w].half \in {1, 2}
    /\ worker[w].pc = "send" /\ o.kind \in FileKinds => worker[w].to # NoServer

Registers(n) == entering[n].pc \in {"insert", "socket"} => mutex_server = n

LEMMA LocksAre == Locks <=> (\A w \in Worker : Holds(w)) /\ (\A n \in Server : Registers(n))
BY DEF Locks, Holds, Registers

LEMMA LocksAreNext ==
  (\A w \in Worker : Holds(w)') /\ (\A n \in Server : Registers(n)') => Locks'
BY DEF Locks, Holds, Registers

\* Frames of users and frames of files.
LEMMA KindsAre ==
  ASSUME NEW o \in Workload
  PROVE  /\ o \in Op /\ (o.kind \in UserKinds <=> o.kind \notin FileKinds)
         /\ o.kind \in FileKinds <=> o.file # NoFile
         /\ o.kind \in FileKinds => o.file \in File
<1>1. o \in Op
  BY ReplicationAssumption
<1>2. o.kind \in {"LOGIN", "EXIT", "UPLOAD", "DELETE"} /\ o.file \in File \cup {NoFile}
  BY <1>1 DEF Op
<1> QED
  BY <1>1, <1>2, ReplicationAssumption DEF UserKinds, FileKinds

\* Threads that send frames of the same semaphore are one.
LEMMA OneSender ==
  ASSUME Locks, NEW v \in Worker, NEW w \in Worker, Sending(v), Sending(w),
         worker[v].op.kind \in UserKinds <=> worker[w].op.kind \in UserKinds
  PROVE  v = w
BY DEF Locks

\* A step of w alone.
LEMMA LocksOfOthers ==
  ASSUME Locks, NEW w \in Worker, Holds(w)', \A v \in Worker \ {w} : worker'[v] = worker[v],
         entering' = entering, mutex_user' \in {mutex_user} \/ mutex_user \in {Nobody, w},
         mutex_server' \in {mutex_server} \/ mutex_server \in {Nobody, w}
  PROVE  Locks'
<1>1. Nobody \notin Worker \cup Server /\ Worker \cap Server = {}
  BY ReplicationAssumption
<1>2. ASSUME NEW v \in Worker \ {w}
      PROVE  Holds(v)'
  <2>1. Holds(v)
    BY LocksAre
  <2>2. mutex_user = v => mutex_user' = v
    BY <1>1
  <2>3. mutex_server = v => mutex_server' = v
    BY <1>1
  <2>4. worker'[v] = worker[v]
    OBVIOUS
  <2>5. PICK r : r = worker[v]
    OBVIOUS
  <2>6. Sending(v) => v = IF r.op.kind \in UserKinds THEN mutex_user ELSE mutex_server
    BY <2>1, <2>5 DEF Holds
  <2>7. Sending(v) => v = IF r.op.kind \in UserKinds THEN mutex_user' ELSE mutex_server'
    BY <2>2, <2>3, <2>6
  <2> QED
    BY <2>1, <2>4, <2>5, <2>7 DEF Holds, Busy, Sending
<1>3. ASSUME NEW n \in Server
      PROVE  Registers(n)'
  <2>1. Registers(n)
    BY LocksAre
  <2>2. mutex_server = n => mutex_server' = n
    BY <1>1
  <2> QED
    BY <2>1, <2>2 DEF Registers
<1> QED
  BY <1>2, <1>3, LocksAreNext

\* A step that takes no semaphore and moves no thread.
LEMMA LocksUnchanged ==
  ASSUME Locks, UNCHANGED <<worker, entering, mutex_user, mutex_server>>
  PROVE  Locks'
BY DEF Locks, Busy, Sending

LEMMA WorkerStepLocks ==
  ASSUME TypeOK, Locks, Counted, Slots, Tables, NEW w \in Worker, WorkerStep(w)
  PROVE  Locks'
<1>1. worker \in [Worker -> WorkerState] /\ backupServers \in [Slot -> Backup]
  BY DEF TypeOK, Backup
<1>2. Holds(w)
  BY LocksAre
<1>3. CASE Crash("nullUser") \/ Crash("nullDevice")
  BY <1>3, LocksUnchanged DEF Crash, lockVars, remoteVars
<1>4. CASE ChangesTable(w)
  <2>1. 1 \in 1 .. MaxServers + 1
    BY ReplicationAssumption
  <2>2. Holds(w)'
    BY <1>2, <1>4, <2>1 DEF ChangesTable, Turns, Holds, Busy, Sending
  <2> QED
    BY <1>4, <2>2, LocksOfOthers DEF ChangesTable, Turns
<1>5. CASE Refuse(w)
  <2>1. Holds(w)'
    BY <1>1, <1>5, RefuseIs DEF Turns, Holds, Busy, Sending
  <2> QED
    BY <1>1, <1>5, <2>1, RefuseIs, LocksOfOthers DEF Turns, Refuse, UserLockFree, remoteVars
<1>6. CASE WriteFile(w)
  <2>1. worker[w].pc = "write" /\ Goto(w, "notify_wait")
    BY <1>6 DEF WriteFile
  <2>2. Holds(w)'
    BY <1>1, <1>2, <2>1, GotoIs DEF Turns, Holds, Busy, Sending
  <2> QED
    BY <1>1, <1>6, <2>1, <2>2, GotoIs, LocksOfOthers DEF Turns, WriteFile, lockVars, remoteVars
<1>7. CASE Notify(w) /\ ~ Crash("nullUser")
  <2>1. /\ worker[w].pc = "notify_wait" /\ Goto(w, "server_wait")
        /\ UNCHANGED <<mutex_user, mutex_server, entering>>
    BY <1>7 DEF Notify, lockVars, remoteVars
  <2>2. Holds(w)'
    BY <1>1, <1>2, <2>1, GotoIs DEF Turns, Holds, Busy, Sending
  <2> QED
    BY <1>1, <2>1, <2>2, GotoIs, LocksOfOthers DEF Turns
<1>8. CASE LockServers(w)
  <2>1. worker[w].n \in Numbers /\ 1 \in 1 .. MaxServers + 1
    BY <1>1, WorkerFields, ReplicationAssumption
  <2>2. /\ worker[w].pc = "server_wait" /\ mutex_server' = w
        /\ Turns(w, "slots", worker[w].op, worker[w].n, 1, worker[w].half, worker[w].to)
    BY <1>1, <1>8, <2>1, GotoSlotsIs DEF LockServers
  <2>3. worker[w].op \in Workload /\ worker[w].op.kind \in FileKinds
    BY <1>2, <2>2 DEF Holds, Busy
  <2>4. worker[w].op.kind \notin UserKinds
    BY <2>3, KindsAre
  <2>5. Holds(w)'
    BY <2>1, <2>2, <2>3, <2>4 DEF Turns, Holds, Busy, Sending
  <2> QED
    BY <1>8, <2>2, <2>5, LocksOfOthers DEF Turns, LockServers, ServerLockFree, remoteVars
<1>9. CASE VisitSlot(w)
  <2> DEFINE r == worker[w]
             b == backupServers[r.slot]
  <2>1. /\ r.pc = "slots" /\ r.slot \in Slot
        /\ IF b.id = NoServer
             THEN Turns(w, "slots", r.op, r.n, r.slot + 1, r.half, r.to)
             ELSE Turns(w, "send", r.op, r.n, r.slot, 1, b.socket)
    BY <1>1, <1>9, VisitSlotIs DEF Backup
  <2>2. r.slot + 1 \in 1 .. MaxServers + 1
    BY <2>1, ReplicationAssumption DEF Slot
  <2>3. /\ r.op \in Workload /\ r.slot \in 1 .. MaxServers + 1
        /\ w = IF r.op.kind \in UserKinds THEN mutex_user ELSE mutex_server
    BY <1>2, <2>1 DEF Holds, Busy, Sending
  <2>4. b.id # NoServer /\ r.op.kind \in FileKinds => b.socket # NoServer
    <3>1. SUFFICES ASSUME b.id # NoServer, r.op.kind \in FileKinds, b.socket = NoServer
                   PROVE  FALSE
      OBVIOUS
    <3>2. mutex_server = w
      BY <2>3, <3>1, KindsAre
    <3>3. b.id \in Server
      BY <1>1, <2>1, <3>1 DEF Backup
    <3>4. entering[b.id].slot = r.slot /\ entering[b.id].pc \in {"socket", "ack", "done"}
      BY <2>1, <3>1 DEF Slots
    <3>5. r.slot # 0
      BY <2>1 DEF Slot
    <3>6. entering[b.id].pc # "socket"
      BY <3>2, <3>3, ReplicationAssumption DEF Locks
    <3>7. backupServers[r.slot] = [id |-> b.id, socket |-> b.id]
      BY <3>3, <3>4, <3>5, <3>6 DEF Slots, UnlistedOnlyWhenFull
    <3>8. b.socket = b.id
      BY <3>7
    <3> QED
      BY <3>1, <3>8
  <2>5. Holds(w)'
    <3>1. CASE b.id = NoServer
      BY <1>9, <2>1, <2>2, <2>3, <3>1 DEF VisitSlot, lockVars, Turns, Holds, Busy, Sending
    <3>2. CASE b.id # NoServer
      <4>1. PICK to : to = b.socket
        OBVIOUS
      <4>2. Turns(w, "send", r.op, r.n, r.slot, 1, to)
        BY <2>1, <3>2, <4>1
      <4>3. r.op.kind \in FileKinds => to # NoServer
        BY <2>4, <3>2, <4>1
      <4>4. mutex_user' = mutex_user /\ mutex_server' = mutex_server
        BY <1>9 DEF VisitSlot, lockVars
      <4> QED
        BY <2>1, <2>3, <4>2, <4>3, <4>4 DEF Turns, Holds, Busy, Sending
    <3> QED
      BY <3>1, <3>2
  <2> QED
    BY <1>9, <2>1, <2>5, LocksOfOthers DEF Turns, VisitSlot, lockVars, remoteVars
<1>10. CASE SendHalf(w)
  <2> DEFINE r == worker[w]
  <2>1. /\ r.pc = "send" /\ r.slot \in Slot /\ r.half \in {1, 2} /\ r.op \in Workload
        /\ w = IF r.op.kind \in UserKinds THEN mutex_user ELSE mutex_server
        /\ r.op.kind \in FileKinds => r.to # NoServer
    BY <1>2, <1>10 DEF SendHalf, Holds, Busy, Sending
  <2>2. IF r.half = 1 THEN Turns(w, "send", r.op, r.n, r.slot, 2, r.to)
                      ELSE Turns(w, "slots", r.op, r.n, r.slot + 1, 0, NoServer)
    BY <1>1, <1>10, <2>1, SendHalfIs
  <2>3. r.slot + 1 \in 1 .. MaxServers + 1 /\ r.slot \in 1 .. MaxServers + 1
    BY <2>1, ReplicationAssumption DEF Slot
  <2>4. UNCHANGED <<mutex_user, mutex_server, entering>>
    BY <1>10 DEF SendHalf, lockVars
  <2>5. Holds(w)'
    BY <2>1, <2>2, <2>3, <2>4 DEF Turns, Holds, Busy, Sending
  <2> QED
    BY <2>2, <2>4, <2>5, LocksOfOthers DEF Turns
<1>11. CASE Finish(w)
  <2>1. Holds(w)'
    BY <1>1, <1>11, FinishIs DEF Turns, Holds, Busy, Sending
  <2> QED
    BY <1>1, <1>11, <2>1, FinishIs, LocksOfOthers DEF Turns, Finish, remoteVars
<1> QED
  BY <1>3, <1>4, <1>5, <1>6, <1>7, <1>8, <1>9, <1>10, <1>11, LoginChanges, ExitChanges
     DEF WorkerStep

LEMMA EnterStepLocks ==
  ASSUME TypeOK, Locks, Slots, NEW n \in Server, Connect(n) \/ EnterStep(n)
  PROVE  Locks'
<1>1. /\ entering \in [Server -> EnteringState] /\ Nobody \notin Worker \cup Server
      /\ Worker \cap Server = {}
  BY ReplicationAssumption DEF TypeOK
<1>2. worker' = worker /\ mutex_user' = mutex_user
  BY DEF Connect, EnterStep, FindSlot, InsertId, InsertSocket, InsertFails, Acknowledge, lockVars
<1>3. Registers(n)
  BY LocksAre
<1>4. \/ mutex_server' = mutex_server
      \/ mutex_server = Nobody
      \/ mutex_server = n
  BY <1>3 DEF Connect, EnterStep, FindSlot, InsertId, InsertSocket, InsertFails, Acknowledge,
              lockVars, ServerLockFree, Registers
<1>5. \E pc \in {"none", "server_wait", "insert", "socket", "ack", "done"}, s \in 0 .. MaxServers :
         Enters(n, pc, s) /\ (pc \in {"insert", "socket"} => mutex_server' = n)
  <2>1. entering[n].slot \in 0 .. MaxServers
    BY <1>1 DEF EnteringState
  <2>2. CASE Connect(n)
    BY <1>1, <2>1, <2>2, EnterIs DEF Connect
  <2>3. CASE FindSlot(n)
    BY <1>1, <2>3, FindSlotIs DEF FindSlot
  <2>4. CASE InsertId(n)
    BY <1>1, <1>3, <2>1, <2>4, EnterIs DEF InsertId, Registers, lockVars
  <2>5. CASE InsertSocket(n)
    BY <1>1, <2>1, <2>5, EnterIs DEF InsertSocket
  <2>6. CASE InsertFails(n)
    BY <1>1, <2>1, <2>6, EnterIs DEF InsertFails
  <2>7. CASE Acknowledge(n)
    BY <1>1, <2>1, <2>7, EnterIs DEF Acknowledge
  <2> QED
    BY <2>2, <2>3, <2>4, <2>5, <2>6, <2>7 DEF EnterStep
<1>6. ASSUME NEW w \in Worker
      PROVE  Holds(w)'
  <2>1. Holds(w) /\ w # n
    BY <1>1, LocksAre
  <2>2. PICK r : r = worker[w]
    OBVIOUS
  <2>3. mutex_server = w => mutex_server' = w
    BY <1>1, <1>4, <2>1
  <2>4. Sending(w) => w = IF r.op.kind \in UserKinds THEN mutex_user ELSE mutex_server
    BY <2>1, <2>2 DEF Holds
  <2>5. Sending(w) => w = IF r.op.kind \in UserKinds THEN mutex_user' ELSE mutex_server'
    BY <1>2, <2>3, <2>4
  <2> QED
    BY <1>2, <2>1, <2>2, <2>5 DEF Holds, Busy, Sending
<1>7. ASSUME NEW m \in Server
      PROVE  Registers(m)'
  <2>1. CASE m = n
    BY <1>5, <2>1 DEF Enters, Registers
  <2>2. CASE m # n
    <3>1. Registers(m) /\ entering'[m] = entering[m]
      BY <1>5, <2>2, LocksAre DEF Enters
    <3>2. mutex_server = m => mutex_server' = m
      BY <1>1, <1>4, <2>2
    <3> QED
      BY <3>1, <3>2 DEF Registers
  <2> QED
    BY <2>1, <2>2
<1> QED
  BY <1>6, <1>7, LocksAreNext

LEMMA LocksKept ==
  ASSUME TypeOK, Locks, Counted, Slots, Tables, [Next]_vars
  PROVE  Locks'
<1>1. CASE UNCHANGED vars
  BY <1>1, LocksUnchanged DEF vars
<1>2. ASSUME NEW w \in Worker, NEW op \in Workload, Begin(w, op)
      PROVE  Locks'
  <2>1. Turns(w, IF op.file = NoFile THEN "user_wait" ELSE "write", op,
              IF op.kind = "UPLOAD" THEN ops + 1 ELSE 0, 0, 0, NoServer)
    BY <1>2, BeginIs DEF TypeOK, Numbers
  <2>2. PICK pc \in {"user_wait", "write"} : pc = IF op.file = NoFile THEN "user_wait" ELSE "write"
    OBVIOUS
  <2>3. worker'[w].pc = pc /\ worker'[w].op = op
    BY <2>1, <2>2 DEF Turns
  <2>4. Holds(w)'
    BY <2>2, <2>3, KindsAre DEF Holds, Busy, Sending
  <2> QED
    BY <1>2, <2>1, <2>4, LocksOfOthers DEF Turns, Begin, lockVars, remoteVars
<1>3. ASSUME NEW n \in Server, SecondaryStep(n) \/ KillSecondary(n)
      PROVE  Locks'
  <2>1. SecondaryMoves(n)
    BY <1>3, SecondaryMovesIs
  <2>2. Elsewhere(n)
    BY <2>1 DEF SecondaryMoves, StopsAs, ReadsAck, ReadsWhole
  <2> QED
    BY <2>2, LocksUnchanged DEF Elsewhere
<1>4. CASE KillPrimary
  BY <1>4, LocksUnchanged DEF KillPrimary, lockVars, remoteVars
<1> QED
  BY <1>1, <1>2, <1>3, <1>4, WorkerStepLocks, EnterStepLocks DEF Next, PrimaryStep

-----------------------------------------------------------------------------
(* The changes are among the operations. *)

LEMMA WaitingLess ==
  ASSUME TypeOK, Counted, UNCHANGED <<past, ops>>,
         NEW w \in Worker, \A v \in Worker \ {w} : worker'[v] = worker[v],
         worker'[w].pc # "user_wait"
  PROVE  Counted'
<1> DEFINE S == {v \in Worker : worker[v].pc = "user_wait"}
           T == {v \in Worker : worker'[v].pc = "user_wait"}
<1>1. IsFiniteSet(S) /\ T \subseteq S
  BY FS_Subset, ReplicationAssumption
<1>2. Cardinality(T) <= Cardinality(S) /\ Cardinality(T) \in Nat /\ Cardinality(S) \in Nat
  BY <1>1, FS_Subset, FS_CardinalityType
<1>3. Len(past) + Cardinality(S) <= ops + 1
  BY DEF Counted
<1>4. Len(past) \in Nat /\ ops \in Nat
  <2>1. past \in Seq(SUBSET (UserName \X DeviceId)) /\ ops \in 0 .. MaxOps
    BY DEF TypeOK
  <2> QED
    BY <2>1, SeqFacts, ReplicationAssumption
<1>5. past' = past /\ ops' = ops
  OBVIOUS
<1> HIDE DEF S, T
<1>6. Len(past') + Cardinality(T) <= ops' + 1
  BY <1>2, <1>3, <1>4, <1>5
<1> QED
  BY <1>6 DEF Counted, T

LEMMA CountedUnchanged ==
  ASSUME Counted, UNCHANGED <<past, ops, worker>>
  PROVE  Counted'
BY DEF Counted

LEMMA CountedKept ==
  ASSUME TypeOK, Locks, Counted, Slots, Tables, [Next]_vars
  PROVE  Counted'
<1>1. worker \in [Worker -> WorkerState] /\ backupServers \in [Slot -> Backup]
      /\ past \in Seq(SUBSET (UserName \X DeviceId)) /\ ops \in 0 .. MaxOps
  BY DEF TypeOK, Backup
<1>2. Len(past) \in Nat /\ ops \in Nat
  BY <1>1, SeqFacts, ReplicationAssumption
<1> DEFINE S == {v \in Worker : worker[v].pc = "user_wait"}
           T == {v \in Worker : worker'[v].pc = "user_wait"}
<1>3. IsFiniteSet(S) /\ Cardinality(S) \in Nat
  BY FS_Subset, FS_CardinalityType, ReplicationAssumption
<1>4. Len(past) + Cardinality(S) <= ops + 1
  BY DEF Counted
<1>5. ASSUME NEW w \in Worker, NEW op \in Workload, Begin(w, op)
      PROVE  Counted'
  <2>1. ops' = ops + 1 /\ past' = past
    BY <1>5 DEF Begin, tableVars
  <2>2. \A v \in Worker \ {w} : worker'[v] = worker[v]
    BY <1>1, <1>5, BeginIs DEF Turns, Numbers
  <2>3. IsFiniteSet(S \cup {w}) /\ T \subseteq S \cup {w}
    BY <1>3, <2>2, FS_AddElement
  <2>4. Cardinality(S \cup {w}) <= Cardinality(S) + 1 /\ Cardinality(S \cup {w}) \in Nat
    <3> HIDE DEF S
    <3>1. Cardinality(S \cup {w}) = Cardinality(S) \/ Cardinality(S \cup {w}) = Cardinality(S) + 1
      BY <1>3, FS_AddElement
    <3> QED
      BY <1>3, <3>1
  <2>5. Cardinality(T) <= Cardinality(S \cup {w}) /\ Cardinality(T) \in Nat
    BY <2>3, FS_Subset, FS_CardinalityType
  <2> HIDE DEF S, T
  <2>6. Len(past') + Cardinality(T) <= ops' + 1
    BY <1>2, <1>3, <1>4, <2>1, <2>4, <2>5
  <2> QED
    BY <2>6 DEF Counted, T
<1>6. ASSUME NEW w \in Worker, ChangesTable(w)
      PROVE  Counted'
  <2>1. ops' = ops /\ worker[w].pc = "user_wait" /\ worker'[w].pc = "slots"
        /\ \A v \in Worker \ {w} : worker'[v] = worker[v]
    BY <1>6 DEF ChangesTable, Turns
  <2>2. T = S \ {w} /\ w \in S
    BY <2>1
  <2>3. Cardinality(T) = Cardinality(S) - 1
    BY <1>3, <2>2, FS_RemoveElement
  <2>4. Len(past') = Len(past) + 1
    <3>1. PICK view \in SUBSET (UserName \X DeviceId) : past' = Append(past, view)
      <4>1. PICK us : us = users'
        OBVIOUS
      <4>2. us \in Table /\ WellFormed(us) /\ past' = Append(past, View(users')) /\ View(users') = View(us)
        BY <1>6, <4>1 DEF ChangesTable, View
      <4> QED
        BY <4>2, ViewType
    <3> QED
      BY <1>1, <3>1, AppendIs
  <2> HIDE DEF S, T
  <2>5. Len(past') + Cardinality(T) <= ops' + 1
    BY <1>2, <1>3, <1>4, <2>1, <2>3, <2>4
  <2> QED
    BY <2>5 DEF Counted, T
<1>7. ASSUME NEW w \in Worker, WorkerStep(w)
      PROVE  Counted'
  <2>1. CASE Login(w) \/ Exit(w)
    BY <1>6, <2>1, LoginChanges, ExitChanges, CountedUnchanged DEF Crash, tableVars, countVars
  <2>2. CASE Refuse(w)
    BY <1>1, <2>2, RefuseIs, WaitingLess DEF Turns, Refuse, tableVars, countVars
  <2>3. CASE WriteFile(w)
    BY <1>1, <2>3, GotoIs, WaitingLess DEF Turns, WriteFile, tableVars, countVars
  <2>4. CASE Notify(w)
    BY <1>1, <2>4, GotoIs, WaitingLess, CountedUnchanged DEF Turns, Notify, Crash, tableVars, countVars
  <2>5. CASE LockServers(w)
    <3>1. worker[w].n \in Numbers
      BY <1>1, WorkerFields
    <3> QED
      BY <1>1, <2>5, <3>1, GotoSlotsIs, WaitingLess DEF Turns, LockServers, tableVars, countVars
  <2>6. CASE VisitSlot(w)
    <3>1. worker'[w].pc # "user_wait" /\ \A v \in Worker \ {w} : worker'[v] = worker[v]
      BY <1>1, <2>6, VisitSlotIs DEF Turns, Backup
    <3> QED
      BY <2>6, <3>1, WaitingLess DEF VisitSlot, tableVars, countVars
  <2>7. CASE SendHalf(w)
    <3>1. worker[w].slot \in Slot
      BY <2>7 DEF SendHalf, Locks
    <3>2. worker'[w].pc # "user_wait" /\ \A v \in Worker \ {w} : worker'[v] = worker[v]
      BY <1>1, <2>7, <3>1, SendHalfIs DEF Turns
    <3> QED
      BY <2>7, <3>2, WaitingLess DEF SendHalf, tableVars, countVars
  <2>8. CASE Finish(w)
    BY <1>1, <2>8, FinishIs, WaitingLess DEF Turns, Finish, tableVars, countVars
  <2> QED
    BY <1>7, <2>1, <2>2, <2>3, <2>4, <2>5, <2>6, <2>7, <2>8 DEF WorkerStep
<1>8. ASSUME NEW n \in Server, Connect(n) \/ EnterStep(n)
      PROVE  Counted'
  BY <1>8, CountedUnchanged DEF Connect, EnterStep, FindSlot, InsertId, InsertSocket, InsertFails,
        Acknowledge, tableVars, countVars
<1>9. ASSUME NEW n \in Server, SecondaryStep(n) \/ KillSecondary(n)
      PROVE  Counted'
  <2>1. SecondaryMoves(n)
    BY <1>9, SecondaryMovesIs
  <2> QED
    BY <2>1, CountedUnchanged DEF SecondaryMoves, StopsAs, ReadsAck, ReadsWhole, Elsewhere
<1>10. CASE UNCHANGED vars \/ KillPrimary
  BY <1>10, CountedUnchanged DEF vars, KillPrimary, tableVars
<1> QED
  BY <1>5, <1>7, <1>8, <1>9, <1>10 DEF Next, PrimaryStep

-----------------------------------------------------------------------------
(* The slots of backupServers *)

\* Slots, for one registration, one slot and one session thread.
Placed(n) ==
  LET slot == entering[n].slot IN
    /\ entering[n].pc = "none" <=> secondary[n].state = "off"
    /\ entering[n].pc \in {"none", "server_wait"} => slot = 0
    /\ entering[n].pc = "insert" =>
         IF slot # 0 THEN backupServers[slot] = [id |-> NoServer, socket |-> NoServer]
                     ELSE \A s \in Slot : backupServers[s].id # NoServer
    /\ entering[n].pc = "socket" => slot # 0 /\ backupServers[slot] = [id |-> n, socket |-> NoServer]
    /\ entering[n].pc \in {"ack", "done"} =>
         IF slot # 0 THEN backupServers[slot] = [id |-> n, socket |-> n]
                     ELSE \A s \in Slot : backupServers[s].id # NoServer

Belongs(s) ==
  LET b == backupServers[s] IN
    /\ b.id # NoServer => entering[b.id].slot = s /\ entering[b.id].pc \in {"socket", "ack", "done"}
    /\ b.socket # NoServer => b.id = b.socket /\ entering[b.id].pc \in {"ack", "done"}

Aimed(w) ==
  worker[w].pc = "send" =>
    worker[w].to = NoServer \/ backupServers[worker[w].slot].socket = worker[w].to

LEMMA SlotsAre ==
  Slots <=> /\ \A n \in Server : Placed(n)
            /\ \A s \in Slot : Belongs(s)
            /\ \A w \in Worker : Aimed(w)
BY DEF Slots, UnlistedOnlyWhenFull, Placed, Belongs, Aimed

LEMMA SlotsAreNext ==
  /\ \A n \in Server : Placed(n)'
  /\ \A s \in Slot : Belongs(s)'
  /\ \A w \in Worker : Aimed(w)'
  => Slots'
BY DEF Slots, UnlistedOnlyWhenFull, Placed, Belongs, Aimed

\* Nothing is registered, and one session thread moves at most.
LEMMA SlotsOfWorkers ==
  ASSUME Slots, NEW w \in Worker, \A v \in Worker \ {w} : worker'[v] = worker[v], Aimed(w)',
         UNCHANGED <<entering, backupServers, secondary>>
  PROVE  Slots'
<1>1. ASSUME NEW v \in Worker
      PROVE  Aimed(v)'
  <2>1. CASE v # w
    <3>1. Aimed(v) /\ worker'[v] = worker[v]
      BY <2>1, SlotsAre
    <3> QED
      BY <3>1 DEF Aimed
  <2> QED
    BY <2>1
<1>2. ASSUME NEW n \in Server
      PROVE  Placed(n)'
  <2>1. Placed(n)
    BY SlotsAre
  <2> QED
    BY <2>1 DEF Placed
<1>3. ASSUME NEW s \in Slot
      PROVE  Belongs(s)'
  <2>1. Belongs(s)
    BY SlotsAre
  <2> QED
    BY <2>1 DEF Belongs
<1> QED
  BY <1>1, <1>2, <1>3, SlotsAreNext

LEMMA SlotsUnchanged ==
  ASSUME Slots, UNCHANGED <<worker, entering, backupServers>>,
         \A n \in Server : secondary'[n].state = "off" <=> secondary[n].state = "off"
  PROVE  Slots'
BY DEF Slots, UnlistedOnlyWhenFull

\* Where a registered server is, and where it cannot be.
LEMMA SlotFacts ==
  ASSUME TypeOK, Locks, Slots, NEW n \in Server
  PROVE  /\ entering[n].slot \in 0 .. MaxServers
         /\ entering[n].slot # 0 => entering[n].slot \in Slot
         /\ entering[n].slot \notin Slot => entering[n].slot = 0
         /\ Listed(n) => /\ entering[n].slot # 0 /\ entering[n].pc \in {"ack", "done"}
                         /\ backupServers[entering[n].slot].socket = n
         /\ entering[n].pc \in {"ack", "done"} /\ entering[n].slot # 0 => Listed(n)
<1>1. entering[n].slot \in 0 .. MaxServers /\ 0 \notin Slot
  BY DEF TypeOK, EnteringState, Slot
<1>2. entering[n].slot # 0 => entering[n].slot \in Slot
  BY <1>1 DEF Slot
<1>3. NoServer \notin Server
  BY ReplicationAssumption
<1>4. ASSUME NEW s \in Slot, backupServers[s].socket = n
      PROVE  entering[n].slot = s /\ entering[n].pc \in {"ack", "done"}
  BY <1>3, <1>4 DEF Slots
<1>5. Listed(n) => /\ entering[n].slot # 0 /\ entering[n].pc \in {"ack", "done"}
                   /\ backupServers[entering[n].slot].socket = n
  BY <1>1, <1>4 DEF Listed
<1>6. entering[n].pc \in {"ack", "done"} /\ entering[n].slot # 0 => Listed(n)
  <2>1. SUFFICES ASSUME entering[n].pc \in {"ack", "done"}, entering[n].slot # 0
                 PROVE  Listed(n)
    OBVIOUS
  <2>2. backupServers[entering[n].slot] = [id |-> n, socket |-> n]
    BY <2>1 DEF Slots, UnlistedOnlyWhenFull
  <2>3. backupServers[entering[n].slot].socket = n
    BY <2>2
  <2> QED
    BY <1>2, <2>1, <2>3 DEF Listed
<1> QED
  BY <1>1, <1>2, <1>5, <1>6

\* A registration goes on, and the array stays as it is.
LEMMA SlotsOfEntering ==
  ASSUME TypeOK, Slots, NEW n \in Server, Placed(n)',
         \A m \in Server \ {n} : entering'[m] = entering[m] /\ secondary'[m].state = secondary[m].state,
         entering[n].pc \in {"socket", "ack", "done"} =>
           entering'[n].slot = entering[n].slot /\ entering'[n].pc \in {"ack", "done"},
         UNCHANGED <<worker, backupServers>>
  PROVE  Slots'
<1>1. ASSUME NEW m \in Server
      PROVE  Placed(m)'
  <2>1. CASE m # n
    <3>1. Placed(m) /\ entering'[m] = entering[m] /\ secondary'[m].state = secondary[m].state
      BY <2>1, SlotsAre
    <3> QED
      BY <3>1 DEF Placed
  <2> QED
    BY <2>1
<1>2. ASSUME NEW s \in Slot
      PROVE  Belongs(s)'
  <2>1. PICK b \in Backup : b = backupServers[s]
    BY DEF TypeOK, Backup
  <2>2. /\ b.id # NoServer => entering[b.id].slot = s /\ entering[b.id].pc \in {"socket", "ack", "done"}
        /\ b.socket # NoServer => b.id = b.socket /\ entering[b.id].pc \in {"ack", "done"}
    BY <2>1, SlotsAre DEF Belongs
  <2>3. b.id # NoServer => b.id \in Server
    BY DEF Backup
  <2>4. b.socket # NoServer => b.id # NoServer
    BY <2>2
  <2>5. backupServers'[s] = b
    BY <2>1
  <2>6. CASE b.id = n
    BY <2>2, <2>4, <2>5, <2>6 DEF Belongs
  <2>7. CASE b.id # n
    <3>1. b.id # NoServer => entering'[b.id] = entering[b.id]
      BY <2>3, <2>7
    <3> QED
      BY <2>2, <2>4, <2>5, <3>1 DEF Belongs
  <2> QED
    BY <2>6, <2>7
<1>3. ASSUME NEW w \in Worker
      PROVE  Aimed(w)'
  <2>1. Aimed(w)
    BY SlotsAre
  <2> QED
    BY <2>1 DEF Aimed
<1> QED
  BY <1>1, <1>2, <1>3, SlotsAreNext

LEMMA EnterStepSlots ==
  ASSUME TypeOK, Locks, Slots, NEW n \in Server, Connect(n) \/ EnterStep(n)
  PROVE  Slots'
<1>1. /\ entering \in [Server -> EnteringState] /\ backupServers \in [Slot -> Backup]
      /\ secondary \in [Server -> SecondaryState] /\ NoServer \notin Server
  BY ReplicationAssumption DEF TypeOK, Backup
<1>2. Placed(n) /\ entering[n].slot \in 0 .. MaxServers /\ 0 \notin Slot
      /\ (entering[n].slot # 0 => entering[n].slot \in Slot)
  BY SlotsAre, SlotFacts DEF Slot
<1>3. CASE Connect(n)
  <2>1. /\ secondary[n].state = "off" /\ worker' = worker /\ backupServers' = backupServers
        /\ secondary' = [secondary EXCEPT ![n].state = "joining"]
        /\ Enters(n, "server_wait", entering[n].slot)
    BY <1>1, <1>3, EnterIs DEF Connect
  <2>2. secondary'[n].state = "joining" /\ \A m \in Server \ {n} : secondary'[m] = secondary[m]
    BY <1>1, <2>1 DEF SecondaryState
  <2>3. entering[n].pc = "none" /\ entering[n].slot = 0
    BY <1>2, <2>1 DEF Placed
  <2>4. Placed(n)'
    BY <2>1, <2>2, <2>3 DEF Placed, Enters
  <2> QED
    BY <2>1, <2>2, <2>3, <2>4, SlotsOfEntering DEF Enters
<1>4. CASE FindSlot(n)
  <2>1. PICK s \in 0 .. MaxServers : FreeSlot(s) /\ Enters(n, "insert", s)
    BY <1>1, <1>4, FindSlotIs
  <2>2. entering[n].pc = "server_wait" /\ UNCHANGED <<worker, backupServers, secondary>>
    BY <1>4 DEF FindSlot
  <2>3. s # 0 => backupServers[s] = [id |-> NoServer, socket |-> NoServer]
    <3>1. SUFFICES ASSUME s # 0
                   PROVE  backupServers[s] = [id |-> NoServer, socket |-> NoServer]
      OBVIOUS
    <3>2. s \in Slot /\ backupServers[s].id = NoServer
      BY <2>1, <3>1 DEF FreeSlot
    <3>3. backupServers[s].socket = NoServer
      BY <1>1, <3>2 DEF Slots, Backup
    <3>4. backupServers[s] \in Backup
      BY <1>1, <3>2
    <3> QED
      BY <3>2, <3>3, <3>4 DEF Backup
  <2>4. s = 0 => \A t \in Slot : backupServers[t].id # NoServer
    BY <2>1 DEF FreeSlot
  <2>5. Placed(n)'
    BY <1>2, <2>1, <2>2, <2>3, <2>4 DEF Placed, Enters
  <2> QED
    BY <2>1, <2>2, <2>5, SlotsOfEntering DEF Enters
<1>5. CASE InsertFails(n)
  <2>1. /\ entering[n].pc = "insert" /\ entering[n].slot = 0
        /\ UNCHANGED <<worker, backupServers, secondary>> /\ Enters(n, "ack", entering[n].slot)
    BY <1>1, <1>5, EnterIs DEF InsertFails
  <2>2. Placed(n)'
    BY <1>2, <2>1 DEF Placed, Enters
  <2> QED
    BY <2>1, <2>2, SlotsOfEntering DEF Enters
<1>6. CASE Acknowledge(n)
  <2>1. /\ entering[n].pc = "ack" /\ UNCHANGED <<worker, backupServers, secondary>>
        /\ Enters(n, "done", entering[n].slot)
    BY <1>1, <1>6, EnterIs DEF Acknowledge
  <2>2. Placed(n)'
    BY <1>2, <2>1 DEF Placed, Enters
  <2> QED
    BY <2>1, <2>2, SlotsOfEntering DEF Enters
<1> DEFINE s == entering[n].slot
<1>7. ASSUME NEW m \in Server \ {n}, mutex_server = n
      PROVE  entering[m].pc \notin {"insert", "socket"}
  BY <1>7, LocksAre DEF Registers
<1>8. CASE InsertId(n)
  <2>1. /\ entering[n].pc = "insert" /\ s \in Slot /\ mutex_server = n
        /\ UNCHANGED <<worker, secondary>> /\ Enters(n, "socket", s)
    BY <1>1, <1>2, <1>8, EnterIs, LocksAre DEF InsertId, Registers
  <2>2. backupServers[s] = [id |-> NoServer, socket |-> NoServer] /\ s # 0
    BY <1>2, <2>1 DEF Placed
  <2>3. /\ backupServers' \in [Slot -> Backup]
        /\ backupServers'[s].id = n /\ backupServers'[s].socket = NoServer
        /\ \A t \in Slot \ {s} : backupServers'[t] = backupServers[t]
    BY <1>1, <1>8, <2>1, <2>2, InsertIdIs
  <2>4. backupServers'[s] = [id |-> n, socket |-> NoServer]
    BY <2>1, <2>3 DEF Backup
  <2>5. ASSUME NEW m \in Server
        PROVE  Placed(m)'
    <3>1. CASE m = n
      BY <1>2, <2>1, <2>2, <2>4, <3>1 DEF Placed, Enters
    <3>2. CASE m # n
      <4>1. Placed(m) /\ entering'[m] = entering[m] /\ entering[m].pc \notin {"insert", "socket"}
        BY <1>7, <2>1, <3>2, SlotsAre DEF Enters
      <4>2. entering[m].slot # 0 => entering[m].slot \in Slot
        BY SlotFacts
      <4>3. entering[m].pc \in {"ack", "done"} =>
              entering[m].slot # 0 /\ entering[m].slot # s
              /\ backupServers[entering[m].slot] = [id |-> m, socket |-> m]
        BY <1>1, <2>1, <2>2, <4>1 DEF Placed
      <4> QED
        BY <2>1, <2>3, <4>1, <4>2, <4>3 DEF Placed
    <3> QED
      BY <3>1, <3>2
  <2>6. ASSUME NEW t \in Slot
        PROVE  Belongs(t)'
    <3>1. CASE t = s
      <4>1. backupServers'[t].id = n /\ backupServers'[t].socket = NoServer
        BY <2>3, <3>1
      <4>2. entering'[n].slot = t /\ entering'[n].pc = "socket"
        BY <2>1, <3>1 DEF Enters
      <4> QED
        BY <4>1, <4>2 DEF Belongs
    <3>2. CASE t # s
      <4>1. PICK b \in Backup : b = backupServers[t]
        BY <1>1
      <4>2. backupServers'[t] = b
        BY <2>3, <3>2, <4>1
      <4>3. /\ b.id # NoServer => entering[b.id].slot = t /\ entering[b.id].pc \in {"socket", "ack", "done"}
            /\ b.socket # NoServer => b.id = b.socket /\ entering[b.id].pc \in {"ack", "done"}
        BY <4>1, SlotsAre DEF Belongs
      <4>4. b.id # NoServer => b.id \in Server /\ b.id # n
        BY <2>1, <4>3 DEF Backup
      <4>5. b.id # NoServer => entering'[b.id] = entering[b.id]
        BY <2>1, <4>4 DEF Enters
      <4>6. b.socket # NoServer => b.id # NoServer
        BY <4>3
      <4> QED
        BY <4>2, <4>3, <4>5, <4>6 DEF Belongs
    <3> QED
      BY <3>1, <3>2
  <2>7. ASSUME NEW w \in Worker
        PROVE  Aimed(w)'
    <3>1. Aimed(w) /\ worker'[w] = worker[w]
      BY <2>1, SlotsAre
    <3>2. worker[w].pc = "send" => worker[w].slot \in Slot
      BY LocksAre DEF Holds
    <3>3. \A t \in Slot : backupServers'[t].socket = backupServers[t].socket
      BY <2>2, <2>3
    <3> QED
      BY <3>1, <3>2, <3>3 DEF Aimed
  <2> QED
    BY <2>5, <2>6, <2>7, SlotsAreNext
<1>9. CASE InsertSocket(n)
  <2>1. /\ entering[n].pc = "socket" /\ mutex_server = n
        /\ UNCHANGED <<worker, secondary>> /\ Enters(n, "ack", s)
    BY <1>1, <1>9, EnterIs, LocksAre DEF InsertSocket, Registers
  <2>2. backupServers[s] = [id |-> n, socket |-> NoServer] /\ s # 0 /\ s \in Slot
    BY <1>2, <2>1 DEF Placed
  <2>3. /\ backupServers' \in [Slot -> Backup]
        /\ backupServers'[s].id = n /\ backupServers'[s].socket = n
        /\ \A t \in Slot \ {s} : backupServers'[t] = backupServers[t]
    BY <1>1, <1>9, <2>2, InsertSocketIs
  <2>4. backupServers'[s] = [id |-> n, socket |-> n]
    BY <2>2, <2>3 DEF Backup
  <2>5. ASSUME NEW m \in Server
        PROVE  Placed(m)'
    <3>1. CASE m = n
      BY <1>2, <2>1, <2>2, <2>4, <3>1 DEF Placed, Enters
    <3>2. CASE m # n
      <4>1. Placed(m) /\ entering'[m] = entering[m] /\ entering[m].pc \notin {"insert", "socket"}
        BY <1>7, <2>1, <3>2, SlotsAre DEF Enters
      <4>2. entering[m].slot # 0 => entering[m].slot \in Slot
        BY SlotFacts
      <4>3. entering[m].pc \in {"ack", "done"} /\ entering[m].slot # 0 =>
              entering[m].slot # s /\ backupServers[entering[m].slot] = [id |-> m, socket |-> m]
        <5>1. entering[m].pc \in {"ack", "done"} /\ entering[m].slot # 0 =>
                backupServers[entering[m].slot] = [id |-> m, socket |-> m]
          BY <4>1 DEF Placed
        <5>2. backupServers[s].id # m
          BY <2>2, <3>2
        <5> QED
          BY <5>1, <5>2
      <4>4. \A t \in Slot : backupServers'[t].id = NoServer <=> backupServers[t].id = NoServer
        BY <1>1, <2>2, <2>3
      <4> QED
        BY <2>1, <2>3, <4>1, <4>2, <4>3, <4>4 DEF Placed
    <3> QED
      BY <3>1, <3>2
  <2>6. ASSUME NEW t \in Slot
        PROVE  Belongs(t)'
    <3>1. CASE t = s
      <4>1. backupServers'[t].id = n /\ backupServers'[t].socket = n
        BY <2>3, <3>1
      <4>2. entering'[n].slot = t /\ entering'[n].pc = "ack"
        BY <2>1, <3>1 DEF Enters
      <4> QED
        BY <4>1, <4>2 DEF Belongs
    <3>2. CASE t # s
      <4>1. PICK b \in Backup : b = backupServers[t]
        BY <1>1
      <4>2. backupServers'[t] = b
        BY <2>3, <3>2, <4>1
      <4>3. /\ b.id # NoServer => entering[b.id].slot = t /\ entering[b.id].pc \in {"socket", "ack", "done"}
            /\ b.socket # NoServer => b.id = b.socket /\ entering[b.id].pc \in {"ack", "done"}
        BY <4>1, SlotsAre DEF Belongs
      <4>4. b.id # NoServer => b.id \in Server /\ b.id # n
        BY <3>2, <4>3 DEF Backup
      <4>5. b.id # NoServer => entering'[b.id] = entering[b.id]
        BY <2>1, <4>4 DEF Enters
      <4>6. b.socket # NoServer => b.id # NoServer
        BY <4>3
      <4> QED
        BY <4>2, <4>3, <4>5, <4>6 DEF Belongs
    <3> QED
      BY <3>1, <3>2
  <2>7. ASSUME NEW w \in Worker
        PROVE  Aimed(w)'
    <3>1. Aimed(w) /\ worker'[w] = worker[w]
      BY <2>1, SlotsAre
    <3>2. worker[w].pc = "send" => worker[w].slot \in Slot
      BY LocksAre DEF Holds
    <3>3. backupServers[s].socket = NoServer
      BY <2>2
    <3> QED
      BY <2>3, <3>1, <3>2, <3>3 DEF Aimed
  <2> QED
    BY <2>5, <2>6, <2>7, SlotsAreNext
<1> QED
  BY <1>3, <1>4, <1>5, <1>6, <1>8, <1>9 DEF EnterStep

\* A thread that sends stays at its slot.
LEMMA AimedKept ==
  ASSUME Slots, NEW w \in Worker, UNCHANGED backupServers,
         worker'[w].pc = "send" =>
           worker[w].pc = "send" /\ worker'[w].to = worker[w].to /\ worker'[w].slot = worker[w].slot
  PROVE  Aimed(w)'
<1>1. Aimed(w)
  BY SlotsAre
<1> QED
  BY <1>1 DEF Aimed

LEMMA WorkerStepSlots ==
  ASSUME TypeOK, Locks, Counted, Slots, Tables, NEW w \in Worker, WorkerStep(w)
  PROVE  Slots'
<1>1. worker \in [Worker -> WorkerState] /\ backupServers \in [Slot -> Backup]
  BY DEF TypeOK, Backup
<1>2. CASE ChangesTable(w)
  BY <1>2, AimedKept, SlotsOfWorkers DEF ChangesTable, Turns
<1>3. CASE Crash("nullUser") \/ Crash("nullDevice")
  BY <1>3, SlotsUnchanged DEF Crash, remoteVars
<1>4. CASE Refuse(w)
  BY <1>1, <1>4, RefuseIs, AimedKept, SlotsOfWorkers DEF Turns, Refuse, remoteVars
<1>5. CASE WriteFile(w)
  BY <1>1, <1>5, GotoIs, AimedKept, SlotsOfWorkers DEF Turns, WriteFile, remoteVars
<1>6. CASE Notify(w) /\ ~ Crash("nullUser")
  BY <1>1, <1>6, GotoIs, AimedKept, SlotsOfWorkers DEF Turns, Notify, remoteVars
<1>7. CASE LockServers(w)
  <2>1. worker[w].n \in Numbers
    BY <1>1, WorkerFields
  <2> QED
    BY <1>1, <1>7, <2>1, GotoSlotsIs, AimedKept, SlotsOfWorkers DEF Turns, LockServers, remoteVars
<1>8. CASE VisitSlot(w)
  <2> DEFINE r == worker[w]
             b == backupServers[r.slot]
  <2>1. /\ r.pc = "slots" /\ r.slot \in Slot
        /\ IF b.id = NoServer
             THEN Turns(w, "slots", r.op, r.n, r.slot + 1, r.half, r.to)
             ELSE Turns(w, "send", r.op, r.n, r.slot, 1, b.socket)
    BY <1>1, <1>8, VisitSlotIs DEF Backup
  <2>2. UNCHANGED <<entering, backupServers, secondary>>
    BY <1>8 DEF VisitSlot, remoteVars
  <2>3. Aimed(w)'
    <3>1. CASE b.id = NoServer
      BY <2>1, <3>1 DEF Turns, Aimed
    <3>2. CASE b.id # NoServer
      <4>1. PICK to, s : to = b.socket /\ s = r.slot
        OBVIOUS
      <4>2. worker'[w].to = to /\ worker'[w].slot = s /\ backupServers'[s].socket = to
        BY <2>1, <2>2, <3>2, <4>1 DEF Turns
      <4> QED
        BY <4>2 DEF Aimed
    <3> QED
      BY <3>1, <3>2
  <2> QED
    BY <2>1, <2>2, <2>3, SlotsOfWorkers DEF Turns
<1>9. CASE SendHalf(w)
  <2> DEFINE r == worker[w]
  <2>1. r.slot \in Slot
    BY <1>9 DEF SendHalf, Locks
  <2>2. /\ r.pc = "send"
        /\ IF r.half = 1 THEN Turns(w, "send", r.op, r.n, r.slot, 2, r.to)
                         ELSE Turns(w, "slots", r.op, r.n, r.slot + 1, 0, NoServer)
    BY <1>1, <1>9, <2>1, SendHalfIs
  <2>3. UNCHANGED <<entering, backupServers, secondary>>
    BY <1>9 DEF SendHalf
  <2> QED
    BY <2>2, <2>3, AimedKept, SlotsOfWorkers DEF Turns
<1>10. CASE Finish(w)
  BY <1>1, <1>10, FinishIs, AimedKept, SlotsOfWorkers DEF Turns, Finish, remoteVars
<1> QED
  BY <1>2, <1>3, <1>4, <1>5, <1>6, <1>7, <1>8, <1>9, <1>10, LoginChanges, ExitChanges
     DEF WorkerStep

LEMMA SlotsKept ==
  ASSUME TypeOK, Locks, Counted, Slots, Tables, [Next]_vars
  PROVE  Slots'
<1>1. ASSUME NEW w \in Worker, NEW op \in Workload, Begin(w, op)
      PROVE  Slots'
  <2>1. Turns(w, IF op.file = NoFile THEN "user_wait" ELSE "write", op,
              IF op.kind = "UPLOAD" THEN ops + 1 ELSE 0, 0, 0, NoServer)
    BY <1>1, BeginIs DEF TypeOK, Numbers
  <2>2. worker'[w].pc # "send"
    BY <2>1 DEF Turns
  <2> QED
    BY <1>1, <2>1, <2>2, AimedKept, SlotsOfWorkers DEF Turns, Begin, remoteVars
<1>2. ASSUME NEW n \in Server, SecondaryStep(n) \/ KillSecondary(n)
      PROVE  Slots'
  <2>1. SecondaryMoves(n)
    BY <1>2, SecondaryMovesIs
  <2>2. Elsewhere(n)
    BY <2>1 DEF SecondaryMoves, StopsAs, ReadsAck, ReadsWhole
  <2>3. secondary[n].state # "off" /\ secondary'[n].state # "off"
    BY <2>1 DEF SecondaryMoves, StopsAs, ReadsAck, ReadsWhole, FindsNoRoom, Stopped
  <2>4. \A m \in Server : secondary'[m].state = "off" <=> secondary[m].state = "off"
    BY <2>2, <2>3 DEF Elsewhere
  <2> QED
    BY <2>2, <2>4, SlotsUnchanged DEF Elsewhere
<1>3. CASE UNCHANGED vars \/ KillPrimary
  BY <1>3, SlotsUnchanged DEF vars, KillPrimary, remoteVars
<1> QED
  BY <1>1, <1>2, <1>3, WorkerStepSlots, EnterStepSlots DEF Next, PrimaryStep

-----------------------------------------------------------------------------
(* The last entry of some kinds *)

\* A set of numbers up to m that is not empty has a greatest element.
LEMMA Greatest ==
  ASSUME NEW m \in Nat, NEW S \in SUBSET (1 .. m), S # {}
  PROVE  \E i \in S : \A k \in S : k <= i
<1> DEFINE T == {m - i : i \in S}
<1>1. T \in SUBSET Nat /\ T # {}
  <2>1. \A i \in S : m - i \in Nat
    OBVIOUS
  <2>2. PICK i \in S : m - i \in T
    OBVIOUS
  <2> QED
    BY <2>1, <2>2
<1>2. Min(T) \in T /\ \A x \in T : Min(T) <= x
  BY <1>1, MinNat
<1>3. PICK i \in S : Min(T) = m - i
  BY <1>2
<1>4. ASSUME NEW k \in S
      PROVE  k <= i
  <2>1. m - i <= m - k
    BY <1>2, <1>3
  <2> QED
    BY <2>1
<1> QED
  BY <1>4

\* If there is an entry of these kinds before place j, there is a last one.
LEMMA PriorExists ==
  ASSUME NEW q, NEW kinds, NEW j \in Nat, NEW m \in 1 .. j - 1, q[m].op.kind \in kinds
  PROVE  \E i \in 1 .. j - 1 : Prior(q, kinds, i, j) /\ m <= i
<1> DEFINE S == {i \in 1 .. j - 1 : q[i].op.kind \in kinds}
<1>1. j - 1 \in Nat /\ S \in SUBSET (1 .. j - 1) /\ S # {}
  OBVIOUS
<1>2. PICK i \in S : \A k \in S : k <= i
  BY <1>1, Greatest
<1>3. \A k \in i + 1 .. j - 1 : q[k].op.kind \notin kinds
  <2>1. ASSUME NEW k \in i + 1 .. j - 1, q[k].op.kind \in kinds
        PROVE  FALSE
    <3>1. i \in Nat /\ k \in 1 .. j - 1 /\ k > i
      OBVIOUS
    <3>2. k \in S /\ k <= i
      BY <1>2, <2>1, <3>1
    <3> QED
      BY <3>1, <3>2
  <2> QED
    BY <2>1
<1> QED
  BY <1>2, <1>3 DEF Prior

LEMMA PriorIsOne ==
  ASSUME NEW q, NEW kinds, NEW j \in Nat, NEW i, NEW m,
         Prior(q, kinds, i, j), Prior(q, kinds, m, j)
  PROVE  i = m
<1>1. i \in Nat /\ m \in Nat /\ i <= j - 1 /\ m <= j - 1
  BY DEF Prior
<1>2. ~ (i < m) /\ ~ (m < i)
  BY <1>1 DEF Prior
<1> QED
  BY <1>1, <1>2

-----------------------------------------------------------------------------
(* Streams that grow by an entry *)

\* r is q with e behind it.
Added(q, e, r) ==
  /\ Len(q) \in Nat /\ DOMAIN q = 1 .. Len(q)
  /\ Len(r) = Len(q) + 1 /\ DOMAIN r = 1 .. Len(q) + 1
  /\ \A i \in 1 .. Len(q) : r[i] = q[i]
  /\ r[Len(q) + 1] = e

LEMMA AddedIs ==
  ASSUME NEW q \in Stream, NEW e \in Unit \cup {Ack}
  PROVE  Added(q, e, Append(q, e)) /\ Append(q, e) \in Stream
BY AppendIs, SeqFacts DEF Added, Stream

LEMMA PriorOfAdded ==
  ASSUME NEW q, NEW e, NEW r, Added(q, e, r), NEW kinds, NEW j \in 1 .. Len(q) + 1, NEW i
  PROVE  Prior(r, kinds, i, j) <=> Prior(q, kinds, i, j)
<1>1. Len(q) \in Nat /\ \A k \in 1 .. j - 1 : k \in 1 .. Len(q) /\ r[k] = q[k]
  BY DEF Added
<1>2. i \in 1 .. j - 1 => \A k \in i + 1 .. j - 1 : r[k] = q[k]
  BY <1>1
<1> QED
  BY <1>1, <1>2 DEF Prior

LEMMA LatestOfAdded ==
  ASSUME NEW q, NEW e, NEW r, Added(q, e, r), NEW kinds, NEW i
  PROVE  /\ e.op.kind \in kinds => (Latest(r, kinds, i) <=> i = Len(q) + 1)
         /\ e.op.kind \notin kinds => (Latest(r, kinds, i) <=> Latest(q, kinds, i))
<1>1. Len(q) \in Nat /\ Len(r) = Len(q) + 1 /\ r[Len(q) + 1] = e
  BY DEF Added
<1>2. \A k \in 1 .. Len(q) : r[k] = q[k]
  BY DEF Added
<1>3. ASSUME e.op.kind \in kinds, Latest(r, kinds, i)
      PROVE  i = Len(q) + 1
  <2>1. i \in 1 .. Len(q) + 1 /\ \A k \in i + 1 .. Len(q) + 1 : r[k].op.kind \notin kinds
    BY <1>1, <1>3 DEF Latest, Prior
  <2>2. Len(q) + 1 \notin i + 1 .. Len(q) + 1
    BY <1>1, <1>3, <2>1
  <2> QED
    BY <1>1, <2>1, <2>2
<1>4. ASSUME e.op.kind \in kinds, i = Len(q) + 1
      PROVE  Latest(r, kinds, i)
  BY <1>1, <1>4 DEF Latest, Prior
<1>5. ASSUME e.op.kind \notin kinds, Latest(r, kinds, i)
      PROVE  Latest(q, kinds, i)
  <2>1. i \in 1 .. Len(q) + 1 /\ r[i].op.kind \in kinds
        /\ \A k \in i + 1 .. Len(q) + 1 : r[k].op.kind \notin kinds
    BY <1>1, <1>5 DEF Latest, Prior
  <2>2. i \in 1 .. Len(q)
    BY <1>1, <1>5, <2>1
  <2> QED
    BY <1>1, <1>2, <2>1, <2>2 DEF Latest, Prior
<1>6. ASSUME e.op.kind \notin kinds, Latest(q, kinds, i)
      PROVE  Latest(r, kinds, i)
  <2>1. i \in 1 .. Len(q) /\ q[i].op.kind \in kinds
        /\ \A k \in i + 1 .. Len(q) : q[k].op.kind \notin kinds
    BY <1>1, <1>6 DEF Latest, Prior
  <2>2. \A k \in i + 1 .. Len(q) + 1 : r[k].op.kind \notin kinds
    <3>1. ASSUME NEW k \in i + 1 .. Len(q) + 1
          PROVE  r[k].op.kind \notin kinds
      <4>1. CASE k = Len(q) + 1
        BY <1>1, <1>6, <4>1
      <4>2. CASE k # Len(q) + 1
        <5>1. k \in i + 1 .. Len(q) /\ k \in 1 .. Len(q)
          BY <1>1, <2>1, <4>2
        <5> QED
          BY <1>2, <2>1, <5>1
      <4> QED
        BY <4>1, <4>2
    <3> QED
      BY <3>1
  <2> QED
    BY <1>1, <1>2, <2>1, <2>2 DEF Latest, Prior
<1> QED
  BY <1>3, <1>4, <1>5, <1>6

\* e may follow q: a first half follows a whole frame, a second half its first half.
Follows(q, e, kinds) ==
  e.op.kind \in kinds =>
    IF e.half = 1
      THEN \A i \in DOMAIN q : Latest(q, kinds, i) => q[i].half = 2
      ELSE \E i \in DOMAIN q : Latest(q, kinds, i) /\ q[i] = [e EXCEPT !.half = 1]

LEMMA UnbrokenAdded ==
  ASSUME NEW q, NEW e, NEW r, Added(q, e, r), NEW kinds, Unbroken(q, kinds), Follows(q, e, kinds)
  PROVE  Unbroken(r, kinds)
<1>1. /\ Len(q) \in Nat /\ DOMAIN q = 1 .. Len(q) /\ DOMAIN r = 1 .. Len(q) + 1
      /\ r[Len(q) + 1] = e /\ \A i \in 1 .. Len(q) : r[i] = q[i]
  BY DEF Added
<1>2. \A j \in 1 .. Len(q) + 1 : \A i \in 1 .. Len(q) + 1 :
        Prior(r, kinds, i, j) => i \in 1 .. Len(q) /\ Prior(q, kinds, i, j)
  <2>1. \A j \in 1 .. Len(q) + 1 : \A i \in 1 .. Len(q) + 1 :
          Prior(r, kinds, i, j) => i \in 1 .. Len(q)
    BY <1>1 DEF Prior
  <2> QED
    BY <2>1, PriorOfAdded
<1>3. \A j \in 1 .. Len(q) + 1 : \A i \in 1 .. Len(q) :
        Prior(q, kinds, i, j) => Prior(r, kinds, i, j)
  BY PriorOfAdded
<1>4. ASSUME NEW j \in DOMAIN r, r[j].op.kind \in kinds, r[j].half = 1, NEW i \in DOMAIN r,
             Prior(r, kinds, i, j)
      PROVE  r[i].half = 2
  <2>1. i \in 1 .. Len(q) /\ Prior(q, kinds, i, j) /\ r[i] = q[i]
    BY <1>1, <1>2, <1>4
  <2>2. CASE j = Len(q) + 1
    <3>1. Latest(q, kinds, i)
      BY <2>1, <2>2 DEF Latest
    <3> QED
      BY <1>1, <1>4, <2>1, <2>2, <3>1 DEF Follows
  <2>3. CASE j # Len(q) + 1
    <3>1. j \in DOMAIN q /\ r[j] = q[j] /\ i \in DOMAIN q
      BY <1>1, <2>1, <2>3
    <3>2. q[j].op.kind \in kinds /\ q[j].half = 1
      BY <1>4, <3>1
    <3>3. \A k \in DOMAIN q : Prior(q, kinds, k, j) => q[k].half = 2
      BY <3>1, <3>2 DEF Unbroken
    <3> QED
      BY <2>1, <3>1, <3>3
  <2> QED
    BY <2>2, <2>3
<1>5. ASSUME NEW j \in DOMAIN r, r[j].op.kind \in kinds, r[j].half # 1
      PROVE  \E i \in DOMAIN r : Prior(r, kinds, i, j) /\ r[i] = [r[j] EXCEPT !.half = 1]
  <2>1. PICK i \in DOMAIN q : Prior(q, kinds, i, j) /\ q[i] = [r[j] EXCEPT !.half = 1]
    <3>1. CASE j = Len(q) + 1
      BY <1>1, <1>5, <3>1 DEF Follows, Latest
    <3>2. CASE j # Len(q) + 1
      <4>1. j \in DOMAIN q /\ r[j] = q[j]
        BY <1>1, <3>2
      <4> QED
        BY <1>5, <4>1 DEF Unbroken
    <3> QED
      BY <3>1, <3>2
  <2> QED
    BY <1>1, <1>3, <2>1
<1> QED
  BY <1>4, <1>5 DEF Unbroken

-----------------------------------------------------------------------------
(* Streams that lose what has been read *)

LEMMA PriorOfRest ==
  ASSUME NEW q, NEW d \in Nat, NEW r, Rest(q, d, r), NEW kinds, NEW j \in 1 .. Len(r) + 1,
         NEW i \in 1 .. Len(r)
  PROVE  Prior(r, kinds, i, j) <=> Prior(q, kinds, i + d, j + d)
<1>1. /\ Len(q) \in Nat /\ Len(r) = Len(q) - d /\ Len(q) >= d
      /\ \A k \in 1 .. Len(r) : r[k] = q[k + d]
  BY DEF Rest
<1>2. i \in Nat /\ j \in Nat /\ Len(r) \in Nat
  BY <1>1
<1>3. ASSUME Prior(r, kinds, i, j)
      PROVE  Prior(q, kinds, i + d, j + d)
  <2>1. i + d \in 1 .. (j + d) - 1 /\ q[i + d].op.kind \in kinds
    BY <1>1, <1>2, <1>3 DEF Prior
  <2>2. ASSUME NEW k \in (i + d) + 1 .. (j + d) - 1
        PROVE  q[k].op.kind \notin kinds
    <3>1. k - d \in i + 1 .. j - 1 /\ k - d \in 1 .. Len(r) /\ (k - d) + d = k
      BY <1>2
    <3> QED
      BY <1>1, <1>3, <3>1 DEF Prior
  <2> QED
    BY <2>1, <2>2 DEF Prior
<1>4. ASSUME Prior(q, kinds, i + d, j + d)
      PROVE  Prior(r, kinds, i, j)
  <2>1. i \in 1 .. j - 1 /\ r[i].op.kind \in kinds
    BY <1>1, <1>2, <1>4 DEF Prior
  <2>2. ASSUME NEW k \in i + 1 .. j - 1
        PROVE  r[k].op.kind \notin kinds
    <3>1. k + d \in (i + d) + 1 .. (j + d) - 1 /\ k \in 1 .. Len(r)
      BY <1>2
    <3> QED
      BY <1>1, <1>4, <3>1 DEF Prior
  <2> QED
    BY <2>1, <2>2 DEF Prior
<1> QED
  BY <1>3, <1>4

LEMMA LatestOfRest ==
  ASSUME NEW q, NEW d \in Nat, NEW r, Rest(q, d, r), NEW kinds, NEW i \in 1 .. Len(r)
  PROVE  Latest(r, kinds, i) <=> Latest(q, kinds, i + d)
<1>1. Len(q) \in Nat /\ Len(r) = Len(q) - d /\ Len(q) >= d
  BY DEF Rest
<1>2. Len(r) + 1 \in 1 .. Len(r) + 1 /\ (Len(r) + 1) + d = Len(q) + 1
  BY <1>1
<1>3. Prior(r, kinds, i, Len(r) + 1) <=> Prior(q, kinds, i + d, (Len(r) + 1) + d)
  BY <1>2, PriorOfRest
<1> QED
  BY <1>2, <1>3 DEF Latest

\* What is read is an acknowledgement, or the two halves of a frame.
Chunk(q, d) ==
  \/ d = 1 /\ q[1] = Ack
  \/ /\ d = 2 /\ q[1].op.kind = q[2].op.kind /\ q[1].n = q[2].n /\ q[1].op = q[2].op
     /\ q[1].half = 1 /\ q[2].half = 2

LEMMA ChunkIsNotBefore ==
  ASSUME NEW q, NEW d \in {1, 2}, Chunk(q, d), NEW kinds, NEW i \in 1 .. d, NEW j \in Nat,
         d + 1 <= j, Prior(q, kinds, i, j), "none" \notin kinds
  PROVE  i = 2 /\ d = 2 /\ q[i].half = 2
<1>1. q[i].op.kind \in kinds /\ \A k \in i + 1 .. j - 1 : q[k].op.kind \notin kinds
  BY DEF Prior
<1>2. Ack.op.kind = "none"
  BY DEF Ack, NoOp
<1>3. d = 2 /\ q[1].op.kind = q[2].op.kind /\ q[2].half = 2
  <2>1. CASE d = 1
    <3>1. i = 1
      BY <2>1
    <3> QED
      BY <1>1, <1>2, <2>1, <3>1 DEF Chunk
  <2> QED
    BY <2>1 DEF Chunk
<1>4. i # 1
  <2>1. i = 1 => 2 \in i + 1 .. j - 1
    BY <1>3
  <2> QED
    BY <1>1, <1>3, <2>1
<1> QED
  BY <1>3, <1>4

LEMMA UnbrokenRest ==
  ASSUME NEW q, NEW d \in {1, 2}, NEW r, Rest(q, d, r), Chunk(q, d), NEW kinds,
         "none" \notin kinds, Unbroken(q, kinds), \A j \in DOMAIN q : q[j].half \in {1, 2},
         \A j \in DOMAIN q : q[j].op.kind \in kinds => [q[j] EXCEPT !.half = 1].half = 1
  PROVE  Unbroken(r, kinds)
<1>1. /\ Len(q) \in Nat /\ DOMAIN q = 1 .. Len(q) /\ Len(q) >= d
      /\ Len(r) = Len(q) - d /\ DOMAIN r = 1 .. Len(q) - d
      /\ \A i \in 1 .. Len(r) : r[i] = q[i + d]
  BY DEF Rest
<1>2. ASSUME NEW j \in DOMAIN r
      PROVE  /\ j \in 1 .. Len(r) + 1 /\ j + d \in DOMAIN q /\ r[j] = q[j + d]
             /\ j + d \in Nat /\ d + 1 <= j + d
  BY <1>1
<1>3. ASSUME NEW j \in DOMAIN r, r[j].op.kind \in kinds, r[j].half = 1, NEW i \in DOMAIN r,
             Prior(r, kinds, i, j)
      PROVE  r[i].half = 2
  <2>1. Prior(q, kinds, i + d, j + d)
    BY <1>1, <1>2, <1>3, PriorOfRest
  <2> QED
    BY <1>2, <1>3, <2>1 DEF Unbroken
<1>4. ASSUME NEW j \in DOMAIN r, r[j].op.kind \in kinds, r[j].half # 1
      PROVE  \E i \in DOMAIN r : Prior(r, kinds, i, j) /\ r[i] = [r[j] EXCEPT !.half = 1]
  <2>1. PICK k \in DOMAIN q : Prior(q, kinds, k, j + d) /\ q[k] = [q[j + d] EXCEPT !.half = 1]
    BY <1>2, <1>4 DEF Unbroken
  <2>2. q[k].half = 1
    BY <1>2, <1>4, <2>1
  <2>3. k \notin 1 .. d
    <3>1. SUFFICES ASSUME k \in 1 .. d
                   PROVE  FALSE
      OBVIOUS
    <3>2. PICK m \in Nat : m = j + d /\ d + 1 <= m
      BY <1>2
    <3>3. Prior(q, kinds, k, m)
      BY <2>1, <3>2
    <3>4. q[k].half = 2
      BY <3>1, <3>2, <3>3, ChunkIsNotBefore
    <3> QED
      BY <2>2, <3>4
  <2>4. k - d \in DOMAIN r /\ (k - d) + d = k
    BY <1>1, <2>3
  <2>5. Prior(r, kinds, k - d, j)
    BY <1>1, <1>2, <2>1, <2>4, PriorOfRest
  <2> QED
    BY <1>1, <1>2, <2>1, <2>4, <2>5
<1> QED
  BY <1>3, <1>4 DEF Unbroken

-----------------------------------------------------------------------------
(* Frames of one semaphore arrive in one piece. *)

\* Frames, for the stream of one secondary and the frames of one semaphore.
Framed(n, kinds) ==
  /\ Unbroken(stream[n], kinds)
  /\ \A i \in DOMAIN stream[n] : Latest(stream[n], kinds, i) /\ stream[n][i].half = 1 =>
       \E w \in Worker : Halfway(w, n) /\ stream[n][i] = FirstHalf(w)
  /\ \A w \in Worker : Halfway(w, n) /\ Hearing(n) /\ worker[w].op.kind \in kinds =>
       \E i \in DOMAIN stream[n] : Latest(stream[n], kinds, i) /\ stream[n][i] = FirstHalf(w)

FramesOf(n) ==
  /\ ~ Hearing(n) => stream[n] = <<>>
  /\ ~ Listed(n) => \A i \in DOMAIN stream[n] : stream[n][i] = Ack
  /\ \A kinds \in {UserKinds, FileKinds} : Framed(n, kinds)

LEMMA FramesAre == Frames <=> \A n \in Server : FramesOf(n)
BY DEF Frames, FramesOf, Framed

LEMMA FramesAreNext == (\A n \in Server : FramesOf(n)') => Frames'
BY DEF Frames, FramesOf, Framed

\* Nothing of it changes.
LEMMA FramesSame ==
  ASSUME NEW n \in Server, FramesOf(n), stream'[n] = stream[n],
         Hearing(n)' <=> Hearing(n), Listed(n) => Listed(n)',
         \A v \in Worker : \/ worker'[v] = worker[v]
                           \/ ~ Halfway(v, n) /\ ~ Halfway(v, n)'
  PROVE  FramesOf(n)'
<1>1. ASSUME NEW v \in Worker
      PROVE  /\ Halfway(v, n) => Halfway(v, n)' /\ FirstHalf(v)' = FirstHalf(v)
             /\ Halfway(v, n)' => Halfway(v, n) /\ FirstHalf(v)' = FirstHalf(v)
                                  /\ worker'[v].op = worker[v].op
  BY DEF Halfway, FirstHalf
<1>2. PICK q : q = stream[n]
  OBVIOUS
<1>3. ASSUME NEW kinds \in {UserKinds, FileKinds}
      PROVE  Framed(n, kinds)'
  <2>1. Framed(n, kinds)
    BY DEF FramesOf
  <2>2. \A i \in DOMAIN q : Latest(q, kinds, i) /\ q[i].half = 1 =>
           \E w \in Worker : Halfway(w, n)' /\ q[i] = FirstHalf(w)'
    BY <1>1, <1>2, <2>1 DEF Framed
  <2>3. \A w \in Worker : Halfway(w, n)' /\ Hearing(n)' /\ worker'[w].op.kind \in kinds =>
           \E i \in DOMAIN q : Latest(q, kinds, i) /\ q[i] = FirstHalf(w)'
    BY <1>1, <1>2, <2>1 DEF Framed
  <2>4. Unbroken(q, kinds) /\ stream'[n] = q
    BY <1>2, <2>1 DEF Framed
  <2> QED
    BY <2>2, <2>3, <2>4 DEF Framed
<1>4. ~ Hearing(n)' => q = <<>>
  BY <1>2 DEF FramesOf
<1>5. ~ Listed(n)' => \A i \in DOMAIN q : q[i] = Ack
  BY <1>2 DEF FramesOf
<1> QED
  BY <1>2, <1>3, <1>4, <1>5 DEF FramesOf

\* A thread halfway through a frame for n has n in its slot.
LEMMA HalfwayListed ==
  ASSUME Locks, Slots, NEW w \in Worker, NEW n \in Server, Halfway(w, n)
  PROVE  Listed(n) /\ worker[w].slot \in Slot /\ backupServers[worker[w].slot].socket = n
<1>1. worker[w].slot \in Slot
  BY LocksAre DEF Holds, Halfway
<1>2. n # NoServer
  BY ReplicationAssumption
<1> QED
  BY <1>1, <1>2, SlotsAre DEF Aimed, Halfway, Listed

LEMMA NoneIsNoKind == \A kinds \in {UserKinds, FileKinds} : "none" \notin kinds /\ Ack.op.kind \notin kinds
BY DEF UserKinds, FileKinds, Ack, NoOp

\* Without entries there are no frames.
LEMMA FramesOfEmpty ==
  ASSUME NEW n \in Server, stream'[n] = <<>>, \A w \in Worker : ~ (Halfway(w, n) /\ Hearing(n))'
  PROVE  FramesOf(n)'
BY DEF FramesOf, Framed, Unbroken

\* n reads an acknowledgement or a whole frame.
LEMMA FramesOfReader ==
  ASSUME TypeOK, NEW n \in Server, FramesOf(n), Elsewhere(n), Hearing(n), Hearing(n)',
         NEW d \in {1, 2}, Rest(stream[n], d, stream'[n]), Chunk(stream[n], d)
  PROVE  FramesOf(n)'
<1>1. PICK q \in Stream : q = stream[n]
  BY DEF TypeOK
<1>2. PICK r : r = stream'[n]
  OBVIOUS
<1>3. Rest(q, d, r) /\ Chunk(q, d)
  BY <1>1, <1>2
<1>4. /\ Len(q) \in Nat /\ DOMAIN q = 1 .. Len(q) /\ Len(q) >= d
      /\ Len(r) = Len(q) - d /\ DOMAIN r = 1 .. Len(q) - d
      /\ \A i \in 1 .. Len(r) : r[i] = q[i + d]
  BY <1>3 DEF Rest
<1>5. \A j \in DOMAIN q : q[j] \in Unit \cup {Ack}
  BY SeqFacts DEF Stream
<1>6. \A j \in DOMAIN q : q[j].half \in {1, 2} /\ [q[j] EXCEPT !.half = 1].half = 1
  BY <1>5 DEF Unit, Ack
<1>7. \A v \in Worker : /\ Halfway(v, n)' <=> Halfway(v, n)
                        /\ FirstHalf(v)' = FirstHalf(v) /\ worker'[v].op = worker[v].op
                        /\ FirstHalf(v).half = 1
  BY DEF Elsewhere, Halfway, FirstHalf
<1>8. Listed(n)' <=> Listed(n)
  BY DEF Elsewhere, Listed
<1>9. ASSUME NEW kinds \in {UserKinds, FileKinds}
      PROVE  Framed(n, kinds)'
  <2>1. Framed(n, kinds) /\ "none" \notin kinds
    BY NoneIsNoKind DEF FramesOf
  <2>2. Unbroken(r, kinds)
    BY <1>1, <1>3, <1>6, <2>1, UnbrokenRest DEF Framed
  <2>3. ASSUME NEW i \in DOMAIN r, Latest(r, kinds, i), r[i].half = 1
        PROVE  \E w \in Worker : Halfway(w, n)' /\ r[i] = FirstHalf(w)'
    <3>1. i \in 1 .. Len(r) /\ i + d \in DOMAIN q /\ r[i] = q[i + d] /\ d \in Nat
      BY <1>4
    <3>2. Latest(q, kinds, i + d)
      <4>1. Rest(q, d, r) /\ Latest(r, kinds, i)
        BY <1>3, <2>3
      <4> QED
        BY ONLY <3>1, <4>1, LatestOfRest
    <3>3. PICK w \in Worker : Halfway(w, n) /\ q[i + d] = FirstHalf(w)
      BY <1>1, <2>1, <2>3, <3>1, <3>2 DEF Framed
    <3> QED
      BY <1>7, <3>1, <3>3
  <2>4. ASSUME NEW w \in Worker, Halfway(w, n)', worker'[w].op.kind \in kinds
        PROVE  \E i \in DOMAIN r : Latest(r, kinds, i) /\ r[i] = FirstHalf(w)'
    <3>1. PICK k \in DOMAIN q : Latest(q, kinds, k) /\ q[k] = FirstHalf(w)
      BY <1>1, <1>7, <2>1, <2>4 DEF Framed
    <3>2. k \notin 1 .. d
      <4>1. SUFFICES ASSUME k \in 1 .. d
                     PROVE  FALSE
        OBVIOUS
      <4>2. PICK m \in Nat : m = Len(q) + 1 /\ d + 1 <= m
        BY <1>4
      <4>3. Prior(q, kinds, k, m)
        BY <3>1, <4>2 DEF Latest
      <4>4. q[k].half = 2
        BY <1>3, <2>1, <4>1, <4>2, <4>3, ChunkIsNotBefore
      <4> QED
        BY <1>7, <3>1, <4>4
    <3>3. k - d \in 1 .. Len(r) /\ (k - d) + d = k /\ k - d \in DOMAIN r
      BY <1>4, <3>2
    <3>4. PICK i \in 1 .. Len(r) : i = k - d /\ i + d = k
      BY <3>3
    <3>5. Latest(r, kinds, i)
      <4>1. Latest(q, kinds, i + d) /\ d \in Nat
        BY <3>1, <3>4
      <4> QED
        BY <1>3, <4>1, LatestOfRest
    <3>6. r[i] = q[k] /\ i \in DOMAIN r
      BY <1>4, <3>4
    <3> QED
      BY <1>7, <2>4, <3>1, <3>5, <3>6
  <2> QED
    BY <1>2, <2>2, <2>3, <2>4 DEF Framed
<1>10. ~ Listed(n)' => \A i \in DOMAIN r : r[i] = Ack
  <2>1. SUFFICES ASSUME ~ Listed(n), NEW i \in DOMAIN r
                 PROVE  r[i] = Ack
    BY <1>8
  <2>2. i + d \in DOMAIN q /\ r[i] = q[i + d]
    BY <1>4
  <2> QED
    BY <1>1, <2>1, <2>2 DEF FramesOf
<1> QED
  BY <1>2, <1>9, <1>10 DEF FramesOf

LEMMA SecondaryFrames ==
  ASSUME TypeOK, Locks, Slots, Frames, NEW n \in Server, SecondaryMoves(n)
  PROVE  Frames'
<1>1. Elsewhere(n)
  BY DEF SecondaryMoves, StopsAs, ReadsAck, ReadsWhole
<1>2. ASSUME NEW m \in Server \ {n}
      PROVE  FramesOf(m)'
  <2>1. stream'[m] = stream[m] /\ secondary'[m] = secondary[m] /\ worker' = worker
        /\ backupServers' = backupServers
    BY <1>1 DEF Elsewhere
  <2>2. (Hearing(m)' <=> Hearing(m)) /\ (Listed(m) => Listed(m)')
    BY <2>1 DEF Hearing, Listed
  <2> QED
    BY <2>1, <2>2, FramesAre, FramesSame
<1>3. FramesOf(n)
  BY FramesAre
<1>4. PICK q \in Stream : q = stream[n]
  BY DEF TypeOK
<1>5. CASE \E state \in Stopped : StopsAs(n, state)
  <2>1. stream'[n] = <<>> /\ ~ Hearing(n)'
    BY <1>5 DEF StopsAs, Stopped, Hearing
  <2>2. FramesOf(n)'
    BY <2>1, FramesOfEmpty
  <2> QED
    BY <1>2, <2>2, FramesAreNext
<1>6. CASE ReadsAck(n)
  <2>1. q # <<>> /\ Head(q) = Ack /\ stream'[n] = Tail(q) /\ Hearing(n) /\ Hearing(n)'
    BY <1>4, <1>6 DEF ReadsAck, Hearing
  <2>2. Rest(q, 1, Tail(q)) /\ q[1] = Ack
    BY <2>1, RestOfOne DEF Stream
  <2>3. Rest(stream[n], 1, stream'[n]) /\ Chunk(stream[n], 1)
    BY <1>4, <2>1, <2>2 DEF Chunk
  <2>4. FramesOf(n)'
    BY <1>1, <1>3, <2>1, <2>3, FramesOfReader
  <2> QED
    BY <1>2, <2>4, FramesAreNext
<1>7. CASE ReadsWhole(n)
  <2>1. Len(q) > 1 /\ WholeFrame(q) /\ stream'[n] = Tail(Tail(q)) /\ Hearing(n) /\ Hearing(n)'
    BY <1>4, <1>7 DEF ReadsWhole, Hearing
  <2>2. Rest(q, 2, Tail(Tail(q)))
    BY <2>1, RestOfTwo DEF Stream
  <2>3. Rest(stream[n], 2, stream'[n]) /\ Chunk(stream[n], 2)
    <3>1. Chunk(q, 2)
      BY <2>1, WholeFrameIs DEF Chunk
    <3> QED
      BY <1>4, <2>1, <2>2, <3>1
  <2>4. FramesOf(n)'
    BY <1>1, <1>3, <2>1, <2>3, FramesOfReader
  <2> QED
    BY <1>2, <2>4, FramesAreNext
<1> QED
  BY <1>5, <1>6, <1>7 DEF SecondaryMoves, Stopped

\* A step of a session thread that sends nothing.
Quiet(w) ==
  /\ \A v \in Worker \ {w} : worker'[v] = worker[v]
  /\ worker[w].pc = "send" => worker'[w] = worker[w]
  /\ worker'[w].pc = "send" => worker[w].pc = "send" \/ worker'[w].half = 1
  /\ UNCHANGED <<stream, secondary, backupServers, entering>>

LEMMA QuietSteps ==
  ASSUME TypeOK, Locks, Counted, Tables, NEW w \in Worker,
         WorkerStep(w) \/ \E op \in Workload : Begin(w, op)
  PROVE  SendHalf(w) \/ Quiet(w)
<1>1. worker \in [Worker -> WorkerState] /\ backupServers \in [Slot -> Backup]
  BY DEF TypeOK, Backup
<1>2. CASE ChangesTable(w)
  BY <1>2 DEF ChangesTable, Turns, Quiet
<1>3. CASE Crash("nullUser") \/ Crash("nullDevice")
  BY <1>3 DEF Crash, remoteVars, Quiet
<1>4. CASE Refuse(w)
  <2>1. worker[w].pc = "user_wait" /\ UNCHANGED <<stream, secondary, backupServers, entering>>
    BY <1>4 DEF Refuse, remoteVars
  <2> QED
    BY <1>1, <1>4, <2>1, RefuseIs DEF Turns, Quiet
<1>5. CASE WriteFile(w)
  <2>1. worker[w].pc = "write" /\ UNCHANGED <<stream, secondary, backupServers, entering>>
    BY <1>5 DEF WriteFile, remoteVars
  <2> QED
    BY <1>1, <1>5, <2>1, GotoIs DEF WriteFile, Turns, Quiet
<1>6. CASE Notify(w) /\ ~ Crash("nullUser")
  <2>1. worker[w].pc = "notify_wait" /\ UNCHANGED <<stream, secondary, backupServers, entering>>
    BY <1>6 DEF Notify, remoteVars
  <2> QED
    BY <1>1, <1>6, <2>1, GotoIs DEF Notify, Turns, Quiet
<1>7. CASE LockServers(w)
  <2>1. worker[w].n \in Numbers
    BY <1>1, WorkerFields
  <2>2. worker[w].pc = "server_wait" /\ UNCHANGED <<stream, secondary, backupServers, entering>>
    BY <1>7 DEF LockServers, remoteVars
  <2> QED
    BY <1>1, <1>7, <2>1, <2>2, GotoSlotsIs DEF LockServers, Turns, Quiet
<1>8. CASE VisitSlot(w)
  <2>1. worker[w].pc = "slots" /\ UNCHANGED <<stream, secondary, backupServers, entering>>
    BY <1>8 DEF VisitSlot, remoteVars
  <2>2. /\ \A v \in Worker \ {w} : worker'[v] = worker[v]
        /\ worker'[w].pc = "slots" \/ worker'[w].half = 1
    BY <1>1, <1>8, VisitSlotIs DEF Turns, Backup
  <2> QED
    BY <2>1, <2>2 DEF Quiet
<1>9. CASE Finish(w)
  <2>1. worker[w].pc = "slots" /\ UNCHANGED <<stream, secondary, backupServers, entering>>
    BY <1>9 DEF Finish, remoteVars
  <2> QED
    BY <1>1, <1>9, <2>1, FinishIs DEF Turns, Quiet
<1>10. ASSUME NEW op \in Workload, Begin(w, op)
       PROVE  Quiet(w)
  <2>1. worker[w].pc = "idle" /\ UNCHANGED <<stream, secondary, backupServers, entering>>
    BY <1>10 DEF Begin, remoteVars
  <2>2. /\ \A v \in Worker \ {w} : worker'[v] = worker[v]
        /\ worker'[w].pc # "send"
    BY <1>1, <1>10, BeginIs DEF Turns, TypeOK, Numbers
  <2> QED
    BY <2>1, <2>2 DEF Quiet
<1> QED
  BY <1>2, <1>3, <1>4, <1>5, <1>6, <1>7, <1>8, <1>9, <1>10, LoginChanges, ExitChanges
     DEF WorkerStep

LEMMA QuietFrames ==
  ASSUME Frames, NEW w \in Worker, Quiet(w)
  PROVE  Frames'
<1>1. ASSUME NEW n \in Server
      PROVE  FramesOf(n)'
  <2>1. (Hearing(n)' <=> Hearing(n)) /\ (Listed(n) => Listed(n)')
    BY DEF Quiet, Hearing, Listed
  <2>2. ASSUME NEW v \in Worker
        PROVE  worker'[v] = worker[v] \/ (~ Halfway(v, n) /\ ~ Halfway(v, n)')
    BY DEF Quiet, Halfway
  <2> QED
    BY <2>1, <2>2, FramesAre, FramesSame DEF Quiet
<1> QED
  BY <1>1, FramesAreNext

\* An entry of other kinds than these comes to the stream.
LEMMA FramedAdded ==
  ASSUME NEW n \in Server, NEW kinds, Framed(n, kinds), NEW e, e.op.kind \notin kinds,
         Added(stream[n], e, stream'[n]), Hearing(n)' <=> Hearing(n),
         \A v \in Worker : \/ worker'[v] = worker[v]
                           \/ worker[v].op.kind \notin kinds /\ worker'[v].op.kind \notin kinds
  PROVE  Framed(n, kinds)'
<1>1. PICK q, r : q = stream[n] /\ r = stream'[n]
  OBVIOUS
<1>2. /\ Added(q, e, r) /\ DOMAIN q = 1 .. Len(q) /\ Len(q) \in Nat /\ DOMAIN r = 1 .. Len(q) + 1
      /\ \A i \in DOMAIN q : i \in DOMAIN r /\ r[i] = q[i]
  BY <1>1 DEF Added
<1>3. Unbroken(q, kinds)
  BY <1>1 DEF Framed
<1>4. Follows(q, e, kinds)
  BY DEF Follows
<1>5. Unbroken(r, kinds)
  BY <1>2, <1>3, <1>4, UnbrokenAdded
<1>6. \A i : Latest(r, kinds, i) <=> Latest(q, kinds, i)
  BY <1>2, LatestOfAdded
<1>7. \A i : Latest(q, kinds, i) => i \in DOMAIN q /\ q[i].op.kind \in kinds
  BY <1>2 DEF Latest, Prior
<1>8. \A v \in Worker : worker[v].op.kind \in kinds \/ worker'[v].op.kind \in kinds =>
         /\ Halfway(v, n)' <=> Halfway(v, n)
         /\ FirstHalf(v)' = FirstHalf(v) /\ worker'[v].op = worker[v].op
  BY DEF Halfway, FirstHalf
<1>9. ASSUME NEW i \in DOMAIN r, Latest(r, kinds, i), r[i].half = 1
      PROVE  \E w \in Worker : Halfway(w, n)' /\ r[i] = FirstHalf(w)'
  <2>1. i \in DOMAIN q /\ q[i].op.kind \in kinds /\ Latest(q, kinds, i) /\ r[i] = q[i]
    BY <1>2, <1>6, <1>7, <1>9
  <2>2. PICK w \in Worker : Halfway(w, n) /\ q[i] = FirstHalf(w)
    BY <1>1, <1>9, <2>1 DEF Framed
  <2>3. FirstHalf(w).op = worker[w].op
    BY DEF FirstHalf
  <2>4. worker[w].op.kind \in kinds
    BY <2>1, <2>2, <2>3
  <2> QED
    BY <1>8, <2>1, <2>2, <2>4
<1>10. ASSUME NEW w \in Worker, Halfway(w, n)', Hearing(n)', worker'[w].op.kind \in kinds
       PROVE  \E i \in DOMAIN r : Latest(r, kinds, i) /\ r[i] = FirstHalf(w)'
  <2>1. PICK i \in DOMAIN q : Latest(q, kinds, i) /\ q[i] = FirstHalf(w)
    BY <1>1, <1>8, <1>10 DEF Framed
  <2> QED
    BY <1>2, <1>6, <1>8, <1>10, <2>1
<1> QED
  BY <1>1, <1>5, <1>9, <1>10 DEF Framed

\* The half frame that w sends to n comes to the stream, and w goes on.
LEMMA FramesSent ==
  ASSUME TypeOK, Locks, Slots, NEW n \in Server, FramesOf(n), NEW w \in Worker, Hearing(n),
         worker[w].pc = "send", worker[w].to = n, Hearing(n)',
         NEW e \in Unit, e = [op |-> worker[w].op, n |-> worker[w].n, half |-> worker[w].half],
         stream'[n] = Append(stream[n], e), UNCHANGED backupServers,
         \A v \in Worker \ {w} : worker'[v] = worker[v],
         worker'[w].op = worker[w].op, worker'[w].n = worker[w].n,
         worker'[w].half \in {0, 2}, Halfway(w, n)' <=> worker[w].half = 1
  PROVE  FramesOf(n)'
<1>1. PICK q \in Stream : q = stream[n]
  BY DEF TypeOK
<1>2. PICK r : r = stream'[n]
  OBVIOUS
<1>3. Added(q, e, r)
  BY <1>1, <1>2, AddedIs
<1>4. /\ Len(q) \in Nat /\ DOMAIN q = 1 .. Len(q) /\ DOMAIN r = 1 .. Len(q) + 1
      /\ r[Len(q) + 1] = e /\ Len(q) + 1 \in DOMAIN r
  BY <1>3 DEF Added
<1>5. e.op = worker[w].op /\ e.n = worker[w].n /\ e.half = worker[w].half /\ e.half \in {1, 2}
  BY DEF Unit
<1>6. worker[w].slot \in Slot /\ worker[w].op \in Workload
  BY LocksAre DEF Holds, Busy
<1>7. Listed(n)'
  <2>1. n # NoServer
    BY ReplicationAssumption
  <2> QED
    BY <1>6, <2>1, SlotsAre DEF Aimed, Listed
<1>8. [e EXCEPT !.half = 1] = FirstHalf(w)
  <2>1. [e EXCEPT !.half = 1] = [op |-> e.op, n |-> e.n, half |-> 1]
    BY DEF Unit
  <2> QED
    BY <1>5, <2>1 DEF FirstHalf
<1>9. e.half = 1 => FirstHalf(w)' = e
  BY <1>5 DEF FirstHalf
<1>10. \A v \in Worker : FirstHalf(v).op = worker[v].op
  BY DEF FirstHalf
<1>11. ASSUME NEW kinds \in {UserKinds, FileKinds}, e.op.kind \in kinds
       PROVE  Framed(n, kinds)'
  <2>1. ASSUME NEW v \in Worker, Sending(v), worker[v].op.kind \in kinds
        PROVE  v = w
    <3>1. worker[v].op \in Workload /\ Sending(w)
      BY <2>1, LocksAre DEF Holds, Busy, Sending
    <3>2. worker[v].op.kind \in UserKinds <=> worker[w].op.kind \in UserKinds
      BY <1>5, <1>6, <1>11, <2>1, <3>1, KindsAre
    <3> QED
      BY <2>1, <3>1, <3>2, OneSender
  <2>2. Framed(n, kinds)
    BY DEF FramesOf
  <2>3. \A i : Latest(r, kinds, i) <=> i = Len(q) + 1
    BY <1>3, <1>11, LatestOfAdded
  <2>4. Follows(q, e, kinds)
    <3>1. CASE e.half = 1
      <4>1. ASSUME NEW i \in DOMAIN q, Latest(q, kinds, i)
            PROVE  q[i].half = 2
        <5>1. q[i] \in Unit \cup {Ack}
          BY SeqFacts DEF Stream
        <5>2. q[i].half \in {1, 2} /\ q[i].op.kind \in kinds
          BY <4>1, <5>1 DEF Unit, Ack, Latest, Prior
        <5>3. q[i].half # 1
          <6>1. SUFFICES ASSUME q[i].half = 1
                         PROVE  FALSE
            OBVIOUS
          <6>2. PICK v \in Worker : Halfway(v, n) /\ q[i] = FirstHalf(v)
            BY <1>1, <2>2, <4>1, <6>1 DEF Framed
          <6>3. worker[v].op.kind \in kinds
            BY <1>10, <5>2, <6>2
          <6>4. v = w
            BY <2>1, <6>2, <6>3 DEF Halfway, Sending
          <6>5. worker[v].half = 2
            BY <6>2 DEF Halfway
          <6>6. worker[w].half = 2
            BY ONLY <6>4, <6>5
          <6>7. e.half = 2
            BY <1>5, <6>6
          <6> QED
            BY <3>1, <6>7
        <5> QED
          BY <5>2, <5>3
      <4> QED
        BY <3>1, <4>1 DEF Follows
    <3>2. CASE e.half # 1
      <4>1. Halfway(w, n)
        BY <1>5, <3>2 DEF Halfway
      <4>2. \E i \in DOMAIN q : Latest(q, kinds, i) /\ q[i] = FirstHalf(w)
        BY <1>1, <1>5, <1>11, <2>2, <4>1 DEF Framed
      <4> QED
        BY <1>8, <3>2, <4>2 DEF Follows
    <3> QED
      BY <3>1, <3>2
  <2>5. Unbroken(q, kinds)
    BY <1>1, <2>2 DEF Framed
  <2>6. Unbroken(r, kinds)
    BY <1>3, <2>4, <2>5, UnbrokenAdded
  <2>7. ASSUME NEW i \in DOMAIN r, Latest(r, kinds, i), r[i].half = 1
        PROVE  \E v \in Worker : Halfway(v, n)' /\ r[i] = FirstHalf(v)'
    BY <1>4, <1>5, <1>9, <2>3, <2>7
  <2>8. ASSUME NEW v \in Worker, Halfway(v, n)', worker'[v].op.kind \in kinds
        PROVE  \E i \in DOMAIN r : Latest(r, kinds, i) /\ r[i] = FirstHalf(v)'
    <3>1. v = w
      <4>1. SUFFICES ASSUME v # w
                     PROVE  FALSE
        OBVIOUS
      <4>2. worker'[v] = worker[v]
        BY <4>1
      <4> QED
        BY <2>1, <2>8, <4>1, <4>2 DEF Halfway, Sending
    <3> QED
      BY <1>4, <1>5, <1>9, <2>3, <2>8, <3>1
  <2> QED
    BY <1>2, <2>6, <2>7, <2>8 DEF Framed
<1>12. ASSUME NEW kinds \in {UserKinds, FileKinds}, e.op.kind \notin kinds
       PROVE  Framed(n, kinds)'
  <2>1. Framed(n, kinds) /\ Added(stream[n], e, stream'[n])
    BY <1>1, <1>2, <1>3 DEF FramesOf
  <2>2. worker[w].op.kind \notin kinds /\ worker'[w].op.kind \notin kinds
    BY <1>5, <1>12
  <2> QED
    BY <1>12, <2>1, <2>2, FramedAdded
<1> QED
  BY <1>7, <1>11, <1>12 DEF FramesOf

LEMMA SendFrames ==
  ASSUME TypeOK, Locks, Slots, Frames, NEW w \in Worker, SendHalf(w)
  PROVE  Frames'
<1> DEFINE r == worker[w]
<1>1. /\ r.pc = "send" /\ r.slot \in Slot /\ r.half \in {1, 2} /\ r.op \in Op
      /\ r.n \in Numbers /\ r.to \in Server \cup {NoServer}
  BY LocksAre, WorkerFields, ReplicationAssumption DEF SendHalf, Holds, Busy, TypeOK
<1>2. IF r.half = 1 THEN Turns(w, "send", r.op, r.n, r.slot, 2, r.to)
                    ELSE Turns(w, "slots", r.op, r.n, r.slot + 1, 0, NoServer)
  BY <1>1, SendHalfIs DEF TypeOK
<1>3. UNCHANGED <<backupServers, entering, secondary>>
      /\ Write(r.to, [op |-> r.op, n |-> r.n, half |-> r.half])
  BY DEF SendHalf
<1>4. PICK e \in Unit : e = [op |-> r.op, n |-> r.n, half |-> r.half]
  BY <1>1 DEF Unit, Numbers
<1>5. PICK to \in Server \cup {NoServer} : to = r.to
  BY <1>1
<1>6. /\ \A m \in Server \ {to} : stream'[m] = stream[m]
      /\ to \in Server => stream'[to] = IF Hearing(to) THEN Append(stream[to], e) ELSE stream[to]
  BY <1>3, <1>4, <1>5, WriteIs
<1>7. \A v \in Worker \ {w} : worker'[v] = worker[v]
  BY <1>2 DEF Turns
<1>8. \A m \in Server : (Hearing(m)' <=> Hearing(m)) /\ (Listed(m)' <=> Listed(m))
  BY <1>3 DEF Hearing, Listed
<1>9. ASSUME NEW m \in Server \ {to}
      PROVE  FramesOf(m)'
  <2>1. worker'[w].to \in {to, NoServer} /\ m # NoServer
    BY <1>2, <1>5, ReplicationAssumption DEF Turns
  <2>2. ~ Halfway(w, m) /\ ~ Halfway(w, m)'
    BY <1>5, <2>1 DEF Halfway
  <2>3. FramesOf(m)
    BY FramesAre
  <2> QED
    BY <1>6, <1>7, <1>8, <2>2, <2>3, FramesSame
<1>10. ASSUME to \in Server, ~ Hearing(to)
       PROVE  FramesOf(to)'
  <2>1. stream'[to] = <<>> /\ ~ Hearing(to)'
    BY <1>6, <1>8, <1>10, FramesAre DEF FramesOf
  <2> QED
    BY <1>10, <2>1, FramesOfEmpty
<1>11. ASSUME to \in Server, Hearing(to)
       PROVE  FramesOf(to)'
  <2>1. FramesOf(to) /\ stream'[to] = Append(stream[to], e) /\ Hearing(to)'
    BY <1>6, <1>8, <1>11, FramesAre
  <2>2. /\ worker'[w].op = r.op /\ worker'[w].n = r.n /\ worker'[w].half \in {0, 2}
        /\ Halfway(w, to)' <=> r.half = 1
    BY <1>2, <1>5 DEF Turns, Halfway
  <2> QED
    BY <1>1, <1>3, <1>4, <1>5, <1>7, <1>11, <2>1, <2>2, FramesSent
<1> QED
  BY <1>9, <1>10, <1>11, FramesAreNext

LEMMA ListedStays ==
  ASSUME TypeOK, Locks, Slots, NEW n \in Server, InsertId(n) \/ InsertSocket(n),
         NEW m \in Server, Listed(m)
  PROVE  Listed(m)'
<1>1. entering[n].slot \in Slot /\ backupServers \in [Slot -> Backup]
  BY SlotFacts DEF InsertId, InsertSocket, Slots, TypeOK, Backup
<1>2. PICK t \in Slot : backupServers[t].socket = m
  BY DEF Listed
<1>3. InsertSocket(n) => t # entering[n].slot
  <2>1. SUFFICES ASSUME InsertSocket(n), t = entering[n].slot
                 PROVE  FALSE
    OBVIOUS
  <2>2. backupServers[t] = [id |-> n, socket |-> NoServer]
    BY <2>1 DEF InsertSocket, Slots
  <2>3. backupServers[t].socket = NoServer
    BY <2>2
  <2> QED
    BY <1>2, <2>3, ReplicationAssumption
<1>4. backupServers'[t].socket = m
  BY <1>1, <1>2, <1>3, InsertIdIs, InsertSocketIs
<1> QED
  BY <1>4 DEF Listed

LEMMA EnterStepFrames ==
  ASSUME TypeOK, Locks, Slots, Frames, NEW n \in Server, Connect(n) \/ EnterStep(n)
  PROVE  Frames'
<1>1. worker' = worker /\ \A m \in Server \ {n} : secondary'[m] = secondary[m]
  BY DEF Connect, EnterStep, FindSlot, InsertId, InsertSocket, InsertFails, Acknowledge, TypeOK
<1>2. ASSUME NEW m \in Server, stream'[m] = stream[m], Hearing(m)' <=> Hearing(m),
             Listed(m) => Listed(m)'
      PROVE  FramesOf(m)'
  BY <1>1, <1>2, FramesAre, FramesSame
<1>3. CASE Connect(n)
  <2>1. secondary[n].state = "off" /\ stream' = stream /\ backupServers' = backupServers
    BY <1>3 DEF Connect
  <2>2. stream'[n] = <<>>
    <3>1. ~ Hearing(n)
      BY <2>1 DEF Hearing
    <3> QED
      BY <2>1, <3>1, FramesAre DEF FramesOf
  <2>3. ~ Listed(n)
    <3>1. entering[n].pc = "none"
      BY <2>1 DEF Slots
    <3> QED
      BY <3>1, SlotFacts
  <2>4. ASSUME NEW w \in Worker
        PROVE  ~ Halfway(w, n)'
    <3>1. Halfway(w, n)' <=> Halfway(w, n)
      BY <1>1 DEF Halfway
    <3> QED
      BY <2>3, <3>1, HalfwayListed
  <2>5. FramesOf(n)'
    BY <2>2, <2>4, FramesOfEmpty
  <2>6. \A m \in Server \ {n} : FramesOf(m)'
    BY <1>1, <1>2, <2>1 DEF Hearing, Listed
  <2> QED
    BY <2>5, <2>6, FramesAreNext
<1>4. CASE FindSlot(n) \/ InsertFails(n)
  <2>1. \A m \in Server : FramesOf(m)'
    BY <1>2, <1>4 DEF FindSlot, InsertFails, Hearing, Listed
  <2> QED
    BY <2>1, FramesAreNext
<1>5. ASSUME InsertId(n) \/ InsertSocket(n), NEW m \in Server, Listed(m)
      PROVE  Listed(m)'
  BY <1>5, ListedStays
<1>6. CASE InsertId(n) \/ InsertSocket(n)
  <2>1. UNCHANGED <<stream, secondary>>
    BY <1>6 DEF InsertId, InsertSocket
  <2>2. \A m \in Server : FramesOf(m)'
    BY <1>2, <1>5, <1>6, <2>1 DEF Hearing
  <2> QED
    BY <2>2, FramesAreNext
<1>7. CASE Acknowledge(n)
  <2>1. Write(n, Ack) /\ UNCHANGED <<backupServers, secondary>>
    BY <1>7 DEF Acknowledge
  <2>2. /\ \A m \in Server \ {n} : stream'[m] = stream[m]
        /\ stream'[n] = IF Hearing(n) THEN Append(stream[n], Ack) ELSE stream[n]
    BY <2>1, WriteIs
  <2>3. \A m \in Server : (Hearing(m)' <=> Hearing(m)) /\ (Listed(m)' <=> Listed(m))
    BY <2>1 DEF Hearing, Listed
  <2>4. CASE ~ Hearing(n)
    <3>1. \A m \in Server : FramesOf(m)'
      BY <1>2, <2>2, <2>3, <2>4
    <3> QED
      BY <3>1, FramesAreNext
  <2>5. CASE Hearing(n)
    <3>1. PICK q \in Stream : q = stream[n]
      BY DEF TypeOK
    <3>2. PICK r : r = stream'[n]
      OBVIOUS
    <3>3. Added(q, Ack, r)
      BY <2>2, <2>5, <3>1, <3>2, AddedIs
    <3>4. FramesOf(n)
      BY FramesAre
    <3>5. ASSUME NEW kinds \in {UserKinds, FileKinds}
          PROVE  Framed(n, kinds)'
      <4>1. Framed(n, kinds) /\ Added(stream[n], Ack, stream'[n])
        BY <3>1, <3>2, <3>3, <3>4 DEF FramesOf
      <4>2. Ack.op.kind \notin kinds
        BY NoneIsNoKind
      <4> QED
        BY <1>1, <2>3, <4>1, <4>2, FramedAdded
    <3>6. ~ Listed(n)' => \A i \in DOMAIN r : r[i] = Ack
      <4>1. ~ Listed(n) => \A i \in DOMAIN q : q[i] = Ack
        BY <3>1, <3>4 DEF FramesOf
      <4> QED
        BY <2>3, <3>3, <4>1 DEF Added
    <3>7. FramesOf(n)'
      BY <2>3, <2>5, <3>2, <3>5, <3>6 DEF FramesOf
    <3>8. \A m \in Server \ {n} : FramesOf(m)'
      BY <1>2, <2>2, <2>3
    <3> QED
      BY <3>7, <3>8, FramesAreNext
  <2> QED
    BY <2>4, <2>5
<1> QED
  BY <1>3, <1>4, <1>6, <1>7 DEF EnterStep

LEMMA FramesKept ==
  ASSUME TypeOK, Locks, Counted, Slots, Frames, Tables, [Next]_vars
  PROVE  Frames'
<1>1. CASE UNCHANGED vars \/ KillPrimary
  <2>1. UNCHANGED <<stream, secondary, backupServers, worker>>
    BY <1>1 DEF vars, KillPrimary, remoteVars
  <2>2. \A n \in Server : FramesOf(n)'
    BY <2>1, FramesAre, FramesSame DEF Hearing, Listed
  <2> QED
    BY <2>2, FramesAreNext
<1>2. ASSUME NEW w \in Worker, WorkerStep(w) \/ \E op \in Workload : Begin(w, op)
      PROVE  Frames'
  BY <1>2, QuietSteps, QuietFrames, SendFrames
<1>3. ASSUME NEW n \in Server, SecondaryStep(n) \/ KillSecondary(n)
      PROVE  Frames'
  BY <1>3, SecondaryMovesIs, SecondaryFrames
<1> QED
  BY <1>1, <1>2, <1>3, EnterStepFrames DEF Next, PrimaryStep
=============================================================================
