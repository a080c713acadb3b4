--------------------------- MODULE BoxSyncProofs ---------------------------
(***************************************************************************)
(* Theorems about BoxSync, for every finite set of boxes, every set of     *)
(* files and any number of changes and typed lines: that no box is sent    *)
(* its own change, that names are only mixed up by the console, and that   *)
(* the folders agree when all is quiet, by Invariant.                      *)
(***************************************************************************)
EXTENDS BoxSync, TLAPS, SequenceTheorems, FiniteSetTheorems

-----------------------------------------------------------------------------
(* Queues. *)

\* Typed queues, and their entries.
LEMMA QueueFacts ==
  ASSUME NEW S, NEW q \in Seq(S)
  PROVE  /\ Len(q) \in Nat /\ DOMAIN q = 1 .. Len(q)
         /\ \A i \in DOMAIN q : q[i] \in S
         /\ q = <<>> <=> Len(q) = 0
  BY ElementOfSeq, LenProperties, EmptySeq

LEMMA AppendFacts ==
  ASSUME NEW S, NEW q \in Seq(S), NEW e \in S
  PROVE  /\ Append(q, e) \in Seq(S)
         /\ DOMAIN Append(q, e) = 1 .. Len(q) + 1
         /\ \A i \in 1 .. Len(q) : Append(q, e)[i] = q[i]
         /\ Append(q, e)[Len(q) + 1] = e
  BY AppendProperties

LEMMA TailFacts ==
  ASSUME NEW S, NEW q \in Seq(S), q # <<>>
  PROVE  /\ Head(q) = q[1] /\ q[1] \in S
         /\ Tail(q) \in Seq(S)
         /\ Len(q) \in Nat \ {0} /\ Len(Tail(q)) = Len(q) - 1
         /\ DOMAIN Tail(q) = 1 .. Len(q) - 1
         /\ \A i \in 1 .. Len(q) - 1 : Tail(q)[i] = q[i + 1]
  BY HeadTailProperties, EmptySeq, LenProperties, ElementOfSeq

\* What the kernel's queue becomes: the event is at its end, and the rest as it was.
Longer(q, e, r) ==
  Len(r) = Len(q) + 1 /\ r[Len(r)] = e /\ \A i \in DOMAIN q : r[i] = q[i]

Merged(q, e, r) ==
  /\ Len(r) = Len(q) /\ q[Len(q)].file = e.file
  /\ r[Len(r)] = e \/ r[Len(r)] = q[Len(q)]
  /\ \A i \in DOMAIN q : i # Len(q) => r[i] = q[i]

LEMMA EnqueueIs ==
  ASSUME NEW q \in Seq(Event), NEW e \in Event, NEW r, r = Enqueue(q, e)
  PROVE  /\ r \in Seq(Event)
         /\ Len(q) \in Nat /\ DOMAIN q = 1 .. Len(q) /\ DOMAIN r = 1 .. Len(r)
         /\ Len(r) \in Nat /\ Len(r) > 0
         /\ Same(r[Len(r)], e)
         /\ Longer(q, e, r) \/ Merged(q, e, r)
<1>0. Len(q) \in Nat /\ DOMAIN q = 1 .. Len(q) /\ (q # <<>> <=> Len(q) > 0)
  BY QueueFacts
<1>1. CASE q # <<>> /\ Same(q[Len(q)], e) /\ e.by = "user"
  <2>1. Len(q) \in 1 .. Len(q)
    BY <1>0, <1>1
  <2>2. r = [q EXCEPT ![Len(q)] = e]
    BY <1>1 DEF Enqueue
  <2>3. r \in Seq(Event) /\ Len(r) = Len(q)
    BY <2>1, <2>2, ExceptSeq
  <2>4. r[Len(q)] = e /\ \A i \in DOMAIN q : i # Len(q) => r[i] = q[i]
    BY <1>0, <2>1, <2>2
  <2>5. q[Len(q)].file = e.file /\ Same(r[Len(r)], e)
    BY <1>1, <2>3, <2>4 DEF Same
  <2>6. Merged(q, e, r)
    BY <2>3, <2>4, <2>5 DEF Merged
  <2> QED
    BY <1>0, <1>1, <2>3, <2>5, <2>6, QueueFacts
<1>2. CASE q # <<>> /\ Same(q[Len(q)], e) /\ e.by # "user"
  <2>1. r = q
    BY <1>2 DEF Enqueue
  <2>2. q[Len(q)].file = e.file
    BY <1>2 DEF Same
  <2>3. Merged(q, e, r)
    BY <2>1, <2>2 DEF Merged
  <2> QED
    BY <1>0, <1>2, <2>1, <2>3
<1>3. CASE ~(q # <<>> /\ Same(q[Len(q)], e))
  <2>1. r = Append(q, e)
    BY <1>3 DEF Enqueue
  <2>2. Len(r) = Len(q) + 1 /\ r \in Seq(Event) /\ r[Len(q) + 1] = e
    BY <2>1, AppendProperties
  <2>3. \A i \in DOMAIN q : r[i] = q[i]
    BY <1>0, <2>1, AppendProperties
  <2>4. Same(e, e)
    BY DEF Same
  <2>5. Longer(q, e, r)
    BY <2>2, <2>3 DEF Longer
  <2> QED
    BY <1>0, <2>2, <2>4, <2>5, QueueFacts
<1> QED
  BY <1>1, <1>2, <1>3

\* The queue keeps its type, and holds nothing but what was put in.
LEMMA EnqueueFacts ==
  ASSUME NEW q \in Seq(Event), NEW e \in Event
  PROVE  /\ Enqueue(q, e) \in Seq(Event)
         /\ \A i \in DOMAIN Enqueue(q, e) :
              Enqueue(q, e)[i] = e \/ (i \in DOMAIN q /\ Enqueue(q, e)[i] = q[i])
<1> DEFINE r == Enqueue(q, e)
<1> HIDE DEF r
<1>1. /\ r \in Seq(Event) /\ DOMAIN r = 1 .. Len(r) /\ DOMAIN q = 1 .. Len(q) /\ Len(q) \in Nat
      /\ Longer(q, e, r) \/ Merged(q, e, r)
  BY EnqueueIs DEF r
<1>2. ASSUME NEW i \in DOMAIN r
      PROVE  r[i] = e \/ (i \in DOMAIN q /\ r[i] = q[i])
  <2>1. CASE Longer(q, e, r)
    BY <1>1, <2>1 DEF Longer
  <2>2. CASE Merged(q, e, r)
    BY <1>1, <2>2 DEF Merged
  <2> QED
    BY <1>1, <2>1, <2>2
<1>3. /\ r \in Seq(Event)
      /\ \A i \in DOMAIN r : r[i] = e \/ (i \in DOMAIN q /\ r[i] = q[i])
  BY <1>1, <1>2
<1> QED
  BY <1>3 DEF r

\* An event for f tells of f, whatever the queue held.
LEMMA EnqueueTells ==
  ASSUME NEW q \in Seq(Event), NEW e \in Event, NEW holds, e.kind = "gone" <=> holds = 0
  PROVE  Tells(Enqueue(q, e), e.file, holds) /\ Mentions(Enqueue(q, e), e.file)
<1> DEFINE r == Enqueue(q, e)
<1> HIDE DEF r
<1>1. /\ r \in Seq(Event) /\ Len(r) > 0
      /\ Same(r[Len(r)], e)
  BY EnqueueIs DEF r
<1>2. DOMAIN r = 1 .. Len(r) /\ Len(r) \in Nat
  BY <1>1, QueueFacts
<1>3. Len(r) \in DOMAIN r /\ r[Len(r)].file = e.file /\ r[Len(r)].kind = e.kind
  BY <1>1, <1>2 DEF Same
<1>4. ASSUME NEW i \in DOMAIN r, LastOf(r, e.file, i)
      PROVE  i = Len(r)
  BY <1>2, <1>3, <1>4 DEF LastOf
<1>5. Tells(r, e.file, holds) /\ Mentions(r, e.file)
  BY <1>3, <1>4 DEF Tells, Mentions
<1> QED
  BY <1>5 DEF r

\* An event for another file changes nothing for f.
LEMMA EnqueueOther ==
  ASSUME NEW q \in Seq(Event), NEW e \in Event, NEW f, e.file # f, NEW holds
  PROVE  /\ Tells(q, f, holds) => Tells(Enqueue(q, e), f, holds)
         /\ Mentions(Enqueue(q, e), f) <=> Mentions(q, f)
<1> DEFINE r == Enqueue(q, e)
<1> HIDE DEF r
<1>1. /\ DOMAIN r = 1 .. Len(r) /\ DOMAIN q = 1 .. Len(q) /\ Len(q) \in Nat
      /\ Same(r[Len(r)], e)
      /\ Longer(q, e, r) \/ Merged(q, e, r)
  BY EnqueueIs DEF r
<1>3. r[Len(r)].file # f
  BY <1>1 DEF Same
<1>4. ASSUME NEW i \in DOMAIN r, r[i].file = f
      PROVE  i \in DOMAIN q /\ q[i] = r[i]
  <2>1. i # Len(r)
    BY <1>3, <1>4
  <2>2. CASE Longer(q, e, r)
    BY <1>1, <2>1, <2>2 DEF Longer
  <2>3. CASE Merged(q, e, r)
    BY <1>1, <2>1, <2>3 DEF Merged
  <2> QED
    BY <1>1, <2>2, <2>3
<1>5. ASSUME NEW i \in DOMAIN q, q[i].file = f
      PROVE  i \in DOMAIN r /\ r[i] = q[i]
  <2>1. q[Len(q)].file = e.file => i # Len(q)
    BY <1>5
  <2>2. CASE Longer(q, e, r)
    BY <1>1, <2>2 DEF Longer
  <2>3. CASE Merged(q, e, r)
    BY <1>1, <2>1, <2>3 DEF Merged
  <2> QED
    BY <1>1, <2>2, <2>3
<1>6. \A i : LastOf(r, f, i) => LastOf(q, f, i) /\ q[i] = r[i]
  BY <1>4, <1>5 DEF LastOf
<1>7. Tells(q, f, holds) => Tells(r, f, holds)
  BY <1>4, <1>6 DEF Tells, LastOf
<1>8. Mentions(r, f) <=> Mentions(q, f)
  BY <1>4, <1>5 DEF Mentions
<1> QED
  BY <1>7, <1>8 DEF r

\* When the first entry is taken, the last one about f stays the last, unless it
\* was the only one.
LEMMA TailLast ==
  ASSUME NEW S, NEW q \in Seq(S), q # <<>>, NEW f
  PROVE  /\ \A i : LastOf(Tail(q), f, i) => LastOf(q, f, i + 1) /\ Tail(q)[i] = q[i + 1]
         /\ Mentions(Tail(q), f) => Mentions(q, f)
         /\ Mentions(q, f) /\ ~Mentions(Tail(q), f) => LastOf(q, f, 1)
<1> DEFINE r == Tail(q)
<1> HIDE DEF r
<1>1. /\ DOMAIN r = 1 .. Len(q) - 1 /\ Len(q) \in Nat \ {0}
      /\ \A i \in 1 .. Len(q) - 1 : r[i] = q[i + 1]
  BY TailFacts DEF r
<1>2. DOMAIN q = 1 .. Len(q)
  BY QueueFacts
<1>3. \A j \in DOMAIN q : j # 1 => j - 1 \in DOMAIN r /\ r[j - 1] = q[j]
  BY <1>1, <1>2
<1>4. ASSUME NEW i, LastOf(r, f, i)
      PROVE  LastOf(q, f, i + 1) /\ r[i] = q[i + 1]
  <2>1. i \in DOMAIN r /\ i + 1 \in DOMAIN q /\ r[i] = q[i + 1]
    BY <1>1, <1>2, <1>4 DEF LastOf
  <2>2. ASSUME NEW j \in DOMAIN q, q[j].file = f
        PROVE  j <= i + 1
    BY <1>1, <1>2, <1>3, <1>4, <2>1, <2>2 DEF LastOf
  <2> QED
    BY <1>4, <2>1, <2>2 DEF LastOf
<1>5. Mentions(r, f) => Mentions(q, f)
  <2>1. \A i \in DOMAIN r : i + 1 \in DOMAIN q /\ r[i] = q[i + 1]
    BY <1>1, <1>2
  <2> QED
    BY <2>1 DEF Mentions
<1>6. Mentions(q, f) /\ ~Mentions(r, f) => LastOf(q, f, 1)
  BY <1>1, <1>2, <1>3 DEF Mentions, LastOf
<1> QED
  BY <1>4, <1>5, <1>6 DEF r

LEMMA TailTells ==
  ASSUME NEW q \in Seq(Event), q # <<>>, NEW f, NEW holds, Tells(q, f, holds)
  PROVE  /\ Tells(Tail(q), f, holds)
         /\ Mentions(Tail(q), f) => Mentions(q, f)
         /\ Mentions(q, f) /\ ~Mentions(Tail(q), f) =>
              q[1].file = f /\ (q[1].kind = "gone" <=> holds = 0)
<1>1. \A i : LastOf(Tail(q), f, i) => LastOf(q, f, i + 1) /\ Tail(q)[i] = q[i + 1]
  BY TailLast
<1>2. \A i : LastOf(q, f, i) => i \in DOMAIN q
  BY DEF LastOf
<1>4. Tells(Tail(q), f, holds)
  BY <1>1, <1>2 DEF Tells
<1>3. LastOf(q, f, 1) => 1 \in DOMAIN q /\ q[1].file = f
  BY DEF LastOf
<1> QED
  BY <1>3, <1>4, TailLast DEF Tells
-----------------------------------------------------------------------------
(* Types. *)
USE DEF box, line, host, past, inotifyKeeps, consoleKeeps, commKeeps

AnyPlace == Place("console") \cup Place("inotify")

\* What may be on its way to a session thread.
Wired == Change \cup {Garbled, [op |-> "exit"]}

\* What files may hold.
LEMMA ContentsAre ==
  /\ 0 \in Contents /\ Outside \in Contents /\ Earlier \in Contents /\ Older \in Contents
  /\ \A n \in 0 .. MaxActs : n \in Contents
<1>1. MaxActs \in Nat
  BY BoxSyncAssumption
<1> QED
  BY <1>1 DEF Contents, Outside, Earlier, Older

\* A thread goes to a place of its own.
LEMMA GotoIs ==
  ASSUME at \in [Box -> [Thread -> AnyPlace]], NEW b \in Box, NEW t \in Thread, NEW place,
         Goto(b, t, place)
  PROVE  \A c \in Box, u \in Thread : at'[c][u] = IF c = b /\ u = t THEN place ELSE at[c][u]
  BY DEF Goto

PlacesOK == \A b \in Box, t \in Thread :
  at[b][t] \in Place(t) /\ (at[b][t] \notin {"send", "finished"} => hand[b][t] = Empty)

LEMMA GotoTypes ==
  ASSUME TypeOK, NEW b \in Box, NEW t \in Thread, NEW place \in Place(t), Goto(b, t, place),
         hand' = hand, place \notin {"send", "finished"} => hand[b][t] = Empty
  PROVE  at' \in [Box -> [Thread -> AnyPlace]] /\ PlacesOK'
<1>1. at \in [Box -> [Thread -> AnyPlace]] /\ PlacesOK
  BY DEF TypeOK, AnyPlace, PlacesOK
<1>2. place \in AnyPlace
  BY DEF AnyPlace, Thread
<1>3. at' \in [Box -> [Thread -> AnyPlace]]
  BY <1>1, <1>2 DEF Goto
<1> QED
  BY <1>1, <1>3, GotoIs DEF PlacesOK

LEMMA WriteTypes ==
  ASSUME TypeOK, NEW b \in Box, NEW f \in File, NEW holds \in Contents,
         NEW by \in {"user", "server"}, Write(b, f, holds, by)
  PROVE  folder' \in [Box -> [File -> Contents]] /\ events' \in [Box -> Seq(Event)]
<1>1. [kind |-> "written", file |-> f, by |-> by] \in Event
  BY DEF Event
<1>2. Enqueue(events[b], [kind |-> "written", file |-> f, by |-> by]) \in Seq(Event)
  BY <1>1, EnqueueFacts DEF TypeOK
<1> QED
  BY <1>2 DEF TypeOK, Write

LEMMA UnlinkTypes ==
  ASSUME TypeOK, NEW b \in Box, NEW f \in File, NEW by \in {"user", "server"}, Unlink(b, f, by)
  PROVE  folder' \in [Box -> [File -> Contents]] /\ events' \in [Box -> Seq(Event)]
<1>1. [kind |-> "gone", file |-> f, by |-> by] \in Event
  BY DEF Event
<1>2. Enqueue(events[b], [kind |-> "gone", file |-> f, by |-> by]) \in Seq(Event)
  BY <1>1, EnqueueFacts DEF TypeOK
<1>3. 0 \in Contents
  BY ContentsAre
<1>4. folder \in [Box -> [File -> Contents]] /\ events \in [Box -> Seq(Event)]
  BY DEF TypeOK
<1>5. CASE folder[b][f] = 0
  BY <1>4, <1>5 DEF Unlink
<1>6. CASE folder[b][f] # 0
  <2>1. folder' = [folder EXCEPT ![b][f] = 0]
    BY <1>6 DEF Unlink
  <2>2. events' = [events EXCEPT ![b] = Enqueue(events[b], [kind |-> "gone", file |-> f, by |-> by])]
    BY <1>6 DEF Unlink
  <2>3. folder' \in [Box -> [File -> Contents]]
    BY <1>3, <1>4, <2>1
  <2> QED
    BY <1>2, <1>4, <2>2, <2>3
<1> QED
  BY <1>5, <1>6

LEMMA PutTypes ==
  ASSUME TypeOK, NEW b \in Box, NEW t \in Thread, NEW command \in Wired, Put(b, t, command)
  PROVE  written' \in [Box -> [Thread -> Seq(Wired)]]
<1>1. written \in [Box -> [Thread -> Seq(Wired)]]
  BY DEF TypeOK, Wired
<1>2. Append(written[b][t], command) \in Seq(Wired)
  BY <1>1, AppendFacts
<1> QED
  BY <1>1, <1>2 DEF Put

\* A command of a thread is on its way to its session thread, whole or not, or is
\* lost, or ends the Box.
LEMMA SendTypes ==
  ASSUME TypeOK, NEW b \in Box, NEW t \in Thread, NEW command \in Change,
         NEW next \in Place(t) \ {"send", "finished"}, Send(b, t, command, next),
         (hand' = hand /\ hand[b][t] = Empty) \/ hand' = [hand EXCEPT ![b][t] = Empty]
  PROVE  /\ written' \in [Box -> [Thread -> Seq(Wired)]] /\ astray' \subseteq Box \X Thread
         /\ at' \in [Box -> [Thread -> AnyPlace]] /\ PlacesOK'
         /\ comm' \in [Box -> Push \cup {Nothing, [op |-> "finished"]}]
<1> DEFINE dies == at' = [at EXCEPT ![b] = [u \in Thread |-> "finished"]]
<1>0. /\ hand \in [Box -> [Thread -> Hand]] /\ PlacesOK
      /\ written \in [Box -> [Thread -> Seq(Wired)]] /\ at \in [Box -> [Thread -> AnyPlace]]
      /\ comm \in [Box -> Push \cup {Nothing, [op |-> "finished"]}] /\ astray \subseteq Box \X Thread
  BY DEF TypeOK, PlacesOK, AnyPlace, Wired
<1>1. /\ After(t) \in Place(t) \ {"send", "finished"}
      /\ "stuck" \in Place(t) \ {"send", "finished"}
  BY DEF After, Place
<1>13. /\ hand \in [Box -> [Thread -> Hand]] /\ b \in Box /\ t \in Thread
       /\ (hand' = hand /\ hand[b][t] = Empty) \/ hand' = [hand EXCEPT ![b][t] = Empty]
  BY <1>0
<1>2. \A c \in Box, u \in Thread : hand'[c][u] = hand[c][u] \/ hand'[c][u] = Empty
  BY ONLY <1>13
<1>3. hand'[b][t] = Empty
  BY ONLY <1>13
<1>4. ASSUME NEW place \in Place(t) \ {"send", "finished"}, Goto(b, t, place)
      PROVE  at' \in [Box -> [Thread -> AnyPlace]] /\ PlacesOK'
  <2>1. place \in AnyPlace
    BY <1>4 DEF AnyPlace, Thread
  <2>2. at' \in [Box -> [Thread -> AnyPlace]]
    BY <1>0, <1>4, <2>1 DEF Goto
  <2>3. \A c \in Box, u \in Thread : at'[c][u] = IF c = b /\ u = t THEN place ELSE at[c][u]
    BY <1>0, <1>4, GotoIs
  <2>4. ASSUME NEW c \in Box, NEW u \in Thread
        PROVE  at'[c][u] \in Place(u) /\ (at'[c][u] \notin {"send", "finished"} => hand'[c][u] = Empty)
    <3>1. at[c][u] \in Place(u) /\ (at[c][u] \notin {"send", "finished"} => hand[c][u] = Empty)
      BY <1>0 DEF PlacesOK
    <3> QED
      BY <1>2, <1>3, <2>3, <3>1
  <2> QED
    BY <2>2, <2>4 DEF PlacesOK
<1>5. ASSUME dies
      PROVE  at' \in [Box -> [Thread -> AnyPlace]] /\ PlacesOK'
  <2>1. "finished" \in AnyPlace /\ \A u \in Thread : "finished" \in Place(u)
    BY DEF AnyPlace, Place
  <2>2. at' \in [Box -> [Thread -> AnyPlace]]
    BY <1>0, <1>5, <2>1
  <2>3. \A c \in Box, u \in Thread : at'[c][u] = IF c = b THEN "finished" ELSE at[c][u]
    BY <1>0, <1>5
  <2>4. ASSUME NEW c \in Box, NEW u \in Thread
        PROVE  at'[c][u] \in Place(u) /\ (at'[c][u] \notin {"send", "finished"} => hand'[c][u] = Empty)
    <3>1. at[c][u] \in Place(u) /\ (at[c][u] \notin {"send", "finished"} => hand[c][u] = Empty)
      BY <1>0 DEF PlacesOK
    <3> QED
      BY <1>2, <2>1, <2>3, <3>1
  <2> QED
    BY <2>2, <2>4 DEF PlacesOK
<1>6. written' \in [Box -> [Thread -> Seq(Wired)]] /\ astray' \subseteq Box \X Thread
  <2>1. command \in Wired /\ Garbled \in Wired
    BY DEF Wired
  <2>2. Put(b, t, command) \/ Put(b, t, Garbled) \/ written' = written
    BY DEF Send
  <2>3. written' \in [Box -> [Thread -> Seq(Wired)]]
    BY <1>0, <2>1, <2>2, PutTypes
  <2>4. astray' = astray \/ astray' = astray \cup {<<b, t>>}
    BY DEF Send
  <2> QED
    BY <1>0, <2>3, <2>4
<1>7. comm' \in [Box -> Push \cup {Nothing, [op |-> "finished"]}]
  BY <1>0 DEF Send
<1>8. at' \in [Box -> [Thread -> AnyPlace]] /\ PlacesOK'
  BY <1>1, <1>4, <1>5 DEF Send
<1> QED
  BY <1>6, <1>7, <1>8

LEMMA InitTypes == Init => TypeOK
<1> SUFFICES ASSUME Init PROVE TypeOK
  OBVIOUS
<1>1. store \in [File -> Contents] /\ folder \in [Box -> [File -> Contents]]
  <2>1. {0, Earlier, Older} \subseteq Contents
    BY ContentsAre
  <2>2. Stored \in [File -> {0, Earlier, Older}] /\ Before \in [Box -> [File -> {0, Earlier, Older}]]
    BY BoxSyncAssumption
  <2>3. store = Stored /\ folder = Before
    BY DEF Init
  <2>4. Stored \in [File -> Contents]
    BY <2>1, <2>2
  <2>5. Before \in [Box -> [File -> Contents]]
    BY <2>1, <2>2
  <2> QED
    BY <2>3, <2>4, <2>5
<1>2. Empty \in Hand /\ Nothing \in Command /\ "idle" \in AnyPlace /\ \A t \in Thread : "idle" \in Place(t)
  BY ContentsAre DEF Empty, Hand, Name, Command, AnyPlace, Place
<1>3. <<>> \in Seq(Event) /\ <<>> \in Seq(Push) /\ <<>> \in Seq(Wired)
  BY EmptySeq
<1>4. acts \in 0 .. MaxActs /\ 0 \in 0 .. MaxAhead
  BY BoxSyncAssumption DEF Init
<1>5. /\ written \in [Box -> [Thread -> Seq(Wired)]] /\ ahead \in [Box -> [Thread -> 0 .. MaxAhead]]
      /\ served \subseteq File /\ astray \subseteq Box \X Thread
  BY <1>3, <1>4 DEF Init
<1>6. /\ at \in [Box -> [Thread -> AnyPlace]] /\ hand \in [Box -> [Thread -> Hand]]
      /\ session \in [Box -> [Thread -> Command]]
      /\ \A b \in Box, t \in Thread : at[b][t] \in Place(t) /\ hand[b][t] = Empty
  BY <1>2 DEF Init
<1>7. /\ events \in [Box -> Seq(Event)] /\ batch \in [Box -> Seq(Event)] /\ pushed \in [Box -> Seq(Push)]
      /\ filename \in [Box -> Name] /\ path \in [Box -> {"none", "sync_dir", "outside"}]
      /\ comm \in [Box -> Push \cup {Nothing, [op |-> "finished"]}]
      /\ source_is_server \in [Box -> BOOLEAN] /\ exiting \in [Box -> BOOLEAN] /\ closed \in [Box -> BOOLEAN]
      /\ typed \subseteq Box /\ writers \in [File -> SUBSET Box] /\ skipped \subseteq File
      /\ echoed \subseteq File /\ unnamed \in BOOLEAN
  BY <1>3 DEF Init, Name
<1> QED
  BY <1>1, <1>4, <1>5, <1>6, <1>7 DEF TypeOK, AnyPlace, Wired

LEMMA UserChangesTypes ==
  ASSUME TypeOK, NEW b \in Box, NEW f \in File, UserChanges(b, f)
  PROVE  TypeOK'
<1>1. acts' \in 0 .. MaxActs /\ acts' \in Contents
  BY BoxSyncAssumption, ContentsAre DEF TypeOK, UserChanges
<1>2. folder' \in [Box -> [File -> Contents]] /\ events' \in [Box -> Seq(Event)]
  BY <1>1, WriteTypes, UnlinkTypes DEF UserChanges
<1>3. writers' \in [File -> SUBSET Box]
  BY DEF TypeOK, UserChanges
<1> QED
  BY <1>1, <1>2, <1>3 DEF TypeOK, UserChanges

LEMMA TypeTypes ==
  ASSUME TypeOK, NEW b \in Box, Type(b)
  PROVE  TypeOK'
<1>1. acts' \in 0 .. MaxActs /\ typed' \subseteq Box
  BY BoxSyncAssumption DEF TypeOK, Type
<1>2. filename' \in [Box -> Name] /\ path' \in [Box -> {"none", "sync_dir", "outside"}]
  <2>1. /\ filename \in [Box -> Name] /\ "none" \in Name /\ File \subseteq Name
        /\ path \in [Box -> {"none", "sync_dir", "outside"}]
    BY DEF TypeOK, Name
  <2>2. \E n \in Name, p \in {"none", "outside"} :
          filename' = [filename EXCEPT ![b] = n] /\ path' = [path EXCEPT ![b] = p]
    BY <2>1 DEF Type
  <2> QED
    BY <2>1, <2>2
<1>3. PICK place \in {"name", "delete", "download", "idle", "exit"} : Goto(b, "console", place)
  BY DEF Type, Goto
<1>4. hand' = hand /\ hand[b]["console"] = Empty
  BY DEF TypeOK, Type, Thread
<1>5. "console" \in Thread /\ place \in Place("console") \ {"send", "finished"}
  BY DEF Thread, Place
<1>6. at' \in [Box -> [Thread -> AnyPlace]] /\ PlacesOK'
  BY <1>3, <1>4, <1>5, GotoTypes
<1> QED
  BY <1>1, <1>2, <1>6 DEF TypeOK, Type, AnyPlace, PlacesOK

LEMMA OpenFileTypes ==
  ASSUME TypeOK, NEW b \in Box, NEW t \in Thread, OpenFile(b, t)
  PROVE  TypeOK'
<1>0. /\ at \in [Box -> [Thread -> AnyPlace]] /\ hand \in [Box -> [Thread -> Hand]]
      /\ PlacesOK /\ filename[b] \in Name
      /\ folder \in [Box -> [File -> Contents]]
  BY DEF TypeOK, AnyPlace, PlacesOK
<1>1. CASE Goto(b, t, After(t)) /\ UNCHANGED hand
  <2>1. After(t) \in Place(t) \ {"send", "finished"} /\ hand[b][t] = Empty
    BY <1>0 DEF After, Place, OpenFile, PlacesOK
  <2>2. at' \in [Box -> [Thread -> AnyPlace]] /\ PlacesOK'
    BY <1>1, <2>1, GotoTypes
  <2> QED
    BY <1>1, <2>2 DEF TypeOK, OpenFile, AnyPlace, PlacesOK
<1>2. ASSUME NEW holds \in Contents, Goto(b, t, "send"),
             hand' = [hand EXCEPT ![b][t] = [file |-> filename[b], holds |-> holds]]
      PROVE  TypeOK'
  <2>1. "send" \in AnyPlace /\ "send" \in Place(t)
    BY DEF AnyPlace, Place
  <2>2. at' \in [Box -> [Thread -> AnyPlace]]
    BY <1>0, <1>2, <2>1 DEF Goto
  <2>3. [file |-> filename[b], holds |-> holds] \in Hand
    BY <1>0 DEF Hand
  <2>4. hand' \in [Box -> [Thread -> Hand]]
    BY <1>0, <1>2, <2>3
  <2>5. \A c \in Box, u \in Thread : ~(c = b /\ u = t) => hand'[c][u] = hand[c][u]
    BY <1>0, <1>2
  <2>6. PlacesOK'
    BY <1>0, <1>2, <2>1, <2>5, GotoIs DEF PlacesOK
  <2> QED
    BY <2>2, <2>4, <2>6 DEF TypeOK, OpenFile, AnyPlace, PlacesOK
<1>3. Outside \in Contents /\ 0 \in Contents
  BY ContentsAre
<1>4. filename[b] # "none" => folder[b][filename[b]] \in Contents
  BY <1>0 DEF Name
<1> DEFINE holds == IF filename[b] = "none" \/ path[b] = "none" THEN 0
                    ELSE IF path[b] = "outside" THEN Outside
                    ELSE folder[b][filename[b]]
<1>5. holds \in Contents
  BY <1>3, <1>4
<1>6. \/ Goto(b, t, After(t)) /\ UNCHANGED hand
      \/ Goto(b, t, "send") /\ hand' = [hand EXCEPT ![b][t] = [file |-> filename[b], holds |-> holds]]
  BY DEF OpenFile
<1> HIDE DEF holds
<1> QED
  BY <1>1, <1>2, <1>5, <1>6

LEMMA SendFileTypes ==
  ASSUME TypeOK, NEW b \in Box, NEW t \in Thread, SendFile(b, t)
  PROVE  TypeOK'
<1>0. /\ hand \in [Box -> [Thread -> Hand]] /\ filename[b] \in Name /\ Empty \in Hand
      /\ ahead \in [Box -> [Thread -> 0 .. MaxAhead]] /\ MaxAhead \in Nat
  BY BoxSyncAssumption, ContentsAre DEF TypeOK, Empty, Hand, Name
<1> DEFINE command == [op |-> "upload", file |-> filename[b], of |-> hand[b][t]]
           next == IF filename[b] = "none" THEN "stuck" ELSE After(t)
<1>1. command \in Change
  BY <1>0 DEF Change
<1>2. next \in Place(t) \ {"send", "finished"}
  BY DEF After, Place
<1>3. Send(b, t, command, next) /\ hand' = [hand EXCEPT ![b][t] = Empty]
  BY DEF SendFile
<1>4. hand' \in [Box -> [Thread -> Hand]]
  BY <1>0, <1>3
<1> HIDE DEF command, next
<1>5. /\ written' \in [Box -> [Thread -> Seq(Wired)]] /\ astray' \subseteq Box \X Thread
      /\ at' \in [Box -> [Thread -> AnyPlace]] /\ PlacesOK'
      /\ comm' \in [Box -> Push \cup {Nothing, [op |-> "finished"]}]
  BY <1>1, <1>2, <1>3, SendTypes
<1>6. exiting' = exiting
  BY DEF SendFile, Send
<1>7. ahead' \in [Box -> [Thread -> 0 .. MaxAhead]]
  <2>1. (IF ahead[b][t] < MaxAhead THEN ahead[b][t] + 1 ELSE ahead[b][t]) \in 0 .. MaxAhead
    BY <1>0
  <2>2. PICK n \in 0 .. MaxAhead : ahead' = [ahead EXCEPT ![b][t] = n]
    BY <1>0, <2>1 DEF SendFile, LeaveAck
  <2> QED
    BY <1>0, <2>2
<1> QED
  BY <1>4, <1>5, <1>6, <1>7 DEF TypeOK, SendFile, AnyPlace, PlacesOK, Wired

LEMMA SendDeleteTypes ==
  ASSUME TypeOK, NEW b \in Box, NEW t \in Thread, SendDelete(b, t)
  PROVE  TypeOK'
<1>0. filename[b] \in Name /\ Empty \in Hand /\ PlacesOK
  BY ContentsAre DEF TypeOK, PlacesOK, Empty, Hand, Name
<1>4. hand[b][t] = Empty
  BY <1>0 DEF PlacesOK, SendDelete
<1> DEFINE command == [op |-> "delete", file |-> filename[b], of |-> Empty]
<1>1. command \in Change
  BY <1>0 DEF Change
<1>2. After(t) \in Place(t) \ {"send", "finished"}
  BY DEF After, Place
<1>3. Send(b, t, command, After(t)) /\ hand' = hand
  BY DEF SendDelete
<1> HIDE DEF command
<1>5. /\ written' \in [Box -> [Thread -> Seq(Wired)]] /\ astray' \subseteq Box \X Thread
      /\ at' \in [Box -> [Thread -> AnyPlace]] /\ PlacesOK'
      /\ comm' \in [Box -> Push \cup {Nothing, [op |-> "finished"]}]
  BY <1>1, <1>2, <1>3, <1>4, SendTypes
<1>6. exiting' = exiting /\ unnamed' \in BOOLEAN
  BY DEF SendDelete, Send, TypeOK
<1> QED
  BY <1>3, <1>5, <1>6 DEF TypeOK, SendDelete, AnyPlace, PlacesOK, Wired

LEMMA InotifyTypes ==
  ASSUME TypeOK, BatchesExamined, NEW b \in Box,
         ReadEvents(b) \/ Examine(b) \/ SetPath(b) \/ EndBatch(b) \/ InotifyFinishes(b)
  PROVE  TypeOK'
<1>0. /\ batch \in [Box -> Seq(Event)] /\ events \in [Box -> Seq(Event)] /\ PlacesOK
      /\ filename \in [Box -> Name] /\ skipped \subseteq File /\ echoed \subseteq File
      /\ path \in [Box -> {"none", "sync_dir", "outside"}]
      /\ source_is_server \in [Box -> BOOLEAN] /\ "inotify" \in Thread
      /\ at \in [Box -> [Thread -> AnyPlace]] /\ hand \in [Box -> [Thread -> Hand]]
  BY DEF TypeOK, PlacesOK, AnyPlace, Thread
<1>1. batch[b] # <<>> => Head(batch[b]) \in Event /\ Tail(batch[b]) \in Seq(Event)
  BY <1>0, TailFacts
<1>2. <<>> \in Seq(Event)
  BY EmptySeq
<1>3. ASSUME NEW place \in {"idle", "examine", "path", "open", "delete"}, Goto(b, "inotify", place), hand' = hand,
             at[b]["inotify"] \in {"idle", "examine", "path"}
      PROVE  at' \in [Box -> [Thread -> AnyPlace]] /\ PlacesOK'
  <2>1. place \in Place("inotify") \ {"send", "finished"} /\ hand[b]["inotify"] = Empty
    BY <1>0, <1>3 DEF Place, PlacesOK
  <2> QED
    BY <1>0, <1>3, <2>1, GotoTypes
<1>4. CASE ReadEvents(b)
  <2>1. at' \in [Box -> [Thread -> AnyPlace]] /\ PlacesOK'
    BY <1>3, <1>4 DEF ReadEvents
  <2>2. batch' \in [Box -> Seq(Event)] /\ events' \in [Box -> Seq(Event)]
    BY <1>0, <1>2, <1>4 DEF ReadEvents
  <2> QED
    BY <1>4, <2>1, <2>2 DEF TypeOK, ReadEvents, AnyPlace, PlacesOK
<1>5. CASE Examine(b)
  <2>1. Head(batch[b]) \in Event /\ Tail(batch[b]) \in Seq(Event) /\ Head(batch[b]).file \in File
    BY <1>1, <1>5 DEF Examine, Event
  <2>2. skipped' \subseteq File /\ echoed' \subseteq File
    BY <1>0, <1>5, <2>1 DEF Examine
  <2>3. batch' \in [Box -> Seq(Event)] /\ filename' \in [Box -> Name]
    BY <1>0, <1>5, <2>1 DEF Examine, Name
  <2>4. at' \in [Box -> [Thread -> AnyPlace]] /\ PlacesOK'
    <3>1. (at' = at /\ hand' = hand) \/ (Goto(b, "inotify", "path") /\ hand' = hand /\ at[b]["inotify"] = "examine")
      BY <1>5 DEF Examine
    <3> QED
      BY <1>0, <1>3, <3>1 DEF PlacesOK
  <2> QED
    BY <1>5, <2>2, <2>3, <2>4 DEF TypeOK, Examine, AnyPlace, PlacesOK
<1>6. CASE SetPath(b)
  <2>1. at' \in [Box -> [Thread -> AnyPlace]] /\ PlacesOK'
    BY <1>3, <1>6 DEF SetPath
  <2>2. path' \in [Box -> {"none", "sync_dir", "outside"}]
    BY <1>0, <1>6 DEF SetPath
  <2>3. batch' \in [Box -> Seq(Event)]
    BY <1>0, <1>1, <1>6 DEF SetPath, BatchesExamined
  <2> QED
    BY <1>6, <2>1, <2>2, <2>3 DEF TypeOK, SetPath, AnyPlace, PlacesOK
<1>7. CASE EndBatch(b)
  <2>1. at' \in [Box -> [Thread -> AnyPlace]] /\ PlacesOK'
    BY <1>3, <1>7 DEF EndBatch
  <2>2. source_is_server' \in [Box -> BOOLEAN]
    BY <1>0, <1>7 DEF EndBatch
  <2> QED
    BY <1>7, <2>1, <2>2 DEF TypeOK, EndBatch, AnyPlace, PlacesOK
<1>8. CASE InotifyFinishes(b)
  <2>1. "finished" \in AnyPlace /\ "finished" \in Place("inotify")
    BY DEF AnyPlace, Place
  <2>2. at' \in [Box -> [Thread -> AnyPlace]]
    BY <1>0, <1>8, <2>1 DEF InotifyFinishes, Goto
  <2>3. \A c \in Box, u \in Thread :
          at'[c][u] = IF c = b /\ u = "inotify" THEN "finished" ELSE at[c][u]
    BY <1>0, <1>8, GotoIs DEF InotifyFinishes
  <2>4. hand' = hand
    BY <1>8 DEF InotifyFinishes
  <2>5. PlacesOK'
    BY <1>0, <2>1, <2>3, <2>4 DEF PlacesOK
  <2> QED
    BY <1>8, <2>2, <2>5 DEF TypeOK, InotifyFinishes, AnyPlace, PlacesOK
<1> QED
  BY <1>4, <1>5, <1>6, <1>7, <1>8

LEMMA SetNameTypes ==
  ASSUME TypeOK, NEW b \in Box, SetName(b)
  PROVE  TypeOK'
<1>1. "console" \in Thread /\ "open" \in Place("console") \ {"send", "finished"}
  BY DEF Thread, Place
<1>2. hand' = hand /\ hand[b]["console"] = Empty /\ Goto(b, "console", "open")
  BY <1>1 DEF TypeOK, SetName
<1>3. at' \in [Box -> [Thread -> AnyPlace]] /\ PlacesOK'
  BY <1>1, <1>2, GotoTypes
<1>4. filename' \in [Box -> Name]
  BY DEF TypeOK, SetName, Name
<1> QED
  BY <1>3, <1>4 DEF TypeOK, SetName, AnyPlace, PlacesOK

LEMMA DownloadTypes ==
  ASSUME TypeOK, NEW b \in Box, Download(b)
  PROVE  TypeOK'
<1>1. "console" \in Thread /\ {"idle", "stuck"} \subseteq Place("console") \ {"send", "finished"}
  BY DEF Thread, Place
<1>2. hand' = hand /\ hand[b]["console"] = Empty
  BY <1>1 DEF TypeOK, Download
<1>3. Goto(b, "console", "idle") \/ Goto(b, "console", "stuck")
  BY DEF Download
<1>4. at' \in [Box -> [Thread -> AnyPlace]] /\ PlacesOK'
  BY <1>1, <1>2, <1>3, GotoTypes
<1>5. astray' \subseteq Box \X Thread
  BY <1>1 DEF TypeOK, Download
<1> QED
  BY <1>4, <1>5 DEF TypeOK, Download, AnyPlace, PlacesOK

LEMMA AnsweredTypes ==
  ASSUME TypeOK, NEW b \in Box, NEW t \in Thread, Answered(b, t)
  PROVE  TypeOK'
<1>1. After(t) \in Place(t) \ {"send", "finished"}
  BY DEF After, Place
<1>2. hand' = hand /\ hand[b][t] = Empty /\ Goto(b, t, After(t))
  BY DEF TypeOK, Answered
<1>3. at' \in [Box -> [Thread -> AnyPlace]] /\ PlacesOK'
  BY <1>1, <1>2, GotoTypes
<1> QED
  BY <1>3 DEF TypeOK, Answered, AnyPlace, PlacesOK

LEMMA SendExitTypes ==
  ASSUME TypeOK, NEW b \in Box, SendExit(b)
  PROVE  TypeOK'
<1>0. /\ at \in [Box -> [Thread -> AnyPlace]] /\ PlacesOK /\ "console" \in Thread
      /\ [op |-> "exit"] \in Wired /\ Garbled \in Wired
      /\ exiting \in [Box -> BOOLEAN] /\ hand' = hand
  BY DEF TypeOK, AnyPlace, PlacesOK, Thread, Wired, SendExit
<1>1. "finished" \in AnyPlace /\ "finished" \in Place("console")
  BY DEF AnyPlace, Place
<1>2. at' \in [Box -> [Thread -> AnyPlace]]
  BY <1>0, <1>1 DEF SendExit, Goto
<1>3. \A c \in Box, u \in Thread :
        at'[c][u] = IF c = b /\ u = "console" THEN "finished" ELSE at[c][u]
  BY <1>0, GotoIs DEF SendExit
<1>4. PlacesOK'
  BY <1>0, <1>1, <1>3 DEF PlacesOK
<1>5. exiting' \in [Box -> BOOLEAN]
  BY <1>0 DEF SendExit
<1>6. written' \in [Box -> [Thread -> Seq(Wired)]]
  <2>1. Put(b, "console", Garbled) \/ Put(b, "console", [op |-> "exit"])
    BY DEF SendExit
  <2> QED
    BY <1>0, <2>1, PutTypes
<1> QED
  BY <1>0, <1>2, <1>4, <1>5, <1>6 DEF TypeOK, SendExit, AnyPlace, PlacesOK, Wired

LEMMA ReceiveCommandTypes ==
  ASSUME TypeOK, NEW b \in Box, ReceiveCommand(b)
  PROVE  TypeOK'
<1>0. /\ pushed \in [Box -> Seq(Push)] /\ source_is_server \in [Box -> BOOLEAN]
      /\ comm \in [Box -> Push \cup {Nothing, [op |-> "finished"]}]
  BY DEF TypeOK
<1>1. pushed[b] # <<>> => Head(pushed[b]) \in Push /\ Tail(pushed[b]) \in Seq(Push)
  BY <1>0, TailFacts
<1>2. source_is_server' \in [Box -> BOOLEAN]
  BY <1>0 DEF ReceiveCommand
<1>3. comm' \in [Box -> Push \cup {Nothing, [op |-> "finished"]}]
  BY <1>0, <1>1 DEF ReceiveCommand
<1>4. pushed' \in [Box -> Seq(Push)]
  BY <1>0, <1>1 DEF ReceiveCommand
<1> QED
  BY <1>2, <1>3, <1>4 DEF TypeOK, ReceiveCommand

LEMMA CarryOutTypes ==
  ASSUME TypeOK, NEW b \in Box, CarryOut(b)
  PROVE  TypeOK'
<1>0. comm \in [Box -> Push \cup {Nothing, [op |-> "finished"]}]
  BY DEF TypeOK
<1>1. comm' \in [Box -> Push \cup {Nothing, [op |-> "finished"]}]
  BY <1>0 DEF CarryOut
<1>2. comm[b] \in Push
  BY <1>0 DEF CarryOut, Nothing
<1>3. folder' \in [Box -> [File -> Contents]] /\ events' \in [Box -> Seq(Event)]
  <2>1. CASE comm[b].file \in File /\ Unlink(b, comm[b].file, "server")
    BY <2>1, UnlinkTypes
  <2>2. CASE comm[b].file \in File /\ Write(b, comm[b].file, comm[b].holds, "server")
    BY <1>2, <2>2, WriteTypes DEF Push
  <2>3. CASE UNCHANGED <<folder, events>>
    BY <2>3 DEF TypeOK
  <2> QED
    BY <2>1, <2>2, <2>3 DEF CarryOut, Perform
<1> QED
  BY <1>1, <1>3 DEF TypeOK, CarryOut

\* What is passed on comes to the end of a box's queue.
LEMMA PassOnTypes ==
  ASSUME TypeOK, NEW b \in Box, NEW c, [op |-> c.send, file |-> c.file, holds |-> c.holds] \in Push,
         PassOn(b, c)
  PROVE  pushed' \in [Box -> Seq(Push)]
<1> DEFINE p == [op |-> c.send, file |-> c.file, holds |-> c.holds]
<1>1. pushed' = [d \in Box |-> IF d \in Receivers(b, c) THEN Append(pushed[d], p) ELSE pushed[d]]
  BY DEF PassOn
<1>2. p \in Push /\ pushed \in [Box -> Seq(Push)]
  BY DEF TypeOK
<1> HIDE DEF p
<1>3. \A d \in Box : Append(pushed[d], p) \in Seq(Push)
  BY <1>2, AppendFacts
<1> QED
  BY <1>1, <1>2, <1>3

LEMMA ReadCommandTypes ==
  ASSUME TypeOK, NEW b \in Box, NEW t \in Thread, ReadCommand(b, t) \/ Misread(b, t)
  PROVE  TypeOK'
<1>0. /\ written \in [Box -> [Thread -> Seq(Wired)]] /\ written[b][t] # <<>>
      /\ session \in [Box -> [Thread -> Command]] /\ store \in [File -> Contents]
  BY DEF TypeOK, Wired, ReadCommand, Misread
<1>1. Head(written[b][t]) \in Wired /\ Tail(written[b][t]) \in Seq(Wired)
  BY <1>0, TailFacts
<1>2. written' \in [Box -> [Thread -> Seq(Wired)]]
  <2>1. written' = [written EXCEPT ![b][t] = Tail(@)]
    BY DEF ReadCommand, Misread
  <2>2. PICK q \in Seq(Wired) : q = Tail(written[b][t])
    BY <1>1
  <2>3. written' = [written EXCEPT ![b][t] = q]
    BY <2>1, <2>2
  <2> QED
    BY <1>0, <2>3
<1>3. CASE ReadCommand(b, t)
  <2>1. Head(written[b][t]) \in Command
    BY <1>1, <1>3 DEF ReadCommand, Wired, Command
  <2>2. session' \in [Box -> [Thread -> Command]]
    BY <1>0, <1>3, <2>1 DEF ReadCommand
  <2> QED
    BY <1>2, <1>3, <2>2 DEF TypeOK, ReadCommand, Wired
<1>4. CASE Misread(b, t)
  <2>1. store' \in [File -> Contents]
    BY <1>0, <1>4, ContentsAre DEF Misread
  <2>2. pushed' \in [Box -> Seq(Push)]
    <3>1. [op |-> "upload", file |-> "none", holds |-> Outside] \in Push
      BY ContentsAre DEF Push, Name
    <3> DEFINE c == [send |-> "upload", file |-> "none", holds |-> Outside]
    <3>2. [op |-> c.send, file |-> c.file, holds |-> c.holds] \in Push
      BY <3>1
    <3>3. pushed' = pushed \/ PassOn(b, c)
      BY <1>4 DEF Misread
    <3> HIDE DEF c
    <3> QED
      BY <3>2, <3>3, PassOnTypes DEF TypeOK
  <2> QED
    BY <1>2, <1>4, <2>1, <2>2 DEF TypeOK, Misread, Wired
<1> QED
  BY <1>3, <1>4

LEMMA SessionTypes ==
  ASSUME TypeOK, NEW b \in Box, SessionStep(b)
  PROVE  TypeOK'
<1>0. /\ session \in [Box -> [Thread -> Command]] /\ Nothing \in Command /\ "console" \in Thread
      /\ store \in [File -> Contents] /\ closed \in [Box -> BOOLEAN]
  BY DEF TypeOK, Command, Thread
<1>1. ASSUME NEW t \in Thread, Store(b, t) PROVE TypeOK'
  <2> DEFINE c == session[b][t]
             n == [op |-> "notify", send |-> c.op, file |-> c.file, holds |-> c.of.holds]
  <2>1. c \in Change
    BY <1>0, <1>1 DEF Store, Command, Nothing
  <2>2. c.op \in {"upload", "delete"} /\ c.file \in Name /\ c.of.holds \in Contents
    BY <2>1 DEF Change, Hand
  <2>3. n \in Command
    BY <2>2 DEF Command
  <2>4. session' = [session EXCEPT ![b][t] = n]
    BY <1>1 DEF Store
  <2> HIDE DEF n
  <2>5. session' \in [Box -> [Thread -> Command]]
    BY <1>0, <2>3, <2>4
  <2>6. store' \in [File -> Contents]
    BY <1>0, <1>1, <2>2 DEF Store
  <2>7. served' \subseteq File
    BY <1>1 DEF TypeOK, Store
  <2> QED
    BY <1>1, <2>5, <2>6, <2>7 DEF TypeOK, Store
<1>2. ASSUME NEW t \in Thread, Notify(b, t) PROVE TypeOK'
  <2> DEFINE c == session[b][t]
             p == [op |-> c.send, file |-> c.file, holds |-> c.holds]
  <2>1. c \in [op : {"notify"}, send : {"upload", "delete"}, file : Name, holds : Contents]
    <3>1. c \in Command /\ c.op = "notify"
      BY <1>0, <1>2 DEF Notify
    <3> QED
      BY <3>1 DEF Command, Change, Nothing
  <2>2. p \in Push
    BY <2>1 DEF Push
  <2>5. pushed' \in [Box -> Seq(Push)]
    BY <1>2, <2>2, PassOnTypes DEF Notify
  <2>6. session' \in [Box -> [Thread -> Command]]
    BY <1>0, <1>2 DEF Notify
  <2> QED
    BY <1>2, <2>5, <2>6 DEF TypeOK, Notify
<1>3. CASE Exit(b)
  <2>1. session' \in [Box -> [Thread -> Command]] /\ closed' \in [Box -> BOOLEAN]
    BY <1>0, <1>3 DEF Exit
  <2> QED
    BY <1>3, <2>1 DEF TypeOK, Exit
<1> QED
  BY <1>1, <1>2, <1>3, ReadCommandTypes DEF SessionStep

-----------------------------------------------------------------------------
(* The kinds of steps. *)

\* What the inotify thread does besides upload_file and delete_file.
Watch(b) == ReadEvents(b) \/ Examine(b) \/ SetPath(b) \/ EndBatch(b) \/ InotifyFinishes(b)

Step(b) ==
  \/ \E f \in File : UserChanges(b, f)
  \/ Type(b) \/ SetName(b) \/ Download(b) \/ SendExit(b) \/ Watch(b)
  \/ \E t \in Thread : OpenFile(b, t) \/ SendFile(b, t) \/ SendDelete(b, t) \/ Answered(b, t)
  \/ ReceiveCommand(b) \/ CarryOut(b)
  \/ \E t \in Thread : ReadCommand(b, t) \/ Misread(b, t) \/ Store(b, t) \/ Notify(b, t)
  \/ Exit(b)

LEMMA NextIs ==
  ASSUME Next
  PROVE  \E b \in Box : Step(b)
<1>1. PICK b \in Box :
        \/ \E f \in File : UserChanges(b, f)
        \/ Type(b) \/ ConsoleStep(b) \/ InotifyStep(b) \/ CommStep(b) \/ SessionStep(b)
        \/ \E t \in Thread : Answered(b, t)
  BY DEF Next
<1>2. "console" \in Thread /\ "inotify" \in Thread
  BY DEF Thread
<1>3. Step(b)
  BY <1>1, <1>2 DEF Step, ConsoleStep, InotifyStep, CommStep, SessionStep, Watch
<1> QED
  BY <1>3

LEMMA TypesKept ==
  ASSUME TypeOK, BatchesExamined, [Next]_vars
  PROVE  TypeOK'
<1>1. CASE Next
  <2>1. PICK b \in Box : Step(b)
    BY <1>1, NextIs
  <2> QED
    BY <2>1, UserChangesTypes, TypeTypes, SetNameTypes, DownloadTypes, AnsweredTypes, SendExitTypes,
       InotifyTypes, OpenFileTypes, SendFileTypes, SendDeleteTypes, ReceiveCommandTypes, CarryOutTypes,
       SessionTypes
    DEF Step, Watch, SessionStep
<1>2. CASE UNCHANGED vars
  BY <1>2 DEF vars, TypeOK
<1> QED
  BY <1>1, <1>2

\* What is on its way to the session threads, and where the client's threads are,
\* when a command is sent.
Puts(b, t, command) ==
  \A c \in Box, u \in Thread :
    written'[c][u] = IF c = b /\ u = t THEN Append(written[b][t], command) ELSE written[c][u]

LEMMA PutIs ==
  ASSUME TypeOK, NEW b \in Box, NEW t \in Thread, NEW command, Put(b, t, command)
  PROVE  Puts(b, t, command)
<1>1. written \in [Box -> [Thread -> Seq(Wired)]]
  BY DEF TypeOK, Wired
<1>2. PICK q : q = Append(written[b][t], command)
  OBVIOUS
<1>3. written' = [written EXCEPT ![b][t] = q]
  BY <1>2 DEF Put
<1>4. \A c \in Box, u \in Thread : written'[c][u] = IF c = b /\ u = t THEN q ELSE written[c][u]
  BY <1>1, <1>3
<1> QED
  BY <1>2, <1>4 DEF Puts

LEMMA SendIs ==
  ASSUME TypeOK, NEW b \in Box, NEW t \in Thread, NEW command, NEW next, Send(b, t, command, next)
  PROVE  \/ /\ ~closed[b] /\ Puts(b, t, command) /\ astray' = astray
            /\ \A c \in Box, u \in Thread :
                 at'[c][u] = IF c = b /\ u = t THEN next ELSE at[c][u]
            /\ comm' = comm
         \/ /\ ~closed[b] /\ Puts(b, t, Garbled) /\ <<b, t>> \in astray'
            /\ \A c \in Box, u \in Thread :
                 at'[c][u] = IF c = b /\ u = t THEN "stuck" ELSE at[c][u]
            /\ comm' = comm
         \/ /\ closed[b] /\ written' = written /\ astray' = astray
            /\ \A c \in Box, u \in Thread : c # b => at'[c][u] = at[c][u]
            /\ \A c \in Box : c # b => comm'[c] = comm[c]
            /\ \/ /\ \A u \in Thread : at'[b][u] = IF u = t THEN After(t) ELSE at[b][u]
                  /\ comm' = comm
               \/ /\ \A u \in Thread : at'[b][u] = "finished"
                  /\ comm'[b] = [op |-> "finished"]
<1>1. /\ at \in [Box -> [Thread -> AnyPlace]]
      /\ comm \in [Box -> Push \cup {Nothing, [op |-> "finished"]}]
  BY DEF TypeOK, AnyPlace
<1>2. CASE ~closed[b] /\ Put(b, t, command) /\ Goto(b, t, next) /\ comm' = comm /\ astray' = astray
  BY <1>1, <1>2, GotoIs, PutIs
<1>5. CASE /\ ~closed[b] /\ Put(b, t, Garbled) /\ Goto(b, t, "stuck") /\ comm' = comm
           /\ astray' = astray \cup {<<b, t>>}
  BY <1>1, <1>5, GotoIs, PutIs
<1>3. CASE closed[b] /\ Goto(b, t, After(t)) /\ written' = written /\ comm' = comm /\ astray' = astray
  BY <1>1, <1>3, GotoIs
<1>4. CASE /\ closed[b] /\ written' = written /\ astray' = astray
           /\ at' = [at EXCEPT ![b] = [u \in Thread |-> "finished"]]
           /\ comm' = [comm EXCEPT ![b] = [op |-> "finished"]]
  BY <1>1, <1>4
<1> QED
  BY <1>2, <1>3, <1>4, <1>5 DEF Send

-----------------------------------------------------------------------------
(* Deletes carry nothing, and batches are examined to their end. *)

Bare(c) == (c.op = "delete" => c.of = Empty) /\ (c.op = "notify" /\ c.send = "delete" => c.holds = 0)
BareSessions == \A b \in Box, t \in Thread : Bare(session[b][t])
BareOf(c)    == c.op = "delete" => c.of = Empty
BareWritten  == \A b \in Box, t \in Thread : \A i \in DOMAIN written[b][t] : BareOf(written[b][t][i])
BareComm     == \A b \in Box : comm[b].op = "delete" => comm[b].holds = 0
BarePushed   == \A b \in Box : \A i \in DOMAIN pushed[b] : pushed[b][i].op = "delete" => pushed[b][i].holds = 0

\* What is on its way to a session thread gets longer by a command of its client,
\* or the session thread takes the first.
LEMMA WrittenIs ==
  ASSUME TypeOK, NEW a \in Box, Step(a), NEW b \in Box, NEW t \in Thread
  PROVE  LET q == written[b][t]
             r == written'[b][t]
         IN \/ r = q
            \/ q # <<>> /\ r = Tail(q)
            \/ \E c \in Wired : BareOf(c) /\ r = Append(q, c)
<1> DEFINE q == written[b][t]
           r == written'[b][t]
           Grows == \E c \in Wired : BareOf(c) /\ r = Append(q, c)
<1>0. /\ written \in [Box -> [Thread -> Seq(Wired)]] /\ hand \in [Box -> [Thread -> Hand]]
      /\ filename[a] \in Name /\ Empty \in Hand
      /\ Garbled \in Wired /\ BareOf(Garbled) /\ [op |-> "exit"] \in Wired /\ BareOf([op |-> "exit"])
      /\ "console" \in Thread
  BY ContentsAre DEF TypeOK, Wired, BareOf, Garbled, Empty, Hand, Name, Thread
<1>1. ASSUME NEW u \in Thread, NEW c \in Wired, BareOf(c), Puts(a, u, c)
      PROVE  r = q \/ Grows
  BY <1>1 DEF Puts
<1>2. ASSUME NEW u \in Thread, NEW c \in Wired, BareOf(c), NEW next, Send(a, u, c, next)
      PROVE  r = q \/ Grows
  BY <1>0, <1>1, <1>2, SendIs
<1>3. ASSUME NEW u \in Thread, SendFile(a, u)
      PROVE  r = q \/ Grows
  <2> DEFINE c == [op |-> "upload", file |-> filename[a], of |-> hand[a][u]]
  <2>1. c \in Wired /\ BareOf(c)
    BY <1>0 DEF Wired, Change, BareOf
  <2>2. \E next : Send(a, u, c, next)
    BY <1>3 DEF SendFile
  <2> HIDE DEF c
  <2> QED
    BY <1>2, <2>1, <2>2
<1>4. ASSUME NEW u \in Thread, SendDelete(a, u)
      PROVE  r = q \/ Grows
  <2> DEFINE c == [op |-> "delete", file |-> filename[a], of |-> Empty]
  <2>1. c \in Wired /\ BareOf(c)
    BY <1>0 DEF Wired, Change, BareOf
  <2>2. Send(a, u, c, After(u))
    BY <1>4 DEF SendDelete
  <2> HIDE DEF c
  <2> QED
    BY <1>2, <2>1, <2>2
<1>5. ASSUME SendExit(a)
      PROVE  r = q \/ Grows
  <2>1. Put(a, "console", Garbled) \/ Put(a, "console", [op |-> "exit"])
    BY <1>5 DEF SendExit
  <2> QED
    BY <1>0, <1>1, <2>1, PutIs
<1>6. ASSUME NEW u \in Thread, ReadCommand(a, u) \/ Misread(a, u)
      PROVE  r = q \/ (q # <<>> /\ r = Tail(q))
  <2>1. written[a][u] # <<>> /\ written' = [written EXCEPT ![a][u] = Tail(@)]
    BY <1>6 DEF ReadCommand, Misread
  <2>2. PICK s : s = Tail(written[a][u])
    OBVIOUS
  <2>3. written' = [written EXCEPT ![a][u] = s]
    BY <2>1, <2>2
  <2>4. written'[b][t] = IF b = a /\ t = u THEN s ELSE written[b][t]
    BY <1>0, <2>3
  <2> QED
    BY <2>1, <2>2, <2>4
<1>7. ASSUME \/ \E f \in File : UserChanges(a, f)
             \/ Type(a) \/ SetName(a) \/ Download(a) \/ Watch(a)
             \/ \E u \in Thread : OpenFile(a, u) \/ Answered(a, u)
             \/ ReceiveCommand(a) \/ CarryOut(a)
             \/ \E u \in Thread : Store(a, u) \/ Notify(a, u)
             \/ Exit(a)
      PROVE  written' = written
  BY <1>7 DEF UserChanges, Type, SetName, Download, Watch, ReadEvents, Examine, SetPath, EndBatch,
     InotifyFinishes, OpenFile, Answered, ReceiveCommand, CarryOut, Store, Notify, Exit
<1> QED
  BY <1>3, <1>4, <1>5, <1>6, <1>7 DEF Step

LEMMA BareWrittenKept ==
  ASSUME TypeOK, BareWritten, NEW a \in Box, Step(a)
  PROVE  BareWritten'
<1>1. ASSUME NEW b \in Box, NEW t \in Thread, NEW i \in DOMAIN written'[b][t]
      PROVE  BareOf(written'[b][t][i])
  <2>0. PICK q, r : q = written[b][t] /\ r = written'[b][t]
    OBVIOUS
  <2>1. q \in Seq(Wired) /\ \A j \in DOMAIN q : BareOf(q[j])
    BY <2>0 DEF TypeOK, Wired, BareWritten
  <2>2. \/ r = q
        \/ q # <<>> /\ r = Tail(q)
        \/ \E c \in Wired : BareOf(c) /\ r = Append(q, c)
    BY <2>0, WrittenIs
  <2>3. i \in DOMAIN r
    BY <1>1, <2>0
  <2>4. CASE q # <<>> /\ r = Tail(q)
    <3>1. i + 1 \in DOMAIN q /\ r[i] = q[i + 1]
      BY <2>1, <2>3, <2>4, TailFacts, QueueFacts
    <3> QED
      BY <2>0, <2>1, <3>1
  <2>5. ASSUME NEW c \in Wired, BareOf(c), r = Append(q, c)
        PROVE  BareOf(r[i])
    <3>1. r[i] = c \/ (i \in DOMAIN q /\ r[i] = q[i])
      BY <2>1, <2>3, <2>5, AppendFacts, QueueFacts
    <3> QED
      BY <2>1, <2>5, <3>1
  <2> QED
    BY <2>0, <2>1, <2>2, <2>3, <2>4, <2>5
<1>2. \A b \in Box, t \in Thread : \A i \in DOMAIN written'[b][t] : BareOf(written'[b][t][i])
  BY <1>1
<1> QED
  BY <1>2 DEF BareWritten, BareOf

LEMMA BareSessionsKept ==
  ASSUME TypeOK, BareSessions, BareWritten, NEW b \in Box, Step(b)
  PROVE  BareSessions'
<1>0. session \in [Box -> [Thread -> Command]] /\ "console" \in Thread
  BY DEF TypeOK, Thread
<1>1. CASE session' = session
  BY <1>1 DEF BareSessions
<1>2. ASSUME NEW t \in Thread, NEW c, Bare(c), session' = [session EXCEPT ![b][t] = c]
      PROVE  BareSessions'
  <2>1. \A d \in Box, u \in Thread : session'[d][u] = IF d = b /\ u = t THEN c ELSE session[d][u]
    BY <1>0, <1>2
  <2> QED
    BY <1>2, <2>1 DEF BareSessions
<1>4. ASSUME NEW t \in Thread, ReadCommand(b, t)
      PROVE  BareSessions'
  <2>0. PICK q, c : q = written[b][t] /\ c = Head(q)
    OBVIOUS
  <2>1. q \in Seq(Wired) /\ q # <<>> /\ session' = [session EXCEPT ![b][t] = c] /\ c # Garbled
    BY <1>4, <2>0 DEF ReadCommand, TypeOK, Wired
  <2>2. c = q[1] /\ 1 \in DOMAIN q /\ c \in Wired
    BY <2>0, <2>1, TailFacts, QueueFacts
  <2>3. BareOf(c)
    BY <2>0, <2>2 DEF BareWritten
  <2>4. Bare(c)
    BY <2>1, <2>2, <2>3 DEF Wired, Change, Bare, BareOf
  <2> QED
    BY <1>2, <2>1, <2>4
<1>5. ASSUME NEW t \in Thread, Store(b, t)
      PROVE  BareSessions'
  <2> DEFINE c == session[b][t]
             n == [op |-> "notify", send |-> c.op, file |-> c.file, holds |-> c.of.holds]
  <2>1. Bare(c) /\ c.op \in {"upload", "delete"}
    BY <1>5 DEF Store, BareSessions
  <2>2. Bare(n)
    BY <2>1 DEF Bare, Empty
  <2>3. session' = [session EXCEPT ![b][t] = n]
    BY <1>5 DEF Store
  <2> HIDE DEF n
  <2> QED
    BY <1>2, <2>2, <2>3
<1>6. Bare(Nothing) /\ Bare([op |-> "exit"])
  BY DEF Bare, Nothing
<1>7. ASSUME NEW t \in Thread, Notify(b, t)
      PROVE  BareSessions'
  BY <1>2, <1>6, <1>7 DEF Notify
<1>8. ASSUME Exit(b)
      PROVE  BareSessions'
  BY <1>0, <1>2, <1>6, <1>8 DEF Exit
<1>9. ASSUME \/ \E f \in File : UserChanges(b, f)
             \/ Type(b) \/ SetName(b) \/ Download(b) \/ SendExit(b) \/ Watch(b)
             \/ \E t \in Thread : OpenFile(b, t) \/ SendFile(b, t) \/ SendDelete(b, t) \/ Answered(b, t)
             \/ ReceiveCommand(b) \/ CarryOut(b)
             \/ \E t \in Thread : Misread(b, t)
      PROVE  session' = session
  BY <1>9 DEF UserChanges, Type, SetName, Download, SendExit, Watch, ReadEvents, Examine, SetPath,
     EndBatch, InotifyFinishes, OpenFile, SendFile, SendDelete, Answered, ReceiveCommand, CarryOut, Misread
<1> QED
  BY <1>1, <1>4, <1>5, <1>7, <1>8, <1>9 DEF Step

LEMMA BareCommKept ==
  ASSUME TypeOK, BareSessions, BareComm, BarePushed, NEW b \in Box, Step(b)
  PROVE  BareComm' /\ BarePushed'
<1>0. /\ comm \in [Box -> Push \cup {Nothing, [op |-> "finished"]}]
      /\ pushed \in [Box -> Seq(Push)] /\ session \in [Box -> [Thread -> Command]]
  BY DEF TypeOK
<1>1. ASSUME NEW c, c.op = "finished" \/ c = Nothing \/ c = comm[b] \/ (c.op = "delete" => c.holds = 0),
             comm' = [comm EXCEPT ![b] = c]
      PROVE  BareComm'
  BY <1>0, <1>1 DEF BareComm, Nothing
<1>2. CASE comm' = comm /\ pushed' = pushed
  BY <1>2 DEF BareComm, BarePushed
<1>3. ASSUME NEW t \in Thread, NEW c, NEW next, Send(b, t, c, next), pushed' = pushed
      PROVE  BareComm' /\ BarePushed'
  <2>1. comm' = comm \/ comm' = [comm EXCEPT ![b] = [op |-> "finished"]]
    BY <1>3 DEF Send
  <2>2. BareComm'
    BY <1>1, <2>1 DEF BareComm
  <2> QED
    BY <1>3, <2>2 DEF BarePushed
<1>4. ASSUME NEW t \in Thread, SendFile(b, t) \/ SendDelete(b, t)
      PROVE  BareComm' /\ BarePushed'
  BY <1>3, <1>4 DEF SendFile, SendDelete
<1>5. CASE ReceiveCommand(b)
  <2>1. CASE pushed[b] # <<>>
    <3>1. /\ Head(pushed[b]) = pushed[b][1] /\ 1 \in DOMAIN pushed[b]
          /\ \A i \in DOMAIN Tail(pushed[b]) : i + 1 \in DOMAIN pushed[b] /\ Tail(pushed[b])[i] = pushed[b][i + 1]
      BY <1>0, <2>1, TailFacts, QueueFacts
    <3>2. comm' = [comm EXCEPT ![b] = Head(pushed[b])] /\ pushed' = [pushed EXCEPT ![b] = Tail(pushed[b])]
      BY <1>5, <2>1 DEF ReceiveCommand
    <3>3. BareComm'
      BY <1>1, <3>1, <3>2 DEF BarePushed
    <3>4. BarePushed'
      BY <1>0, <3>1, <3>2 DEF BarePushed
    <3> QED
      BY <3>3, <3>4
  <2>2. CASE pushed[b] = <<>>
    <3>1. pushed' = pushed /\ comm' = [comm EXCEPT ![b] = IF exiting[b] THEN [op |-> "finished"] ELSE Nothing]
      BY <1>5, <2>2 DEF ReceiveCommand
    <3>2. BareComm'
      BY <1>1, <3>1
    <3> QED
      BY <3>1, <3>2 DEF BarePushed
  <2> QED
    BY <2>1, <2>2
<1>6. CASE CarryOut(b)
  <2>1. pushed' = pushed /\ comm' = [comm EXCEPT ![b] = IF exiting[b] THEN [op |-> "finished"] ELSE Nothing]
    BY <1>6 DEF CarryOut
  <2>2. BareComm'
    BY <1>1, <2>1
  <2> QED
    BY <2>1, <2>2 DEF BarePushed
<1>9. ASSUME NEW c, PassOn(b, c), comm' = comm,
             [op |-> c.send, file |-> c.file, holds |-> c.holds] \in Push,
             c.send = "delete" => c.holds = 0
      PROVE  BareComm' /\ BarePushed'
  <2> DEFINE p == [op |-> c.send, file |-> c.file, holds |-> c.holds]
  <2>3. p \in Push /\ (p.op = "delete" => p.holds = 0)
    BY <1>9
  <2>4. \A d \in Box : pushed'[d] = pushed[d] \/ pushed'[d] = Append(pushed[d], p)
    BY <1>0, <1>9 DEF PassOn
  <2> HIDE DEF p
  <2>5. ASSUME NEW d \in Box, NEW i \in DOMAIN pushed'[d], pushed'[d][i].op = "delete"
        PROVE  pushed'[d][i].holds = 0
    <3>1. /\ DOMAIN Append(pushed[d], p) = 1 .. Len(pushed[d]) + 1
          /\ \A j \in 1 .. Len(pushed[d]) : Append(pushed[d], p)[j] = pushed[d][j]
          /\ Append(pushed[d], p)[Len(pushed[d]) + 1] = p
          /\ Len(pushed[d]) \in Nat /\ DOMAIN pushed[d] = 1 .. Len(pushed[d])
      BY <1>0, <2>3, AppendFacts, QueueFacts
    <3>2. \A j \in DOMAIN pushed[d] : pushed[d][j].op = "delete" => pushed[d][j].holds = 0
      BY DEF BarePushed
    <3>3. pushed'[d][i] = p \/ (i \in DOMAIN pushed[d] /\ pushed'[d][i] = pushed[d][i])
      BY <2>4, <2>5, <3>1
    <3> QED
      BY <2>3, <2>5, <3>2, <3>3
  <2> QED
    BY <1>9, <2>5 DEF BareComm, BarePushed
<1>7. ASSUME NEW t \in Thread, Notify(b, t)
      PROVE  BareComm' /\ BarePushed'
  <2>0. PICK c : c = session[b][t]
    OBVIOUS
  <2>1. c \in Command /\ c.op = "notify" /\ Bare(c)
    BY <1>0, <1>7, <2>0 DEF Notify, BareSessions
  <2>2. c \in [op : {"notify"}, send : {"upload", "delete"}, file : Name, holds : Contents]
    BY <2>1 DEF Command, Change, Nothing
  <2>3. [op |-> c.send, file |-> c.file, holds |-> c.holds] \in Push /\ (c.send = "delete" => c.holds = 0)
    BY <2>1, <2>2 DEF Push, Bare
  <2>4. PassOn(b, c) /\ comm' = comm
    BY <1>7, <2>0 DEF Notify
  <2> QED
    BY <1>9, <2>3, <2>4
<1>10. ASSUME NEW t \in Thread, Misread(b, t)
       PROVE  BareComm' /\ BarePushed'
  <2> DEFINE c == [send |-> "upload", file |-> "none", holds |-> Outside]
  <2>1. [op |-> "upload", file |-> "none", holds |-> Outside] \in Push
    BY ContentsAre DEF Push, Name
  <2>2. [op |-> c.send, file |-> c.file, holds |-> c.holds] \in Push /\ (c.send = "delete" => c.holds = 0)
    BY <2>1
  <2>3. (pushed' = pushed \/ PassOn(b, c)) /\ comm' = comm
    BY <1>10 DEF Misread
  <2> HIDE DEF c
  <2> QED
    BY <1>2, <1>9, <2>2, <2>3
<1>8. ASSUME \/ \E f \in File : UserChanges(b, f)
             \/ Type(b) \/ SetName(b) \/ Download(b) \/ SendExit(b) \/ Watch(b)
             \/ \E t \in Thread : OpenFile(b, t) \/ Answered(b, t) \/ ReadCommand(b, t) \/ Store(b, t)
             \/ Exit(b)
      PROVE  comm' = comm /\ pushed' = pushed
  BY <1>8 DEF UserChanges, Type, SetName, Download, SendExit, Watch, ReadEvents, Examine, SetPath,
     EndBatch, InotifyFinishes, OpenFile, Answered, ReadCommand, Store, Exit
<1> QED
  BY <1>2, <1>4, <1>5, <1>6, <1>7, <1>8, <1>10 DEF Step

LEMMA BatchesKept ==
  ASSUME TypeOK, BatchesExamined, NEW b \in Box, Step(b)
  PROVE  BatchesExamined'
<1>0. /\ at \in [Box -> [Thread -> AnyPlace]] /\ batch \in [Box -> Seq(Event)]
      /\ "console" \in Thread /\ "inotify" \in Thread
  BY DEF TypeOK, AnyPlace, Thread
<1>1. ASSUME batch' = batch,
             \A c \in Box : \/ at'[c]["inotify"] = at[c]["inotify"]
                            \/ at'[c]["inotify"] \notin {"idle", "path"}
      PROVE  BatchesExamined'
  BY <1>1 DEF BatchesExamined
<1>2. ASSUME NEW t \in Thread, NEW c, NEW next, next \notin {"idle", "path"} \/ t = "console",
             Send(b, t, c, next), batch' = batch
      PROVE  BatchesExamined'
  <2>1. t = "inotify" => After(t) \notin {"idle", "path"}
    BY DEF After
  <2>2. \A d \in Box : \/ at'[d]["inotify"] = at[d]["inotify"]
                       \/ at'[d]["inotify"] \notin {"idle", "path"}
    <3>1. \/ \A d \in Box, u \in Thread : at'[d][u] = IF d = b /\ u = t THEN next ELSE at[d][u]
          \/ \A d \in Box, u \in Thread : at'[d][u] = IF d = b /\ u = t THEN "stuck" ELSE at[d][u]
          \/ /\ \A d \in Box, u \in Thread : d # b => at'[d][u] = at[d][u]
             /\ \/ \A u \in Thread : at'[b][u] = IF u = t THEN After(t) ELSE at[b][u]
                \/ \A u \in Thread : at'[b][u] = "finished"
      <4>1. Goto(b, t, next) \/ Goto(b, t, "stuck") \/ Goto(b, t, After(t))
              \/ at' = [at EXCEPT ![b] = [u \in Thread |-> "finished"]]
        BY <1>2 DEF Send
      <4>2. ASSUME NEW place, Goto(b, t, place)
            PROVE  \A d \in Box, u \in Thread : at'[d][u] = IF d = b /\ u = t THEN place ELSE at[d][u]
        BY <1>0, <4>2, GotoIs
      <4>3. ASSUME at' = [at EXCEPT ![b] = [u \in Thread |-> "finished"]]
            PROVE  /\ \A d \in Box, u \in Thread : d # b => at'[d][u] = at[d][u]
                   /\ \A u \in Thread : at'[b][u] = "finished"
        BY <1>0, <4>3
      <4>4. CASE Goto(b, t, next) \/ Goto(b, t, "stuck")
        BY <4>2, <4>4
      <4>5. CASE Goto(b, t, After(t))
        BY <4>2, <4>5
      <4> QED
        BY <4>1, <4>3, <4>4, <4>5
    <3>2. t = "inotify" => next \notin {"idle", "path"}
      BY <1>2
    <3> QED
      BY <1>0, <2>1, <3>1, <3>2
  <2> QED
    BY <1>1, <1>2, <2>2
<1>3. ASSUME NEW t \in Thread, SendFile(b, t) \/ SendDelete(b, t)
      PROVE  BatchesExamined'
  <2>1. t = "inotify" => After(t) = "examine"
    BY DEF After
  <2>2. batch' = batch
    BY <1>3 DEF SendFile, SendDelete
  <2>3. \/ Send(b, t, [op |-> "upload", file |-> filename[b], of |-> hand[b][t]],
                IF filename[b] = "none" THEN "stuck" ELSE After(t))
        \/ Send(b, t, [op |-> "delete", file |-> filename[b], of |-> Empty], After(t))
    BY <1>3 DEF SendFile, SendDelete
  <2> QED
    BY <1>2, <2>1, <2>2, <2>3 DEF Thread
<1>4. ASSUME NEW t \in Thread, NEW place, Goto(b, t, place), batch' = batch,
             t = "console" \/ place \notin {"idle", "path"}
      PROVE  BatchesExamined'
  BY <1>0, <1>1, <1>4, GotoIs
<1>5. ASSUME NEW t \in Thread, OpenFile(b, t) \/ Answered(b, t)
      PROVE  BatchesExamined'
  BY <1>4, <1>5 DEF OpenFile, Answered, After, Thread
<1>6. ASSUME SetName(b) \/ Download(b) \/ SendExit(b)
      PROVE  BatchesExamined'
  BY <1>0, <1>4, <1>6 DEF SetName, Download, SendExit
<1>7. CASE Type(b)
  <2>1. \E place \in {"name", "delete", "download", "idle", "exit"} : Goto(b, "console", place)
    BY <1>7 DEF Type, Goto
  <2> QED
    BY <1>0, <1>4, <1>7, <2>1 DEF Type
<1>8. CASE Watch(b)
  <2>1. CASE ReadEvents(b)
    <3>1. \A c \in Box : c # b => batch'[c] = batch[c]
      BY <1>0, <2>1 DEF ReadEvents
    <3>2. \A c \in Box : at'[c]["inotify"] = IF c = b THEN "examine" ELSE at[c]["inotify"]
      BY <1>0, <2>1, GotoIs DEF ReadEvents
    <3> QED
      BY <3>1, <3>2 DEF BatchesExamined
  <2>2. CASE Examine(b)
    <3>1. \A c \in Box : c # b => batch'[c] = batch[c]
      BY <1>0, <2>2 DEF Examine
    <3>2. \/ at' = at /\ at[b]["inotify"] = "examine"
          \/ /\ batch' = batch /\ batch[b] # <<>>
             /\ \A c \in Box : at'[c]["inotify"] = IF c = b THEN "path" ELSE at[c]["inotify"]
      BY <1>0, <2>2, GotoIs DEF Examine
    <3> QED
      BY <3>1, <3>2 DEF BatchesExamined
  <2>3. CASE SetPath(b)
    <3>1. \A c \in Box : c # b => batch'[c] = batch[c]
      BY <1>0, <2>3 DEF SetPath
    <3>2. \E place \in {"delete", "open"} :
            \A c \in Box : at'[c]["inotify"] = IF c = b THEN place ELSE at[c]["inotify"]
      BY <1>0, <2>3, GotoIs DEF SetPath
    <3> QED
      BY <3>1, <3>2 DEF BatchesExamined
  <2>4. CASE EndBatch(b)
    <3>1. \A c \in Box : at'[c]["inotify"] = IF c = b THEN "idle" ELSE at[c]["inotify"]
      BY <1>0, <2>4, GotoIs DEF EndBatch
    <3> QED
      BY <2>4, <3>1 DEF EndBatch, BatchesExamined
  <2>5. CASE InotifyFinishes(b)
    BY <1>0, <1>4, <2>5 DEF InotifyFinishes
  <2> QED
    BY <1>8, <2>1, <2>2, <2>3, <2>4, <2>5 DEF Watch
<1>9. ASSUME \/ \E f \in File : UserChanges(b, f)
             \/ ReceiveCommand(b) \/ CarryOut(b)
             \/ \E t \in Thread : ReadCommand(b, t) \/ Misread(b, t) \/ Store(b, t) \/ Notify(b, t)
             \/ Exit(b)
      PROVE  BatchesExamined'
  <2>1. batch' = batch /\ at' = at
    BY <1>9 DEF UserChanges, ReceiveCommand, CarryOut, ReadCommand, Misread, Store, Notify, Exit
  <2> QED
    BY <1>1, <2>1
<1> QED
  BY <1>3, <1>5, <1>6, <1>7, <1>8, <1>9 DEF Step

-----------------------------------------------------------------------------
(* What a step leaves alone. *)

\* A box's step changes nothing of another box, except what comes to it.
BoxKept(b) ==
  /\ folder'[b] = folder[b] /\ events'[b] = events[b] /\ batch'[b] = batch[b]
  /\ filename'[b] = filename[b] /\ path'[b] = path[b] /\ at'[b] = at[b] /\ hand'[b] = hand[b]
  /\ comm'[b] = comm[b] /\ exiting'[b] = exiting[b]
  /\ session'[b] = session[b] /\ closed'[b] = closed[b] /\ written'[b] = written[b]

LEMMA OthersKept ==
  ASSUME TypeOK, NEW a \in Box, Step(a), NEW b \in Box, b # a
  PROVE  BoxKept(b)
<1>0. /\ folder \in [Box -> [File -> Contents]]
      /\ events \in [Box -> Seq(Event)] /\ batch \in [Box -> Seq(Event)]
      /\ filename \in [Box -> Name] /\ path \in [Box -> {"none", "sync_dir", "outside"}]
      /\ at \in [Box -> [Thread -> AnyPlace]]
      /\ hand \in [Box -> [Thread -> Hand]] /\ session \in [Box -> [Thread -> Command]]
      /\ comm \in [Box -> Push \cup {Nothing, [op |-> "finished"]}]
      /\ closed \in [Box -> BOOLEAN] /\ exiting \in [Box -> BOOLEAN]
      /\ written \in [Box -> [Thread -> Seq(Wired)]]
  BY DEF TypeOK, AnyPlace, Wired
<1>1. ASSUME NEW f \in File, UserChanges(a, f) PROVE BoxKept(b)
  BY <1>0, <1>1 DEF UserChanges, Write, Unlink, BoxKept
<1>2. ASSUME Type(a) PROVE BoxKept(b)
  <2>1. \E place : at' = [at EXCEPT ![a]["console"] = place]
    BY <1>2 DEF Type, Goto
  <2>2. \E n, p : filename' = [filename EXCEPT ![a] = n] /\ path' = [path EXCEPT ![a] = p]
    BY <1>2 DEF Type
  <2> QED
    BY <1>0, <1>2, <2>1, <2>2 DEF Type, BoxKept
<1>3. ASSUME SetName(a) \/ Download(a) \/ SendExit(a) PROVE BoxKept(b)
  BY <1>0, <1>3 DEF SetName, Download, SendExit, Put, Goto, BoxKept
<1>4. ASSUME Watch(a) PROVE BoxKept(b)
  BY <1>0, <1>4 DEF Watch, ReadEvents, Examine, SetPath, EndBatch, InotifyFinishes, Goto, BoxKept
<1>5. ASSUME NEW t \in Thread, OpenFile(a, t) PROVE BoxKept(b)
  <2>1. hand'[b] = hand[b] /\ at'[b] = at[b]
    BY <1>0, <1>5 DEF OpenFile, Goto
  <2> QED
    BY <1>0, <1>5, <2>1 DEF OpenFile, BoxKept
<1>11. ASSUME NEW t \in Thread, Answered(a, t) PROVE BoxKept(b)
  BY <1>0, <1>11 DEF Answered, Goto, BoxKept
<1>6. ASSUME NEW t \in Thread, NEW c, NEW next, Send(a, t, c, next)
      PROVE  /\ at'[b] = at[b] /\ comm'[b] = comm[b] /\ written'[b] = written[b]
             /\ exiting' = exiting
  BY <1>0, <1>6 DEF Send, Put, Goto
<1>7. ASSUME NEW t \in Thread, SendFile(a, t) \/ SendDelete(a, t) PROVE BoxKept(b)
  <2>1. hand'[b] = hand[b]
    BY <1>0, <1>7 DEF SendFile, SendDelete
  <2>2. /\ at'[b] = at[b] /\ comm'[b] = comm[b] /\ written'[b] = written[b]
        /\ exiting' = exiting
    BY <1>6, <1>7 DEF SendFile, SendDelete
  <2> QED
    BY <1>7, <2>1, <2>2 DEF SendFile, SendDelete, BoxKept
<1>8. ASSUME ReceiveCommand(a) \/ CarryOut(a) PROVE BoxKept(b)
  <2>1. folder'[b] = folder[b] /\ events'[b] = events[b]
    BY <1>0, <1>8 DEF ReceiveCommand, CarryOut, Perform, Write, Unlink
  <2> QED
    BY <1>0, <1>8, <2>1 DEF ReceiveCommand, CarryOut, BoxKept
<1>9. ASSUME NEW t \in Thread, ReadCommand(a, t) \/ Misread(a, t) \/ Store(a, t) \/ Notify(a, t)
      PROVE  BoxKept(b)
  BY <1>0, <1>9 DEF ReadCommand, Misread, Store, Notify, BoxKept
<1>10. ASSUME Exit(a) PROVE BoxKept(b)
  BY <1>0, <1>10 DEF Exit, BoxKept
<1> QED
  BY <1>1, <1>2, <1>3, <1>4, <1>5, <1>7, <1>8, <1>9, <1>10, <1>11 DEF Step

\* Who has changed a file, who has typed, what was echoed or skipped, what the
\* server has changed and which connections are out of step is not forgotten.
Remembered ==
  /\ typed \subseteq typed' /\ echoed \subseteq echoed' /\ skipped \subseteq skipped'
  /\ served \subseteq served' /\ astray \subseteq astray'
  /\ \A f \in File : writers[f] \subseteq writers'[f]

LEMMA HistoryKept ==
  ASSUME TypeOK, NEW a \in Box, Step(a)
  PROVE  Remembered
<1>0. writers \in [File -> SUBSET Box]
  BY DEF TypeOK
<1>1. ASSUME NEW f \in File, UserChanges(a, f) PROVE Remembered
  BY <1>0, <1>1 DEF UserChanges, Remembered
<1>2. ASSUME Type(a) \/ SetName(a) \/ Download(a) \/ SendExit(a) PROVE Remembered
  BY <1>2 DEF Type, SetName, Download, SendExit, Remembered
<1>3. ASSUME Watch(a) PROVE Remembered
  BY <1>3 DEF Watch, ReadEvents, Examine, SetPath, EndBatch, InotifyFinishes, Remembered
<1>4. ASSUME NEW t \in Thread, OpenFile(a, t) \/ SendFile(a, t) \/ SendDelete(a, t) \/ Answered(a, t)
      PROVE  Remembered
  BY <1>4 DEF OpenFile, SendFile, SendDelete, Send, Answered, Remembered
<1>5. ASSUME \/ ReceiveCommand(a) \/ CarryOut(a) \/ Exit(a)
             \/ \E t \in Thread : ReadCommand(a, t) \/ Misread(a, t) \/ Store(a, t) \/ Notify(a, t)
      PROVE  Remembered
  BY <1>5 DEF ReceiveCommand, CarryOut, Exit, ReadCommand, Misread, Store, Notify, Remembered
<1> QED
  BY <1>1, <1>2, <1>3, <1>4, <1>5 DEF Step

LEMMA KnownKept ==
  ASSUME Remembered, NEW b, NEW f \in File
  PROVE  /\ Known(b, f) => Known(b, f)'
         /\ ByOthers(b, f) => ByOthers(b, f)'
  BY DEF Remembered, Known, ByOthers

-----------------------------------------------------------------------------
(* A box where no line was typed, with its connections in step. *)

\* Commands of b's inotify thread.
Owned(b, q) == \A i \in DOMAIN q : q[i].op \in Changing /\ Own(b, q[i])

LEMMA UndisturbedByOthers ==
  ASSUME TypeOK, NEW a \in Box, Step(a), NEW b \in Box, b # a, Undisturbed(b)
  PROVE  Undisturbed(b)'
<1>1. BoxKept(b) /\ Remembered
  BY OthersKept, HistoryKept
<1>2. /\ filename'[b] = filename[b] /\ path'[b] = path[b] /\ at'[b] = at[b] /\ hand'[b] = hand[b] /\ batch'[b] = batch[b]
      /\ session'[b] = session[b] /\ closed'[b] = closed[b] /\ exiting'[b] = exiting[b]
      /\ written'[b] = written[b]
  BY <1>1 DEF BoxKept
<1>3. Own(b, session[b]["inotify"])'
  BY <1>1, <1>2 DEF Undisturbed, Own, Known, Remembered
<1>4. at'[b]["inotify"] \in Working => filename'[b] \in File /\ Known(b, filename[b])'
  BY <1>1, <1>2 DEF Undisturbed, Known, Remembered
<1>5. PICK q : q = written[b]["inotify"]
  OBVIOUS
<1>6. \A i \in DOMAIN q : q[i].op \in Changing /\ Own(b, q[i])'
  BY <1>1, <1>5, KnownKept DEF Undisturbed, Own
<1>7. \A i \in DOMAIN written'[b]["inotify"] :
        written'[b]["inotify"][i].op \in Changing /\ Own(b, written[b]["inotify"][i])'
  BY <1>2, <1>5, <1>6 DEF Own
<1> QED
  BY <1>2, <1>3, <1>4, <1>7 DEF Undisturbed

\* What a thread of b may change while it keeps the rest.
LEMMA UndisturbedUnless ==
  ASSUME NEW b \in Box, Undisturbed(b), Remembered,
         closed'[b] = closed[b] /\ exiting'[b] = exiting[b],
         filename'[b] = filename[b] /\ path'[b] = path[b] /\ batch'[b] = batch[b],
         at'[b]["console"] = at[b]["console"], session'[b]["console"] = session[b]["console"],
         \/ at'[b]["inotify"] = at[b]["inotify"] /\ hand'[b]["inotify"] = hand[b]["inotify"]
         \/ at'[b]["inotify"] = "examine"
         \/ /\ at'[b]["inotify"] = "send" /\ at[b]["inotify"] = "open"
            /\ hand'[b]["inotify"].file = filename[b],
         session'[b]["inotify"] = session[b]["inotify"] \/ Own(b, session'[b]["inotify"]),
         written'[b]["console"] = written[b]["console"],
         written'[b]["inotify"] = written[b]["inotify"] \/ Owned(b, written'[b]["inotify"])
  PROVE  Undisturbed(b)'
<1>1. \A f \in File : Known(b, f) => Known(b, f)'
  BY KnownKept
<1>2. /\ ~closed[b] /\ ~exiting[b] /\ at[b]["console"] = "idle" /\ session[b]["console"] = Nothing
      /\ written[b]["console"] = <<>> /\ Owned(b, written[b]["inotify"])
      /\ at[b]["inotify"] \notin {"stuck", "finished"}
      /\ at[b]["inotify"] \in Working => filename[b] \in File /\ Known(b, filename[b])
      /\ at[b]["inotify"] = "path" => filename[b] = batch[b][1].file
      /\ at[b]["inotify"] = "open" => path[b] = "sync_dir"
      /\ at[b]["inotify"] = "send" => hand[b]["inotify"].file = filename[b]
      /\ Own(b, session[b]["inotify"])
  BY DEF Undisturbed, Owned
<1>7. PICK q : q = written'[b]["inotify"]
  OBVIOUS
<1>8. \A i \in DOMAIN q : q[i].op \in Changing /\ Own(b, q[i])'
  <2>1. Owned(b, q)
    BY <1>2, <1>7
  <2> QED
    BY <1>1, <2>1 DEF Owned, Own
<1>9. \A i \in DOMAIN written'[b]["inotify"] :
        written'[b]["inotify"][i].op \in Changing /\ Own(b, written[b]["inotify"][i])'
  BY <1>7, <1>8 DEF Own
<1>3. Own(b, session[b]["inotify"])'
  <2>1. Own(b, session'[b]["inotify"])
    BY <1>2
  <2> QED
    BY <1>1, <2>1 DEF Own
<1>4. CASE at'[b]["inotify"] = at[b]["inotify"] /\ hand'[b]["inotify"] = hand[b]["inotify"]
  BY <1>1, <1>2, <1>3, <1>4, <1>9 DEF Undisturbed
<1>5. CASE at'[b]["inotify"] = "examine"
  BY <1>1, <1>2, <1>3, <1>5, <1>9 DEF Undisturbed, Working
<1>6. CASE /\ at'[b]["inotify"] = "send" /\ at[b]["inotify"] = "open"
           /\ hand'[b]["inotify"].file = filename[b]
  BY <1>1, <1>2, <1>3, <1>6, <1>9 DEF Undisturbed, Working
<1> QED
  BY <1>4, <1>5, <1>6

LEMMA NoMisread ==
  ASSUME TypeOK, NEW b \in Box, NEW t \in Thread, Undisturbed(b)
  PROVE  ~Misread(b, t)
<1>1. PICK q : q = written[b]["inotify"]
  OBVIOUS
<1>2. q \in Seq(Wired) /\ \A i \in DOMAIN q : q[i].op \in Changing
  BY <1>1 DEF TypeOK, Wired, Thread, Undisturbed
<1>3. q # <<>> => Head(q) # Garbled
  <2>1. q # <<>> => Head(q) = q[1] /\ 1 \in DOMAIN q
    BY <1>2, TailFacts, QueueFacts
  <2> QED
    BY <1>2, <2>1 DEF Garbled, Changing
<1>4. written[b]["console"] = <<>>
  BY DEF Undisturbed
<1> QED
  BY <1>1, <1>3, <1>4 DEF Misread, Thread

LEMMA UndisturbedKept ==
  ASSUME TypeOK, BatchesExamined, UserEvents, NEW b \in Box, Undisturbed(b), Step(b), b \notin Disturbed'
  PROVE  Undisturbed(b)'
<1>0. /\ at \in [Box -> [Thread -> AnyPlace]] /\ session \in [Box -> [Thread -> Command]]
      /\ hand \in [Box -> [Thread -> Hand]] /\ filename \in [Box -> Name] /\ closed \in [Box -> BOOLEAN]
      /\ batch \in [Box -> Seq(Event)] /\ events \in [Box -> Seq(Event)]
      /\ path \in [Box -> {"none", "sync_dir", "outside"}]
      /\ written \in [Box -> [Thread -> Seq(Wired)]]
      /\ "console" \in Thread /\ "inotify" \in Thread /\ "console" # "inotify"
  BY DEF TypeOK, AnyPlace, Thread, Wired
<1>1. Remembered
  BY HistoryKept
<1>2. /\ at[b]["console"] = "idle" /\ session[b]["console"] = Nothing /\ ~closed[b]
      /\ written[b]["console"] = <<>> /\ Owned(b, written[b]["inotify"])
      /\ \A t \in Thread : t # "console" => t = "inotify"
  BY DEF Undisturbed, Owned, Thread
<1>12. \A t \in Thread : <<b, t>> \notin astray' /\ <<b, t>> \notin astray
  BY <1>1 DEF Disturbed, Remembered
<1>13. PICK q : q = written[b]["inotify"]
  OBVIOUS
<1>14. q \in Seq(Wired) /\ Owned(b, q)
  BY <1>0, <1>2, <1>13
<1>16. q # <<>> =>
         /\ Head(q) = q[1] /\ 1 \in DOMAIN q /\ q[1].op \in Changing /\ Own(b, q[1])
         /\ Owned(b, Tail(q))
  <2> SUFFICES ASSUME q # <<>>
               PROVE  /\ Head(q) = q[1] /\ 1 \in DOMAIN q /\ q[1].op \in Changing /\ Own(b, q[1])
                      /\ Owned(b, Tail(q))
    OBVIOUS
  <2>1. Head(q) = q[1] /\ 1 \in DOMAIN q
    BY <1>14, TailFacts, QueueFacts
  <2>2. \A i \in DOMAIN Tail(q) : i + 1 \in DOMAIN q /\ Tail(q)[i] = q[i + 1]
    BY <1>14, TailFacts, QueueFacts
  <2>3. Owned(b, Tail(q))
    BY <1>14, <2>2 DEF Owned
  <2> QED
    BY <1>14, <2>1, <2>3 DEF Owned
<1>17. ASSUME NEW t \in Thread PROVE ~Misread(b, t) /\ ~Answered(b, t)
  BY <1>12, NoMisread DEF Answered
<1>3. ASSUME \/ \E f \in File : UserChanges(b, f)
             \/ ReceiveCommand(b) \/ CarryOut(b)
      PROVE  Undisturbed(b)'
  <2>1. /\ closed' = closed /\ filename' = filename /\ batch' = batch /\ at' = at /\ session' = session
        /\ hand' = hand /\ exiting' = exiting /\ path' = path /\ written' = written
    BY <1>3 DEF UserChanges, ReceiveCommand, CarryOut
  <2> QED
    BY <1>1, <2>1, UndisturbedUnless
<1>4. ~(Type(b) \/ SetName(b) \/ Download(b) \/ SendExit(b) \/ Exit(b))
  <2>1. ~Type(b)
    BY DEF Type, Disturbed
  <2> QED
    BY <1>0, <1>2, <2>1 DEF SetName, Download, SendExit, Exit, Nothing
<1>5. ASSUME NEW t \in Thread,
             \/ OpenFile(b, t) \/ SendFile(b, t) \/ SendDelete(b, t)
             \/ ReadCommand(b, t) \/ Store(b, t) \/ Notify(b, t)
      PROVE  t = "inotify"
  BY <1>2, <1>5 DEF OpenFile, SendFile, SendDelete, ReadCommand, Store, Notify, Nothing
<1>6. ASSUME OpenFile(b, "inotify")
      PROVE  Undisturbed(b)'
  <2>1. \/ Goto(b, "inotify", "examine") /\ hand' = hand
        \/ /\ Goto(b, "inotify", "send")
           /\ \E h : hand' = [hand EXCEPT ![b]["inotify"] = [file |-> filename[b], holds |-> h]]
    BY <1>6 DEF OpenFile, After
  <2>2. \/ at'[b]["inotify"] = "examine"
        \/ /\ at'[b]["inotify"] = "send" /\ at[b]["inotify"] = "open"
           /\ hand'[b]["inotify"].file = filename[b]
    BY <1>0, <1>6, <2>1, GotoIs DEF OpenFile
  <2>3. at'[b]["console"] = at[b]["console"]
    BY <1>0, <2>1, GotoIs
  <2>4. /\ closed' = closed /\ filename' = filename /\ batch' = batch /\ session' = session
        /\ exiting' = exiting /\ path' = path /\ written' = written
    BY <1>6 DEF OpenFile
  <2> QED
    BY <1>1, <2>2, <2>3, <2>4, UndisturbedUnless
<1>7. ASSUME NEW c \in Wired, NEW next, Send(b, "inotify", c, next), next = "examine",
             closed' = closed, filename' = filename, path' = path, batch' = batch, session' = session,
             Own(b, c), c.op \in Changing
      PROVE  Undisturbed(b)'
  <2>1. /\ Puts(b, "inotify", c)
        /\ \A d \in Box, u \in Thread :
             at'[d][u] = IF d = b /\ u = "inotify" THEN "examine" ELSE at[d][u]
    BY <1>0, <1>2, <1>7, <1>12, SendIs
  <2>2. written'[b]["inotify"] = Append(q, c) /\ at'[b]["inotify"] = "examine"
    BY <1>0, <1>13, <2>1 DEF Puts
  <2>3. at'[b]["console"] = at[b]["console"] /\ written'[b]["console"] = written[b]["console"]
    BY <1>0, <2>1 DEF Puts
  <2>4. exiting' = exiting
    BY <1>7 DEF Send
  <2>5. Owned(b, Append(q, c))
    <3>1. \A i \in DOMAIN Append(q, c) : Append(q, c)[i] = c \/ (i \in DOMAIN q /\ Append(q, c)[i] = q[i])
      BY <1>14, AppendFacts, QueueFacts
    <3> QED
      BY <1>7, <1>14, <3>1 DEF Owned
  <2>6. Owned(b, written'[b]["inotify"])
    BY <2>2, <2>5
  <2> QED
    BY <1>1, <1>7, <2>2, <2>3, <2>4, <2>6, UndisturbedUnless
<1>8. ASSUME SendFile(b, "inotify")
      PROVE  Undisturbed(b)'
  <2> DEFINE c == [op |-> "upload", file |-> filename[b], of |-> hand[b]["inotify"]]
  <2>1. filename[b] \in File /\ Known(b, filename[b]) /\ hand[b]["inotify"].file = filename[b]
    BY <1>8 DEF SendFile, Undisturbed, Working
  <2>2. Send(b, "inotify", c, "examine")
    BY <1>8, <2>1, BoxSyncAssumption DEF SendFile, After
  <2>3. Own(b, c) /\ c.op \in Changing
    BY <2>1 DEF Own, Changing
  <2>4. c \in Wired
    BY <1>0 DEF Wired, Change
  <2> QED
    BY <1>7, <1>8, <2>2, <2>3, <2>4 DEF SendFile
<1>9. ASSUME SendDelete(b, "inotify")
      PROVE  Undisturbed(b)'
  <2> DEFINE c == [op |-> "delete", file |-> filename[b], of |-> Empty]
  <2>1. filename[b] \in File /\ Known(b, filename[b])
    BY <1>9 DEF SendDelete, Undisturbed, Working
  <2>2. Send(b, "inotify", c, "examine")
    BY <1>9 DEF SendDelete, After
  <2>3. Own(b, c) /\ c.op \in Changing
    BY <2>1 DEF Own, Changing
  <2>4. c \in Wired
    BY <1>0, ContentsAre DEF Wired, Change, Empty, Hand, Name
  <2> QED
    BY <1>7, <1>9, <2>2, <2>3, <2>4 DEF SendDelete
<1>18. ASSUME ReadCommand(b, "inotify")
       PROVE  Undisturbed(b)'
  <2>1. /\ closed' = closed /\ filename' = filename /\ batch' = batch /\ at' = at /\ hand' = hand
        /\ exiting' = exiting /\ path' = path
    BY <1>18 DEF ReadCommand
  <2>2. session'[b]["console"] = session[b]["console"] /\ written'[b]["console"] = written[b]["console"]
    BY <1>0, <1>18 DEF ReadCommand
  <2>3. q # <<>> /\ session'[b]["inotify"] = Head(q) /\ written'[b]["inotify"] = Tail(q)
    BY <1>0, <1>13, <1>18 DEF ReadCommand
  <2>4. Own(b, session'[b]["inotify"]) /\ Owned(b, written'[b]["inotify"])
    BY <1>16, <2>3
  <2> QED
    BY <1>1, <2>1, <2>2, <2>4, UndisturbedUnless
<1>10. ASSUME Store(b, "inotify") \/ Notify(b, "inotify")
       PROVE  Undisturbed(b)'
  <2>1. /\ closed' = closed /\ filename' = filename /\ batch' = batch /\ at' = at /\ hand' = hand
        /\ exiting' = exiting /\ path' = path /\ written' = written
    BY <1>10 DEF Store, Notify
  <2>2. session'[b]["console"] = session[b]["console"]
    BY <1>0, <1>10 DEF Store, Notify
  <2>3. CASE Notify(b, "inotify")
    <3>1. session'[b]["inotify"] = Nothing
      BY <1>0, <2>3 DEF Notify
    <3>2. Own(b, Nothing)
      BY DEF Nothing, Changing, Own
    <3> QED
      BY <1>1, <2>1, <2>2, <3>1, <3>2, UndisturbedUnless
  <2>4. CASE Store(b, "inotify")
    <3> DEFINE c == session[b]["inotify"]
               n == [op |-> "notify", send |-> c.op, file |-> c.file, holds |-> c.of.holds]
    <3>1. c.op \in Changing
      BY <2>4 DEF Store, Changing
    <3>2. Own(b, n)
      BY <3>1 DEF Undisturbed, Own, Changing
    <3>3. session'[b]["inotify"] = n
      BY <1>0, <2>4 DEF Store
    <3> HIDE DEF n
    <3> QED
      BY <1>1, <2>1, <2>2, <3>2, <3>3, UndisturbedUnless
  <2> QED
    BY <1>10, <2>3, <2>4
<1>11. ASSUME Watch(b)
       PROVE  Undisturbed(b)'
  <2>0. /\ closed' = closed /\ session' = session /\ hand' = hand /\ exiting' = exiting
        /\ at'[b]["console"] = at[b]["console"] /\ written' = written
    BY <1>0, <1>11, GotoIs DEF Watch, ReadEvents, Examine, SetPath, EndBatch, InotifyFinishes
  <2>1. /\ ~closed[b] /\ ~exiting[b] /\ at[b]["console"] = "idle" /\ session[b]["console"] = Nothing
        /\ Own(b, session[b]["inotify"])
        /\ at[b]["inotify"] \in Working => filename[b] \in File /\ Known(b, filename[b])
    BY DEF Undisturbed
  <2>2. Own(b, session[b]["inotify"])'
    BY <1>1, <2>0, <2>1, KnownKept DEF Own
  <2>3. ASSUME NEW place, at'[b]["inotify"] = place,
               \/ place \in {"idle", "examine"}
               \/ /\ place \in {"path", "open", "delete"}
                  /\ place = "open" => path'[b] = "sync_dir"
                  /\ filename'[b] \in File /\ Known(b, filename[b])'
                  /\ place = "path" => filename'[b] = batch'[b][1].file
        PROVE  Undisturbed(b)'
    <3>1. \A i \in DOMAIN q : q[i].op \in Changing /\ Own(b, q[i])'
      BY <1>1, <1>14, KnownKept DEF Owned, Own
    <3>2. \A i \in DOMAIN written'[b]["inotify"] :
            written'[b]["inotify"][i].op \in Changing /\ Own(b, written[b]["inotify"][i])'
      BY <1>13, <2>0, <3>1 DEF Own
    <3>3. written'[b]["console"] = <<>>
      BY <1>2, <2>0
    <3> QED
      BY <2>0, <2>1, <2>2, <2>3, <3>2, <3>3 DEF Undisturbed, Working
  <2>4. CASE ReadEvents(b) \/ EndBatch(b)
    <3>1. at'[b]["inotify"] \in {"idle", "examine"}
      BY <1>0, <2>4, GotoIs DEF ReadEvents, EndBatch
    <3> QED
      BY <2>3, <3>1
  <2>5. CASE Examine(b)
    <3>1. CASE at' = at
      <4>1. at'[b]["inotify"] = "examine"
        BY <2>5, <3>1 DEF Examine
      <4> QED
        BY <2>3, <4>1
    <3>2. CASE /\ Goto(b, "inotify", "path") /\ batch' = batch
               /\ filename' = [filename EXCEPT ![b] = Head(batch[b]).file]
               /\ echoed' = IF Head(batch[b]).by = "server" THEN echoed \cup {Head(batch[b]).file} ELSE echoed
               /\ writers' = writers
      <4>1. batch[b] # <<>>
        BY <2>5 DEF Examine
      <4>2. Head(batch[b]) = batch[b][1] /\ batch[b][1] \in Event /\ 1 \in DOMAIN batch[b]
        BY <1>0, <4>1, TailFacts, QueueFacts
      <4>3. filename'[b] = batch[b][1].file /\ batch[b][1].file \in File
        BY <1>0, <3>2, <4>2 DEF Event
      <4>4. Known(b, filename[b])'
        <5>1. CASE batch[b][1].by = "user"
          BY <3>2, <4>2, <4>3, <5>1 DEF UserEvents, Known
        <5>2. CASE batch[b][1].by = "server"
          BY <3>2, <4>2, <4>3, <5>2 DEF Known
        <5> QED
          BY <4>2, <5>1, <5>2 DEF Event
      <4>5. at'[b]["inotify"] = "path"
        BY <1>0, <3>2, GotoIs
      <4> QED
        BY <2>3, <3>2, <4>3, <4>4, <4>5
    <3> QED
      BY <2>5, <3>1, <3>2 DEF Examine
  <2>6. CASE SetPath(b)
    <3>1. at'[b]["inotify"] \in {"open", "delete"} /\ filename' = filename /\ at[b]["inotify"] = "path"
      BY <1>0, <2>6, GotoIs DEF SetPath
    <3>4. path'[b] = "sync_dir"
      BY <1>0, <2>6 DEF SetPath
    <3>2. filename[b] \in File /\ Known(b, filename[b])
      BY <2>1, <3>1 DEF Working
    <3>3. Known(b, filename[b])'
      BY <1>1, <3>1, <3>2 DEF Known, Remembered
    <3> QED
      BY <2>3, <3>1, <3>2, <3>3, <3>4
  <2>7. ~InotifyFinishes(b)
    BY <2>1 DEF InotifyFinishes
  <2> QED
    BY <1>11, <2>4, <2>5, <2>6, <2>7 DEF Watch
<1> QED
  BY <1>3, <1>4, <1>5, <1>6, <1>8, <1>9, <1>10, <1>11, <1>17, <1>18 DEF Step

-----------------------------------------------------------------------------
(* Where events and commands come from. *)

Queued(b, e) ==
  (\E i \in DOMAIN events[b] : events[b][i] = e) \/ (\E i \in DOMAIN batch[b] : batch[b][i] = e)

\* What is in the two queues was there, or is the event of this step.
LEMMA QueuedFrom ==
  ASSUME TypeOK, BatchesExamined, NEW a \in Box, Step(a), NEW b \in Box, NEW e, Queued(b, e)'
  PROVE  \/ Queued(b, e)
         \/ b = a /\ e.by = "user" /\ e.file \in File /\ UserChanges(a, e.file)
         \/ b = a /\ e.by = "server" /\ comm[a].op \in Changing /\ e.file = comm[a].file
<1>0. events \in [Box -> Seq(Event)] /\ batch \in [Box -> Seq(Event)]
  BY DEF TypeOK
<1>1. CASE events'[b] = events[b] /\ batch'[b] = batch[b]
  BY <1>1 DEF Queued
<1>2. CASE b # a
  BY <1>1, <1>2, OthersKept DEF BoxKept
<1>3. ASSUME NEW f \in File, NEW kind \in {"written", "gone"}, NEW by \in {"user", "server"},
             \/ events'[b] = events[b]
             \/ events'[b] = Enqueue(events[b], [kind |-> kind, file |-> f, by |-> by]),
             batch' = batch
      PROVE  Queued(b, e) \/ (e.by = by /\ e.file = f)
  <2> DEFINE n == [kind |-> kind, file |-> f, by |-> by]
  <2>1. n \in Event /\ n.by = by /\ n.file = f
    BY DEF Event
  <2> HIDE DEF n
  <2>2. \A i \in DOMAIN Enqueue(events[b], n) :
          \/ Enqueue(events[b], n)[i] = n
          \/ i \in DOMAIN events[b] /\ Enqueue(events[b], n)[i] = events[b][i]
    BY <1>0, <2>1, EnqueueFacts
  <2>3. events'[b] = events[b] \/ events'[b] = Enqueue(events[b], n)
    BY <1>3 DEF n
  <2> QED
    BY <1>3, <2>1, <2>2, <2>3 DEF Queued
<1>4. ASSUME b = a, NEW f \in File, UserChanges(a, f)
      PROVE  Queued(b, e) \/ (e.by = "user" /\ e.file = f)
  <2>1. \E kind \in {"written", "gone"} :
          \/ events'[b] = events[b]
          \/ events'[b] = Enqueue(events[b], [kind |-> kind, file |-> f, by |-> "user"])
    BY <1>0, <1>4 DEF UserChanges, Write, Unlink
  <2>2. batch' = batch
    BY <1>4 DEF UserChanges
  <2> QED
    BY <1>3, <2>1, <2>2
<1>5. ASSUME b = a, CarryOut(a)
      PROVE  Queued(b, e) \/ (e.by = "server" /\ comm[a].op \in Changing /\ e.file = comm[a].file)
  <2>1. comm[a].op \in Changing /\ batch' = batch
    BY <1>5 DEF CarryOut, Changing
  <2>2. \/ events'[b] = events[b]
        \/ /\ comm[a].file \in File
           /\ \E kind \in {"written", "gone"} :
                events'[b] = Enqueue(events[b], [kind |-> kind, file |-> comm[a].file, by |-> "server"])
    BY <1>0, <1>5 DEF CarryOut, Perform, Write, Unlink
  <2>3. CASE events'[b] = events[b]
    BY <2>1, <2>3 DEF Queued
  <2> QED
    BY <1>3, <2>1, <2>2, <2>3
<1>6. ASSUME b = a, ReadEvents(a)
      PROVE  Queued(b, e)
  <2>1. batch'[b] = events[b] /\ events'[b] = <<>>
    BY <1>0, <1>6 DEF ReadEvents
  <2>2. DOMAIN (<<>>) = {}
    OBVIOUS
  <2> QED
    BY <2>1, <2>2 DEF Queued
<1>7. ASSUME b = a, Examine(a) \/ SetPath(a)
      PROVE  Queued(b, e)
  <2>1. batch[b] # <<>> /\ events' = events
    BY <1>7 DEF Examine, SetPath, BatchesExamined
  <2>2. batch'[b] = batch[b] \/ batch'[b] = Tail(batch[b])
    BY <1>0, <1>7 DEF Examine, SetPath
  <2>3. \A i \in DOMAIN Tail(batch[b]) : i + 1 \in DOMAIN batch[b] /\ Tail(batch[b])[i] = batch[b][i + 1]
    BY <1>0, <2>1, TailFacts, QueueFacts
  <2> QED
    BY <2>1, <2>2, <2>3 DEF Queued
<1>8. ASSUME \/ Type(a) \/ SetName(a) \/ Download(a) \/ SendExit(a) \/ EndBatch(a) \/ InotifyFinishes(a)
             \/ \E t \in Thread : OpenFile(a, t) \/ SendFile(a, t) \/ SendDelete(a, t) \/ Answered(a, t)
             \/ ReceiveCommand(a)
             \/ \E t \in Thread : ReadCommand(a, t) \/ Misread(a, t) \/ Store(a, t) \/ Notify(a, t)
             \/ Exit(a)
      PROVE  events' = events /\ batch' = batch
  BY <1>8 DEF Type, SetName, Download, SendExit, EndBatch, InotifyFinishes, OpenFile, SendFile,
     SendDelete, Answered, ReceiveCommand, ReadCommand, Misread, Store, Notify, Exit
<1> QED
  BY <1>1, <1>2, <1>4, <1>5, <1>6, <1>7, <1>8 DEF Step, Watch

LEMMA UserEventsKept ==
  ASSUME TypeOK, BatchesExamined, UserEvents, NEW a \in Box, Step(a)
  PROVE  UserEvents'
<1>1. ASSUME NEW b \in Box, NEW e, Queued(b, e)', e.by = "user"
      PROVE  b \in writers'[e.file]
  <2>1. CASE Queued(b, e)
    <3>1. b \in writers[e.file]
      BY <1>1, <2>1 DEF UserEvents, Queued
    <3>2. e.file \in File
      <4>1. e \in Event
        BY <2>1, QueueFacts DEF Queued, TypeOK
      <4> QED
        BY <4>1 DEF Event
    <3> QED
      BY <3>1, <3>2, HistoryKept DEF Remembered
  <2>2. CASE b = a /\ e.file \in File /\ UserChanges(a, e.file)
    BY <2>2 DEF UserChanges, TypeOK
  <2> QED
    BY <1>1, <2>1, <2>2, QueuedFrom
<1>2. ASSUME NEW b \in Box, NEW q \in {events'[b], batch'[b]}, NEW i \in DOMAIN q, q[i].by = "user"
      PROVE  b \in writers'[q[i].file]
  <2>1. Queued(b, q[i])'
    BY <1>2 DEF Queued
  <2> QED
    BY <1>1, <1>2, <2>1
<1> QED
  BY <1>2 DEF UserEvents

\* What a session thread passes on.
Passed(c) == [op |-> c.send, file |-> c.file, holds |-> c.holds]

Takes(b)   == /\ comm[b] = Nothing /\ pushed[b] # <<>>
              /\ comm'[b] = pushed[b][1] /\ pushed'[b] = Tail(pushed[b])
Gets(b, c) == comm'[b] = comm[b] /\ pushed'[b] = Append(pushed[b], Passed(c))

LEMMA PushedIs ==
  ASSUME TypeOK, NEW a \in Box, Step(a), NEW b \in Box
  PROVE  \/ pushed'[b] = pushed[b] /\ (comm'[b] = comm[b] \/ comm'[b].op \notin Changing)
         \/ b = a /\ ReceiveCommand(a) /\ Takes(b)
         \/ \E t \in Thread : Notify(a, t) /\ b \in Receivers(a, session[a][t]) /\ Gets(b, session[a][t])
         \/ \E t \in Thread : Misread(a, t)
<1>0. /\ comm \in [Box -> Push \cup {Nothing, [op |-> "finished"]}] /\ pushed \in [Box -> Seq(Push)]
      /\ Nothing.op \notin Changing /\ [op |-> "finished"].op \notin Changing
  BY DEF TypeOK, Changing, Nothing
<1>1. ASSUME NEW t \in Thread, Notify(a, t)
      PROVE  \/ pushed'[b] = pushed[b] /\ comm'[b] = comm[b]
             \/ b \in Receivers(a, session[a][t]) /\ Gets(b, session[a][t])
  BY <1>0, <1>1 DEF Notify, PassOn, Gets, Passed
<1>2. ASSUME ReceiveCommand(a), b = a
      PROVE  \/ pushed'[b] = pushed[b] /\ comm'[b].op \notin Changing
             \/ Takes(b)
  <2>1. CASE pushed[b] = <<>>
    BY <1>0, <1>2, <2>1 DEF ReceiveCommand
  <2>2. CASE pushed[b] # <<>>
    <3>1. Head(pushed[b]) = pushed[b][1]
      BY <1>0, <2>2, TailFacts
    <3> QED
      BY <1>0, <1>2, <2>2, <3>1 DEF ReceiveCommand, Takes
  <2> QED
    BY <2>1, <2>2
<1>3. ASSUME ReceiveCommand(a), b # a
      PROVE  pushed'[b] = pushed[b] /\ comm'[b] = comm[b]
  BY <1>0, <1>3 DEF ReceiveCommand
<1>4. ASSUME CarryOut(a)
      PROVE  pushed'[b] = pushed[b] /\ (comm'[b] = comm[b] \/ comm'[b].op \notin Changing)
  BY <1>0, <1>4 DEF CarryOut
<1>5. ASSUME NEW t \in Thread, SendFile(a, t) \/ SendDelete(a, t)
      PROVE  pushed'[b] = pushed[b] /\ (comm'[b] = comm[b] \/ comm'[b].op \notin Changing)
  <2>1. comm' = comm \/ comm' = [comm EXCEPT ![a] = [op |-> "finished"]]
    BY <1>5 DEF SendFile, SendDelete, Send
  <2> QED
    BY <1>0, <1>5, <2>1 DEF SendFile, SendDelete
<1>6. ASSUME \/ \E f \in File : UserChanges(a, f)
             \/ Type(a) \/ SetName(a) \/ Download(a) \/ SendExit(a) \/ Watch(a)
             \/ \E t \in Thread : OpenFile(a, t) \/ Answered(a, t) \/ ReadCommand(a, t) \/ Store(a, t)
             \/ Exit(a)
      PROVE  pushed' = pushed /\ comm' = comm
  BY <1>6 DEF UserChanges, Type, SetName, Download, SendExit, Watch, ReadEvents, Examine, SetPath,
     EndBatch, InotifyFinishes, OpenFile, Answered, ReadCommand, Store, Exit
<1> QED
  BY <1>1, <1>2, <1>3, <1>4, <1>5, <1>6 DEF Step

\* Where nothing was typed, only an inotify thread's command is passed on.
LEMMA NotifyIs ==
  ASSUME TypeOK, NEW a \in Box, Undisturbed(a), NEW t \in Thread, Notify(a, t)
  PROVE  LET c == session[a]["inotify"] IN
           /\ t = "inotify" /\ c.op = "notify"
           /\ c.file \in File /\ Known(a, c.file)
           /\ Passed(c) \in Push /\ Passed(c).file = c.file /\ Passed(c).holds = c.holds
<1>1. t = "inotify"
  BY DEF Notify, Undisturbed, Nothing, Thread
<1> DEFINE c == session[a]["inotify"]
<1>2. c.op = "notify" /\ c \in Command
  BY <1>1 DEF Notify, TypeOK
<1>3. c.file \in File /\ Known(a, c.file)
  BY <1>2 DEF Undisturbed, Own
<1>4. c \in [op : {"notify"}, send : {"upload", "delete"}, file : Name, holds : Contents]
  BY <1>2 DEF Command, Change, Nothing
<1>5. Passed(c) \in Push /\ Passed(c).file = c.file /\ Passed(c).holds = c.holds
  BY <1>4 DEF Passed, Push
<1> QED
  BY <1>1, <1>2, <1>3, <1>5

LEMMA ArrivalsKept ==
  ASSUME TypeOK, BatchesExamined, \A b \in Box : Undisturbed(b) /\ Arrivals(b),
         NEW a \in Box, Step(a), NEW b \in Box
  PROVE  Arrivals(b)'
<1>0. /\ comm \in [Box -> Push \cup {Nothing, [op |-> "finished"]}]
      /\ pushed \in [Box -> Seq(Push)] /\ session \in [Box -> [Thread -> Command]]
      /\ Remembered
  BY HistoryKept DEF TypeOK
<1>1. ASSUME NEW q \in {events'[b], batch'[b]}, NEW i \in DOMAIN q, q[i].by = "server"
      PROVE  ByOthers(b, q[i].file)'
  <2> DEFINE e == q[i]
  <2>1. Queued(b, e)' /\ e.by = "server"
    BY <1>1 DEF Queued
  <2> HIDE DEF e
  <2>2. CASE Queued(b, e)
    <3>1. e \in Event
      BY <2>2, QueueFacts DEF Queued, TypeOK
    <3>2. ByOthers(b, e.file) /\ e.file \in File
      BY <2>1, <2>2, <3>1 DEF Queued, Arrivals, Event
    <3> QED
      BY <1>0, <3>2 DEF ByOthers, Remembered, e
  <2>3. CASE b = a /\ comm[a].op \in Changing /\ e.file = comm[a].file
    <3>1. ByOthers(b, e.file) /\ e.file \in File
      BY <2>3 DEF Arrivals
    <3> QED
      BY <1>0, <3>1 DEF ByOthers, Remembered, e
  <2> QED
    BY <2>1, <2>2, <2>3, QueuedFrom
<1>2. ASSUME NEW f \in File, ByOthers(b, f)
      PROVE  ByOthers(b, f)'
  BY <1>0, <1>2, KnownKept
<1> DEFINE Fine(p) == p.file \in File /\ (writers'[p.file] \ {b} # {} \/ p.file \in echoed')
<1>3. \A i \in DOMAIN pushed[b] : Fine(pushed[b][i])
  BY <1>2 DEF Arrivals, ByOthers
<1>4. comm[b].op \in Changing => Fine(comm[b])
  BY <1>2 DEF Arrivals, ByOthers
<1>5. (\A i \in DOMAIN pushed'[b] : Fine(pushed'[b][i])) /\ (comm'[b].op \in Changing => Fine(comm'[b]))
  <2>1. CASE pushed'[b] = pushed[b] /\ (comm'[b] = comm[b] \/ comm'[b].op \notin Changing)
    BY <1>3, <1>4, <2>1
  <2>2. CASE Takes(b)
    <3>1. /\ 1 \in DOMAIN pushed[b]
          /\ \A i \in DOMAIN Tail(pushed[b]) : i + 1 \in DOMAIN pushed[b] /\ Tail(pushed[b])[i] = pushed[b][i + 1]
      BY <1>0, <2>2, TailFacts, QueueFacts DEF Takes
    <3> QED
      BY <1>3, <2>2, <3>1 DEF Takes
  <2>3. ASSUME NEW t \in Thread, Notify(a, t), b \in Receivers(a, session[a][t]), Gets(b, session[a][t])
        PROVE  (\A i \in DOMAIN pushed'[b] : Fine(pushed'[b][i])) /\ (comm'[b].op \in Changing => Fine(comm'[b]))
    <3> DEFINE p == Passed(session[a]["inotify"])
    <3>1. t = "inotify" /\ p \in Push /\ p.file \in File /\ Known(a, p.file)
      BY <2>3, NotifyIs
    <3>2. b # a /\ comm'[b] = comm[b] /\ pushed'[b] = Append(pushed[b], p)
      BY <2>3, <3>1 DEF Receivers, Gets
    <3> HIDE DEF p
    <3>3. Fine(p)
      <4>1. ByOthers(b, p.file)
        BY <3>1, <3>2 DEF Known, ByOthers
      <4> QED
        BY <1>2, <3>1, <4>1 DEF ByOthers
    <3>4. /\ DOMAIN Append(pushed[b], p) = 1 .. Len(pushed[b]) + 1
          /\ \A j \in 1 .. Len(pushed[b]) : Append(pushed[b], p)[j] = pushed[b][j]
          /\ Append(pushed[b], p)[Len(pushed[b]) + 1] = p
          /\ Len(pushed[b]) \in Nat /\ DOMAIN pushed[b] = 1 .. Len(pushed[b])
      BY <1>0, <3>1, AppendFacts, QueueFacts
    <3>5. ASSUME NEW i \in DOMAIN pushed'[b]
          PROVE  pushed'[b][i] = p \/ (i \in DOMAIN pushed[b] /\ pushed'[b][i] = pushed[b][i])
      BY <3>2, <3>4, <3>5
    <3> QED
      BY <1>3, <1>4, <3>2, <3>3, <3>5
  <2> HIDE DEF Fine
  <2> QED
    BY <2>1, <2>2, <2>3, PushedIs, NoMisread
<1>6. /\ \A i \in DOMAIN pushed'[b] : pushed'[b][i].file \in File /\ ByOthers(b, pushed[b][i].file)'
      /\ comm'[b].op \in Changing => comm'[b].file \in File /\ ByOthers(b, comm[b].file)'
  BY <1>5 DEF ByOthers
<1> QED
  BY <1>1, <1>6 DEF Arrivals

-----------------------------------------------------------------------------
(* A file that one user changes, with nothing typed. *)

\* The file, its only writer, and everything known so far.
Sole(w, f) ==
  /\ TypeOK /\ DeletesBare /\ BatchesExamined /\ NothingTyped
  /\ \A b \in Box : Undisturbed(b) /\ Arrivals(b)
  /\ w \in Box /\ f \in File /\ f \notin echoed /\ writers[f] \subseteq {w}

LEMMA SoleFacts ==
  ASSUME NEW w, NEW f, Sole(w, f)
  PROVE  /\ \A b \in Box : Known(b, f) => b = w
         /\ ~ByOthers(w, f)
         /\ comm[w].op \in Changing => comm[w].file # f
         /\ \A b \in Box : b # w =>
              /\ session[b]["inotify"].op \in Changing \cup {"notify"} => session[b]["inotify"].file # f
              /\ at[b]["inotify"] \in Working => filename[b] # f
         /\ \A b \in Box, t \in Thread : ~Misread(b, t)
<1>1. \A b \in Box : Known(b, f) => b = w
  BY DEF Sole, Known
<1>2. ~ByOthers(w, f)
  BY DEF Sole, ByOthers
<1>3. comm[w].op \in Changing => comm[w].file # f
  BY <1>2 DEF Sole, Arrivals
<1>4. \A b \in Box, t \in Thread : ~Misread(b, t)
  BY NoMisread DEF Sole
<1> QED
  BY <1>1, <1>2, <1>3, <1>4 DEF Sole, Undisturbed, Own

\* The server's copy changes only by the writer's session thread, which then has to
\* pass it on.
LEMMA StoreIs ==
  ASSUME NEW w, NEW f, Sole(w, f), NEW a \in Box, Step(a)
  PROVE  LET c == session[w]["inotify"] IN
           \/ /\ store'[f] = store[f] /\ (f \in served' <=> f \in served)
              /\ ~(a = w /\ Store(w, "inotify") /\ c.file = f)
           \/ /\ a = w /\ Store(w, "inotify") /\ c.file = f
              /\ store'[f] = c.of.holds /\ f \in served'
<1>0. store \in [File -> Contents] /\ f \in File /\ w \in Box
  BY DEF Sole, TypeOK
<1>1. ASSUME NEW t \in Thread, Store(a, t)
      PROVE  /\ t = "inotify" /\ session[a]["inotify"].op \in Changing
             /\ a # w => session[a]["inotify"].file # f
  <2>1. Undisturbed(a)
    BY DEF Sole
  <2>2. t = "inotify"
    BY <1>1, <2>1 DEF Store, Undisturbed, Nothing, Thread
  <2>3. session[a]["inotify"].op \in Changing
    BY <1>1, <2>2 DEF Store, Changing
  <2> QED
    BY <2>2, <2>3, SoleFacts
<1>2. ASSUME NEW t \in Thread, Store(a, t)
      PROVE  /\ store'[f] = IF session[a]["inotify"].file = f THEN session[a]["inotify"].of.holds ELSE store[f]
             /\ f \in served' <=> (f \in served \/ session[a]["inotify"].file = f)
  BY <1>0, <1>1, <1>2 DEF Store
<1>3. (\E t \in Thread : Store(a, t)) \/ (store' = store /\ served' = served)
  BY SoleFacts DEF Step, UserChanges, Type, SetName, Download, SendExit, Watch, ReadEvents, Examine,
     SetPath, EndBatch, InotifyFinishes, OpenFile, SendFile, SendDelete, Answered, ReceiveCommand,
     CarryOut, ReadCommand, Notify, Exit
<1>4. CASE a = w /\ Store(w, "inotify") /\ session[w]["inotify"].file = f
  <2>1. "inotify" \in Thread
    BY DEF Thread
  <2> QED
    BY <1>2, <1>4, <2>1
<1>5. CASE ~(a = w /\ Store(w, "inotify") /\ session[w]["inotify"].file = f)
  <2>1. ASSUME NEW t \in Thread, Store(a, t)
        PROVE  store'[f] = store[f] /\ (f \in served' <=> f \in served)
    BY <1>1, <1>2, <1>5, <2>1
  <2> QED
    BY <1>3, <1>5, <2>1
<1> QED
  BY <1>4, <1>5

\* What another box has of the file changes only when the writer's change is
\* passed on to it, ...
LEMMA FolderIs ==
  ASSUME NEW w, NEW f, Sole(w, f), NEW a \in Box, Step(a), writers'[f] \subseteq {w},
         NEW d \in Box, d # w
  PROVE  \/ folder'[d][f] = folder[d][f]
         \/ a = d /\ CarryOut(d) /\ comm[d].file = f
<1>0. folder \in [Box -> [File -> Contents]] /\ f \in File /\ writers \in [File -> SUBSET Box]
  BY DEF Sole, TypeOK
<1>1. CASE a # d
  BY <1>1, OthersKept DEF BoxKept, Sole
<1>2. ASSUME a = d, NEW g \in File, UserChanges(d, g)
      PROVE  folder'[d][f] = folder[d][f]
  <2>1. g # f
    BY <1>0, <1>2 DEF UserChanges
  <2> QED
    BY <1>0, <1>2, <2>1 DEF UserChanges, Write, Unlink
<1>3. ASSUME a = d, CarryOut(d), comm[d].file # f
      PROVE  folder'[d][f] = folder[d][f]
  BY <1>0, <1>3 DEF CarryOut, Perform, Write, Unlink
<1>4. ASSUME \/ Type(a) \/ SetName(a) \/ Download(a) \/ SendExit(a) \/ Watch(a)
             \/ \E t \in Thread : OpenFile(a, t) \/ SendFile(a, t) \/ SendDelete(a, t) \/ Answered(a, t)
             \/ ReceiveCommand(a) \/ Exit(a)
             \/ \E t \in Thread : ReadCommand(a, t) \/ Misread(a, t) \/ Store(a, t) \/ Notify(a, t)
      PROVE  folder' = folder
  BY <1>4 DEF Type, SetName, Download, SendExit, Watch, ReadEvents, Examine, SetPath, EndBatch,
     InotifyFinishes, OpenFile, SendFile, SendDelete, Answered, ReceiveCommand, Exit, ReadCommand,
     Misread, Store, Notify
<1> QED
  BY <1>1, <1>2, <1>3, <1>4 DEF Step

\* ... and then it is what was passed on.
LEMMA CarriedOut ==
  ASSUME NEW w, NEW f, Sole(w, f), NEW d \in Box, CarryOut(d), comm[d].file = f
  PROVE  folder'[d][f] = comm[d].holds /\ comm[d].op \in Changing /\ comm'[d].op \notin Changing
<1>0. /\ folder \in [Box -> [File -> Contents]] /\ f \in File
      /\ comm \in [Box -> Push \cup {Nothing, [op |-> "finished"]}]
      /\ comm[d].op = "delete" => comm[d].holds = 0
  BY DEF Sole, TypeOK, DeletesBare
<1>1. comm[d].op \in Changing /\ comm'[d].op \notin Changing
  BY <1>0 DEF CarryOut, Changing, Nothing
<1>2. CASE comm[d].op = "delete" /\ Unlink(d, f, "server")
  BY <1>0, <1>1, <1>2 DEF Unlink
<1>3. CASE comm[d].op = "upload" /\ Write(d, f, comm[d].holds, "server")
  BY <1>0, <1>1, <1>3 DEF Write
<1> QED
  BY <1>0, <1>1, <1>2, <1>3 DEF CarryOut, Perform

\* What the thread for the server's commands does ends by carrying it out.
LEMMA CommChanges ==
  ASSUME NEW w, NEW f, Sole(w, f), NEW d \in Box, Step(d), comm'[d] # comm[d], comm[d].op \in Changing
  PROVE  CarryOut(d)
<1>1. Undisturbed(d)
  BY DEF Sole
<1>2. ASSUME NEW t \in Thread, SendFile(d, t) \/ SendDelete(d, t) PROVE comm' = comm
  BY <1>1, <1>2 DEF SendFile, SendDelete, Send, Undisturbed
<1>3. ~ReceiveCommand(d)
  BY DEF ReceiveCommand, Nothing, Changing
<1>4. ASSUME \/ \E g \in File : UserChanges(d, g)
             \/ Type(d) \/ SetName(d) \/ Download(d) \/ SendExit(d) \/ Watch(d) \/ Exit(d)
             \/ \E t \in Thread : OpenFile(d, t) \/ Answered(d, t)
             \/ \E t \in Thread : ReadCommand(d, t) \/ Misread(d, t) \/ Store(d, t) \/ Notify(d, t)
      PROVE  comm' = comm
  BY <1>4 DEF UserChanges, Type, SetName, Download, SendExit, Watch, ReadEvents, Examine, SetPath,
     EndBatch, InotifyFinishes, Exit, OpenFile, Answered, ReadCommand, Misread, Store, Notify
<1> QED
  BY <1>2, <1>3, <1>4 DEF Step

\* An entry about another file leaves the last one about f where it is.
LEMMA AppendOther ==
  ASSUME NEW S, NEW q \in Seq(S), NEW p \in S, NEW f, p.file # f
  PROVE  /\ \A i : LastOf(Append(q, p), f, i) => LastOf(q, f, i) /\ Append(q, p)[i] = q[i]
         /\ Mentions(Append(q, p), f) <=> Mentions(q, f)
<1>1. /\ DOMAIN Append(q, p) = 1 .. Len(q) + 1 /\ DOMAIN q = 1 .. Len(q) /\ Len(q) \in Nat
      /\ \A j \in 1 .. Len(q) : Append(q, p)[j] = q[j]
      /\ Append(q, p)[Len(q) + 1] = p
  BY AppendFacts, QueueFacts
<1> DEFINE r == Append(q, p)
<1> HIDE DEF r
<1>2. \A i \in DOMAIN r : r[i].file = f => i \in DOMAIN q /\ r[i] = q[i]
  BY <1>1 DEF r
<1>3. \A i \in DOMAIN q : i \in DOMAIN r /\ r[i] = q[i]
  BY <1>1 DEF r
<1>4. \A i : LastOf(r, f, i) => LastOf(q, f, i) /\ r[i] = q[i]
  BY <1>2, <1>3 DEF LastOf
<1>5. Mentions(r, f) <=> Mentions(q, f)
  BY <1>2, <1>3 DEF Mentions
<1> QED
  BY <1>4, <1>5 DEF r

\* Unless it is the writer's command that comes, a box that receives v goes on so.
LEMMA ReceivingKept ==
  ASSUME NEW w, NEW f, Sole(w, f), NEW a \in Box, Step(a), writers'[f] \subseteq {w},
         NEW d \in Box, d # w, NEW v, Receiving(d, f, v),
         ~(a = w /\ Notify(w, "inotify") /\ session[w]["inotify"].file = f)
  PROVE  Receiving(d, f, v)'
<1>0. /\ comm \in [Box -> Push \cup {Nothing, [op |-> "finished"]}]
      /\ pushed \in [Box -> Seq(Push)]
  BY DEF Sole, TypeOK
<1>1. CASE folder'[d][f] = folder[d][f] /\ pushed'[d] = pushed[d] /\ comm'[d] = comm[d]
  BY <1>1 DEF Receiving
<1>2. CASE Takes(d) /\ folder'[d][f] = folder[d][f]
  <2> DEFINE q == pushed[d]
  <2>1. q \in Seq(Push) /\ q # <<>> /\ q[1] \in Push
    BY <1>0, <1>2, TailFacts DEF Takes
  <2>2. pushed'[d] = Tail(q) /\ comm'[d] = q[1] /\ comm[d].op \notin Changing
    BY <1>2 DEF Takes, Nothing, Changing
  <2>3. q[1].op \in Changing
    BY <2>1 DEF Push, Changing
  <2>4. \A i : LastOf(Tail(q), f, i) => LastOf(q, f, i + 1) /\ Tail(q)[i] = q[i + 1]
    BY <2>1, TailLast
  <2>5. \A i : LastOf(q, f, i) => q[i].holds = v
    BY DEF Receiving, LastOf
  <2>6. \A i \in DOMAIN pushed'[d] : LastOf(pushed'[d], f, i) => pushed'[d][i].holds = v
    BY <2>2, <2>4, <2>5
  <2>7. ASSUME ~Mentions(Tail(q), f)
        PROVE  v = IF q[1].file = f THEN q[1].holds ELSE folder[d][f]
    <3>1. CASE Mentions(q, f)
      <4>1. LastOf(q, f, 1)
        BY <2>1, <2>7, <3>1, TailLast
      <4> QED
        BY <2>5, <4>1 DEF LastOf
    <3>2. CASE ~Mentions(q, f)
      <4>1. 1 \in DOMAIN q
        BY <2>1, TailFacts, QueueFacts
      <4>2. q[1].file # f
        BY <3>2, <4>1 DEF Mentions
      <4> QED
        BY <2>2, <3>2, <4>2 DEF Receiving
    <3> QED
      BY <3>1, <3>2
  <2> HIDE DEF q
  <2> QED
    BY <1>2, <2>2, <2>3, <2>6, <2>7 DEF Receiving
<1>3. CASE pushed'[d] = pushed[d] /\ a = d /\ CarryOut(d) /\ comm[d].file = f
  <2>1. folder'[d][f] = comm[d].holds /\ comm[d].op \in Changing /\ comm'[d].op \notin Changing
    BY <1>3, CarriedOut
  <2> QED
    BY <1>3, <2>1 DEF Receiving
<1>4. CASE folder'[d][f] = folder[d][f] /\ pushed'[d] = pushed[d] /\ comm'[d].op \notin Changing
           /\ (comm[d].op \in Changing => comm[d].file # f)
  BY <1>4 DEF Receiving
<1>5. ASSUME NEW t \in Thread, Notify(a, t), d \in Receivers(a, session[a][t]), Gets(d, session[a][t]),
             folder'[d][f] = folder[d][f]
      PROVE  Receiving(d, f, v)'
  <2> DEFINE q == pushed[d]
             p == Passed(session[a]["inotify"])
  <2>1. Undisturbed(a)
    BY DEF Sole
  <2>2. /\ t = "inotify" /\ session[a]["inotify"].op = "notify"
        /\ p \in Push /\ p.file = session[a]["inotify"].file /\ Known(a, p.file)
    BY <1>5, <2>1, NotifyIs DEF Sole
  <2>3. p.file # f
    BY <1>5, <2>2, SoleFacts
  <2>4. pushed'[d] = Append(q, p) /\ comm'[d] = comm[d] /\ q \in Seq(Push)
    BY <1>0, <1>5, <2>2 DEF Gets
  <2> HIDE DEF p, q
  <2>5. /\ \A i : LastOf(Append(q, p), f, i) => LastOf(q, f, i) /\ Append(q, p)[i] = q[i]
        /\ Mentions(Append(q, p), f) <=> Mentions(q, f)
    BY <2>2, <2>3, <2>4, AppendOther
  <2>6. \A i : LastOf(q, f, i) => i \in DOMAIN q
    BY DEF LastOf
  <2> QED
    BY <1>5, <2>4, <2>5, <2>6 DEF Receiving, q
<1>6. CASE a # d
  <2>1. folder'[d][f] = folder[d][f] /\ comm'[d] = comm[d]
    BY <1>6, OthersKept DEF BoxKept, Sole
  <2> QED
    BY <1>1, <1>5, <1>6, <2>1, PushedIs, SoleFacts DEF Sole
<1>7. CASE a = d /\ ~(CarryOut(d) /\ comm[d].file = f)
  <2>1. folder'[d][f] = folder[d][f]
    BY <1>7, FolderIs
  <2>2. CASE Takes(d)
    BY <1>2, <2>1, <2>2
  <2>3. ASSUME NEW t \in Thread, Notify(a, t)
        PROVE  d \notin Receivers(a, session[a][t])
    BY <1>7 DEF Receivers
  <2>4. CASE pushed'[d] = pushed[d] /\ comm'[d] = comm[d]
    BY <1>1, <2>1, <2>4
  <2>5. CASE pushed'[d] = pushed[d] /\ comm'[d] # comm[d] /\ comm'[d].op \notin Changing
    <3>1. comm[d].op \in Changing => comm[d].file # f
      BY <1>7, <2>5, CommChanges
    <3> QED
      BY <1>4, <2>1, <2>5, <3>1
  <2> QED
    BY <1>7, <2>2, <2>3, <2>4, <2>5, PushedIs, SoleFacts DEF Sole
<1>8. CASE a = d /\ CarryOut(d) /\ comm[d].file = f
  <2>1. pushed'[d] = pushed[d]
    BY <1>8 DEF CarryOut
  <2> QED
    BY <1>3, <1>8, <2>1
<1> QED
  BY <1>6, <1>7, <1>8

\* A command that is appended is the last one.
LEMMA AppendLast ==
  ASSUME NEW S, NEW q \in Seq(S), NEW p \in S
  PROVE  /\ \A i : LastOf(Append(q, p), p.file, i) => Append(q, p)[i] = p
         /\ Mentions(Append(q, p), p.file)
<1>1. /\ DOMAIN Append(q, p) = 1 .. Len(q) + 1 /\ Len(q) \in Nat
      /\ Append(q, p)[Len(q) + 1] = p
  BY AppendFacts, QueueFacts
<1>2. Len(q) + 1 \in DOMAIN Append(q, p)
  BY <1>1
<1>3. ASSUME NEW i, LastOf(Append(q, p), p.file, i)
      PROVE  i = Len(q) + 1
  BY <1>1, <1>2, <1>3 DEF LastOf
<1> QED
  BY <1>1, <1>2, <1>3 DEF Mentions

\* The writer's session thread: what it does to its session.
LEMMA SessionIs ==
  ASSUME NEW w, NEW f, Sole(w, f), NEW a \in Box, Step(a)
  PROVE  LET c == session[w]["inotify"]
             d == session'[w]["inotify"]
         IN \/ d = c
            \/ c = Nothing /\ d.op \in Changing
            \/ /\ a = w /\ Store(w, "inotify") /\ c.op \in Changing
               /\ d.op = "notify" /\ d.file = c.file /\ d.holds = c.of.holds
            \/ a = w /\ Notify(w, "inotify") /\ c.op = "notify" /\ d = Nothing
<1> DEFINE c == session[w]["inotify"]
           d == session'[w]["inotify"]
<1>0. /\ session \in [Box -> [Thread -> Command]] /\ w \in Box /\ "inotify" \in Thread /\ "console" \in Thread
      /\ Undisturbed(w) /\ TypeOK
  BY DEF Sole, TypeOK, Thread
<1>1. ASSUME a # w PROVE d = c
  BY <1>0, <1>1, OthersKept DEF BoxKept
<1>2. ASSUME NEW t \in Thread, ReadCommand(w, t)
      PROVE  c = Nothing /\ d.op \in Changing
  <2>1. t = "inotify"
    BY <1>0, <1>2 DEF ReadCommand, Undisturbed, Thread
  <2>2. PICK q : q = written[w]["inotify"]
    OBVIOUS
  <2>3. q \in Seq(Wired) /\ \A i \in DOMAIN q : q[i].op \in Changing
    BY <1>0, <2>2 DEF TypeOK, Wired, Undisturbed
  <2>4. c = Nothing /\ q # <<>> /\ d = Head(q)
    BY <1>0, <1>2, <2>1, <2>2 DEF ReadCommand
  <2>5. Head(q) = q[1] /\ 1 \in DOMAIN q
    BY <2>3, <2>4, TailFacts, QueueFacts
  <2> QED
    BY <2>3, <2>4, <2>5
<1>3. ASSUME NEW t \in Thread, Store(w, t) \/ Notify(w, t)
      PROVE  t = "inotify"
  BY <1>0, <1>3 DEF Store, Notify, Undisturbed, Nothing, Thread
<1>4. ASSUME Store(w, "inotify")
      PROVE  c.op \in Changing /\ d.op = "notify" /\ d.file = c.file /\ d.holds = c.of.holds
  <2>1. d = [op |-> "notify", send |-> c.op, file |-> c.file, holds |-> c.of.holds]
    BY <1>0, <1>4 DEF Store
  <2> QED
    BY <1>4, <2>1 DEF Store, Changing
<1>5. ASSUME Notify(w, "inotify")
      PROVE  c.op = "notify" /\ d = Nothing
  BY <1>0, <1>5 DEF Notify
<1>6. ~Exit(w) /\ \A t \in Thread : ~Misread(w, t)
  BY <1>0, SoleFacts DEF Exit, Undisturbed, Nothing
<1>7. ASSUME \/ \E g \in File : UserChanges(w, g)
             \/ Type(w) \/ SetName(w) \/ Download(w) \/ SendExit(w)
             \/ Watch(w) \/ ReceiveCommand(w) \/ CarryOut(w)
             \/ \E t \in Thread : OpenFile(w, t) \/ SendFile(w, t) \/ SendDelete(w, t) \/ Answered(w, t)
      PROVE  d = c
  BY <1>7 DEF UserChanges, Type, SetName, Download, SendExit, Watch, ReadEvents, Examine, SetPath,
     EndBatch, InotifyFinishes, ReceiveCommand, CarryOut, OpenFile, SendFile, SendDelete, Answered
<1> HIDE DEF c, d
<1>8. \/ d = c
      \/ c = Nothing /\ d.op \in Changing
      \/ /\ a = w /\ Store(w, "inotify") /\ c.op \in Changing
         /\ d.op = "notify" /\ d.file = c.file /\ d.holds = c.of.holds
      \/ a = w /\ Notify(w, "inotify") /\ c.op = "notify" /\ d = Nothing
  <2>1. CASE a = w
    BY <1>2, <1>3, <1>4, <1>5, <1>6, <1>7, <2>1 DEF Step
  <2> QED
    BY <1>1, <2>1
<1> QED
  BY <1>8 DEF c, d

\* What is stored is passed on.
LEMMA ToldStore ==
  ASSUME NEW w, NEW f, Sole(w, f), NEW a \in Box, Step(a), a = w, Store(w, "inotify"),
         session[w]["inotify"].file = f, NEW d \in Box
  PROVE  Told(w, d, f)'
<1> DEFINE c == session[w]["inotify"]
           n == session'[w]["inotify"]
<1>1. store'[f] = c.of.holds
  BY StoreIs
<1>2. n = [op |-> "notify", send |-> c.op, file |-> c.file, holds |-> c.of.holds]
  BY DEF Store, Sole, TypeOK, Thread
<1>3. n.op = "notify" /\ n.file = f /\ n.holds = store'[f]
  BY <1>1, <1>2
<1> QED
  BY <1>3 DEF Told

LEMMA ToldKept ==
  ASSUME NEW w, NEW f, Sole(w, f), NEW a \in Box, Step(a), writers'[f] \subseteq {w},
         NEW d \in Box, d # w, Told(w, d, f)
  PROVE  Told(w, d, f)'
<1> DEFINE c == session[w]["inotify"]
           n == session'[w]["inotify"]
           Passing(s) == s.op = "notify" /\ s.file = f
<1>1. IF Passing(c) THEN c.holds = store[f] ELSE Receiving(d, f, store[f])
  BY DEF Told
<1> SUFFICES IF Passing(n) THEN n.holds = store'[f] ELSE Receiving(d, f, store[f])'
  BY DEF Told
<1>2. CASE a = w /\ Store(w, "inotify") /\ c.file = f
  BY <1>2, ToldStore DEF Told
<1>3. CASE a = w /\ Notify(w, "inotify") /\ c.file = f
  <2> DEFINE q == pushed[d]
             p == Passed(c)
  <2>0. Undisturbed(w) /\ TypeOK /\ w \in Box /\ Undisturbed(d) /\ "inotify" \in Thread
    BY DEF Sole, Thread
  <2>1. c.op = "notify" /\ p \in Push /\ p.file = c.file /\ p.holds = c.holds
    BY <1>3, <2>0, NotifyIs
  <2>2. n = Nothing /\ store' = store /\ comm' = comm
    BY <1>3, <2>0 DEF Notify, TypeOK
  <2>3. ~closed[d]
    BY <2>0 DEF Undisturbed
  <2>4. pushed'[d] = Append(q, p) /\ q \in Seq(Push)
    BY <1>3, <2>0, <2>3 DEF Notify, PassOn, Receivers, Passed, TypeOK
  <2>5. c.holds = store[f]
    BY <1>1, <1>3, <2>1
  <2> HIDE DEF q, p
  <2>6. /\ \A i : LastOf(Append(q, p), f, i) => Append(q, p)[i] = p
        /\ Mentions(Append(q, p), f)
    <3>1. p.file = f
      BY <1>3, <2>1
    <3>2. /\ \A i : LastOf(Append(q, p), p.file, i) => Append(q, p)[i] = p
          /\ Mentions(Append(q, p), p.file)
      BY <2>1, <2>4, AppendLast
    <3> QED
      BY <3>1, <3>2
  <2>7. Receiving(d, f, store[f])'
    BY <2>1, <2>2, <2>4, <2>5, <2>6 DEF Receiving
  <2>8. ~Passing(n)
    BY <2>2 DEF Nothing
  <2> QED
    BY <2>7, <2>8
<1>4. CASE ~(a = w /\ (Store(w, "inotify") \/ Notify(w, "inotify")) /\ c.file = f)
  <2>1. store'[f] = store[f]
    BY <1>4, StoreIs
  <2>2. Passing(n) <=> Passing(c)
    BY <1>4, SessionIs DEF Nothing, Changing
  <2>3. CASE Passing(c)
    <3>1. n = c
      BY <1>4, <2>3, SessionIs DEF Nothing, Changing
    <3> QED
      BY <1>1, <2>1, <2>3, <3>1
  <2>4. CASE ~Passing(c)
    <3>1. Receiving(d, f, store[f])
      BY <1>1, <2>4
    <3>2. PICK v : v = store[f]
      OBVIOUS
    <3>3. Receiving(d, f, v)
      BY <3>1, <3>2
    <3>4. Receiving(d, f, v)'
      BY <1>4, <2>4, <3>3, ReceivingKept, SoleFacts
    <3>5. Receiving(d, f, store[f])'
      BY <2>1, <3>2, <3>4 DEF Receiving
    <3> QED
      BY <2>2, <2>4, <3>5
  <2> QED
    BY <2>3, <2>4
<1> QED
  BY <1>2, <1>3, <1>4

-----------------------------------------------------------------------------
(* The writer's side. *)

LEMMA UnderwaySameQueues ==
  ASSUME NEW w, NEW f, Underway(w, f),
         events'[w] = events[w], batch'[w] = batch[w], folder'[w][f] = folder[w][f],
         Reached(w, f) => Reached(w, f)'
  PROVE  Underway(w, f)'
<1>1. /\ Tells(events'[w], f, folder'[w][f])
      /\ ~Mentions(events'[w], f) => Tells(batch'[w], f, folder'[w][f])
      /\ ~Mentions(events'[w], f) /\ ~Mentions(batch'[w], f) => Reached(w, f)'
  BY DEF Underway
<1> QED
  BY <1>1 DEF Underway

\* An event of another file comes to the queue.
LEMMA UnderwayOtherEvent ==
  ASSUME NEW w \in Box, NEW f, TypeOK, Underway(w, f),
         NEW e \in Event, e.file # f, events'[w] = Enqueue(events[w], e),
         batch'[w] = batch[w], folder'[w][f] = folder[w][f], Reached(w, f) => Reached(w, f)'
  PROVE  Underway(w, f)'
<1>0. events[w] \in Seq(Event)
  BY DEF TypeOK
<1> DEFINE q == events[w]
           h == folder[w][f]
<1>1. /\ Tells(q, f, h) => Tells(Enqueue(q, e), f, h)
      /\ Mentions(Enqueue(q, e), f) <=> Mentions(q, f)
  BY <1>0, EnqueueOther
<1>2. /\ Tells(events'[w], f, folder'[w][f])
      /\ ~Mentions(events'[w], f) => Tells(batch'[w], f, folder'[w][f])
      /\ ~Mentions(events'[w], f) /\ ~Mentions(batch'[w], f) => Reached(w, f)'
  BY <1>1 DEF Underway
<1> QED
  BY <1>2 DEF Underway

\* An event of the file itself comes, and tells what the folder now holds.
LEMMA UnderwayOwnEvent ==
  ASSUME NEW w \in Box, NEW f, TypeOK, NEW e \in Event, e.file = f,
         events'[w] = Enqueue(events[w], e), e.kind = "gone" <=> folder'[w][f] = 0
  PROVE  Underway(w, f)'
<1>0. events[w] \in Seq(Event)
  BY DEF TypeOK
<1> DEFINE q == events[w]
           h == folder'[w][f]
<1>1. Tells(Enqueue(q, e), e.file, h) /\ Mentions(Enqueue(q, e), e.file)
  BY <1>0, EnqueueTells
<1>2. Tells(events'[w], f, folder'[w][f]) /\ Mentions(events'[w], f)
  BY <1>1
<1> QED
  BY <1>2 DEF Underway

\* The first event of the batch is taken.
LEMMA UnderwayTail ==
  ASSUME NEW w \in Box, NEW f, TypeOK, Underway(w, f), batch[w] # <<>>,
         events'[w] = events[w], batch'[w] = Tail(batch[w]), folder'[w][f] = folder[w][f],
         batch[w][1].file = f /\ (batch[w][1].kind = "gone" <=> folder[w][f] = 0) => Reached(w, f)',
         batch[w][1].file # f /\ Reached(w, f) => Reached(w, f)'
  PROVE  Underway(w, f)'
<1> DEFINE q == batch[w]
           h == folder[w][f]
<1>0. q \in Seq(Event) /\ 1 \in DOMAIN q
  BY TailFacts, QueueFacts DEF TypeOK
<1>1. Tells(q, f, h) =>
        /\ Tells(Tail(q), f, h)
        /\ Mentions(Tail(q), f) => Mentions(q, f)
        /\ Mentions(q, f) /\ ~Mentions(Tail(q), f) =>
             q[1].file = f /\ (q[1].kind = "gone" <=> h = 0)
  BY <1>0, TailTells
<1>2. ~Mentions(q, f) => q[1].file # f
  BY <1>0 DEF Mentions
<1>3. Tells(events'[w], f, folder'[w][f])
  BY DEF Underway
<1>4. ~Mentions(events'[w], f) => Tells(batch'[w], f, folder'[w][f])
  BY <1>1 DEF Underway
<1>5. ~Mentions(events'[w], f) /\ ~Mentions(batch'[w], f) => Reached(w, f)'
  <2> SUFFICES ASSUME ~Mentions(events[w], f), ~Mentions(Tail(q), f)
               PROVE  Reached(w, f)'
    OBVIOUS
  <2>1. Tells(q, f, h)
    BY DEF Underway
  <2>2. CASE Mentions(q, f)
    BY <1>1, <2>1, <2>2
  <2>3. CASE ~Mentions(q, f)
    <3>1. Reached(w, f)
      BY <2>3 DEF Underway
    <3> QED
      BY <1>2, <2>3, <3>1
  <2> QED
    BY <2>2, <2>3
<1> QED
  BY <1>3, <1>4, <1>5 DEF Underway

\* A batch is read.
LEMMA UnderwayRead ==
  ASSUME NEW w \in Box, NEW f, Underway(w, f), batch[w] = <<>>,
         events'[w] = <<>>, batch'[w] = events[w], folder'[w][f] = folder[w][f],
         Reached(w, f) => Reached(w, f)'
  PROVE  Underway(w, f)'
<1>1. ~Mentions(<<>>, f) /\ Tells(<<>>, f, folder[w][f])
  BY DEF Mentions, Tells
<1>2. /\ Tells(events'[w], f, folder'[w][f])
      /\ ~Mentions(events'[w], f) => Tells(batch'[w], f, folder'[w][f])
      /\ ~Mentions(events'[w], f) /\ ~Mentions(batch'[w], f) => Reached(w, f)'
  BY <1>1 DEF Underway
<1> QED
  BY <1>2 DEF Underway

\* A user or the server changes another file of the writer's folder.
LEMMA UnderwayOtherFile ==
  ASSUME NEW w, NEW f, Sole(w, f), Underway(w, f), NEW g \in File, g # f,
         NEW holds \in Contents, NEW by \in {"user", "server"},
         Write(w, g, holds, by) \/ Unlink(w, g, by),
         UNCHANGED <<batch, filename, at, hand, session, store, written, served>>
  PROVE  Underway(w, f)'
<1>0. /\ w \in Box /\ f \in File /\ TypeOK /\ folder \in [Box -> [File -> Contents]]
      /\ events \in [Box -> Seq(Event)]
  BY DEF Sole, TypeOK
<1>1. folder'[w][f] = folder[w][f]
  BY <1>0 DEF Write, Unlink
<1>2. Reached(w, f) => Reached(w, f)'
  BY <1>1 DEF Reached, Arrived
<1>3. CASE events' = events
  BY <1>0, <1>1, <1>2, <1>3, UnderwaySameQueues
<1>4. ASSUME NEW kind \in {"written", "gone"},
             events' = [events EXCEPT ![w] = Enqueue(events[w], [kind |-> kind, file |-> g, by |-> by])]
      PROVE  Underway(w, f)'
  <2> DEFINE e == [kind |-> kind, file |-> g, by |-> by]
  <2>1. e \in Event /\ e.file # f
    BY DEF Event
  <2>2. events'[w] = Enqueue(events[w], e)
    BY <1>0, <1>4
  <2> HIDE DEF e
  <2> QED
    BY <1>0, <1>1, <1>2, <2>1, <2>2, UnderwayOtherEvent
<1> QED
  BY <1>3, <1>4 DEF Write, Unlink

\* What the folder holds was sent: it is in the last command written, or has arrived.
Sent(w, f) ==
  LET q == written[w]["inotify"] IN
    /\ \A i \in DOMAIN q : LastOf(q, f, i) => q[i].of.holds = folder[w][f]
    /\ ~Mentions(q, f) => Arrived(w, f)

\* The step is one of the session, the server or another event ...
LEMMA ReachedThere ==
  ASSUME NEW w, NEW f, Reached(w, f), folder'[w][f] = folder[w][f],
         at'[w]["inotify"] = at[w]["inotify"], filename'[w] = filename[w],
         hand'[w]["inotify"] = hand[w]["inotify"],
         Sent(w, f) => Sent(w, f)'
  PROVE  Reached(w, f)'
<1> DEFINE place == at[w]["inotify"]
           dealt == filename[w] = f /\ place \in {"open", "delete", "send"}
<1>1. CASE dealt
  BY <1>1 DEF Reached
<1>2. CASE ~dealt
  <2>1. Sent(w, f)
    BY <1>2 DEF Reached, Sent
  <2> QED
    BY <1>2, <2>1 DEF Reached, Sent
<1> QED
  BY <1>1, <1>2

\* ... or one of the inotify thread, which is between two files.
LEMMA ReachedBetween ==
  ASSUME NEW w, NEW f, Reached(w, f), folder'[w][f] = folder[w][f],
         at[w]["inotify"] \notin {"open", "delete", "send"} \/ filename[w] # f,
         at'[w]["inotify"] \notin {"open", "delete", "send"} \/ filename'[w] # f,
         written'[w]["inotify"] = written[w]["inotify"], session'[w]["inotify"] = session[w]["inotify"],
         store' = store, served' = served
  PROVE  Reached(w, f)'
<1>1. Sent(w, f)
  BY DEF Reached, Sent
<1>2. Sent(w, f)'
  BY <1>1 DEF Sent, Arrived
<1> QED
  BY <1>2 DEF Reached, Sent

\* A command for f is sent with what the folder holds, others leave f alone.
LEMMA UnderwaySend ==
  ASSUME NEW w, NEW f, Sole(w, f), Underway(w, f), NEW t \in Thread, NoneAstray',
         SendFile(w, t) \/ SendDelete(w, t)
  PROVE  Underway(w, f)'
<1>0. /\ w \in Box /\ TypeOK /\ Undisturbed(w) /\ written[w]["inotify"] \in Seq(Wired)
      /\ hand[w]["inotify"] \in Hand /\ filename[w] \in Name /\ Empty \in Hand
      /\ "inotify" \in Thread
  <2>1. w \in Box /\ TypeOK /\ Undisturbed(w) /\ "inotify" \in Thread
    BY DEF Sole, Thread
  <2>2. /\ written \in [Box -> [Thread -> Seq(Wired)]] /\ hand \in [Box -> [Thread -> Hand]]
        /\ filename \in [Box -> Name]
    BY <2>1 DEF TypeOK, Wired
  <2>3. Empty \in Hand
    BY ContentsAre DEF Empty, Hand, Name
  <2> QED
    BY <2>1, <2>2, <2>3
<1> DEFINE place == at[w]["inotify"]
<1>1. t = "inotify" /\ place \in {"send", "delete"} /\ filename[w] # "none"
  <2>1. t = "inotify"
    BY <1>0 DEF SendFile, SendDelete, Undisturbed, Thread
  <2>2. place \in {"send", "delete"}
    BY <2>1 DEF SendFile, SendDelete
  <2> QED
    BY <1>0, <2>1, <2>2, BoxSyncAssumption DEF Undisturbed, Working
<1>2. /\ events' = events /\ batch' = batch /\ folder' = folder /\ filename' = filename
      /\ store' = store /\ session' = session /\ served' = served
  BY DEF SendFile, SendDelete
<1>3. PICK n \in Wired :
        /\ at'[w]["inotify"] = "examine" /\ written'[w]["inotify"] = Append(written[w]["inotify"], n)
        /\ n.file = filename[w]
        /\ place = "send" => n.of = hand[w]["inotify"]
        /\ place = "delete" => n.of = Empty
  <2>1. ASSUME NEW u, Send(w, "inotify", u, "examine")
        PROVE  at'[w]["inotify"] = "examine" /\ written'[w]["inotify"] = Append(written[w]["inotify"], u)
    <3>1. ~closed[w] /\ astray' = {}
      BY <1>0 DEF Undisturbed, NoneAstray
    <3> QED
      BY <1>0, <2>1, <3>1, SendIs DEF Puts
  <2>2. CASE SendFile(w, t)
    <3> DEFINE u == [op |-> "upload", file |-> filename[w], of |-> hand[w]["inotify"]]
    <3>1. place = "send" /\ Send(w, "inotify", u, "examine")
      BY <1>1, <2>2 DEF SendFile, After
    <3>2. u \in Wired /\ u.file = filename[w] /\ u.of = hand[w]["inotify"]
      BY <1>0 DEF Wired, Change
    <3> HIDE DEF u
    <3> QED
      BY <2>1, <3>1, <3>2
  <2>3. CASE SendDelete(w, t)
    <3> DEFINE u == [op |-> "delete", file |-> filename[w], of |-> Empty]
    <3>1. place = "delete" /\ Send(w, "inotify", u, "examine")
      BY <1>1, <2>3 DEF SendDelete, After
    <3>2. u \in Wired /\ u.file = filename[w] /\ u.of = Empty
      BY <1>0 DEF Wired, Change
    <3> HIDE DEF u
    <3> QED
      BY <2>1, <3>1, <3>2
  <2> QED
    BY <2>2, <2>3
<1> DEFINE q == written[w]["inotify"]
<1>4. ASSUME Reached(w, f)
      PROVE  Reached(w, f)'
  <2>1. CASE filename[w] = f
    <3>1. folder[w][f] = n.of.holds
      BY <1>1, <1>3, <1>4, <2>1 DEF Reached, Empty
    <3>2. /\ \A i : LastOf(Append(q, n), f, i) => Append(q, n)[i] = n
          /\ Mentions(Append(q, n), f)
      <4>1. /\ \A i : LastOf(Append(q, n), n.file, i) => Append(q, n)[i] = n
            /\ Mentions(Append(q, n), n.file)
        BY <1>0, AppendLast
      <4> QED
        BY <1>3, <2>1, <4>1
    <3>3. Sent(w, f)'
      BY <1>2, <1>3, <3>1, <3>2 DEF Sent
    <3> QED
      BY <1>3, <3>3 DEF Reached, Sent
  <2>2. CASE filename[w] # f
    <3>1. Sent(w, f)
      BY <1>4, <2>2 DEF Reached, Sent
    <3>2. /\ \A i : LastOf(Append(q, n), f, i) => LastOf(q, f, i) /\ Append(q, n)[i] = q[i]
          /\ Mentions(Append(q, n), f) <=> Mentions(q, f)
      BY <1>0, <1>3, <2>2, AppendOther
    <3>3. \A i : LastOf(q, f, i) => i \in DOMAIN q
      BY DEF LastOf
    <3>4. Sent(w, f)'
      BY <1>2, <1>3, <3>1, <3>2, <3>3 DEF Sent, Arrived
    <3> QED
      BY <1>3, <3>4 DEF Reached, Sent
  <2> QED
    BY <2>1, <2>2
<1> QED
  BY <1>2, <1>4, UnderwaySameQueues

\* The session thread reads the first of its commands.
LEMMA UnderwayReadCommand ==
  ASSUME NEW w, NEW f, Sole(w, f), Underway(w, f), NEW t \in Thread, ReadCommand(w, t)
  PROVE  Underway(w, f)'
<1>0. /\ w \in Box /\ TypeOK /\ Undisturbed(w) /\ "inotify" \in Thread
      /\ written \in [Box -> [Thread -> Seq(Wired)]] /\ session \in [Box -> [Thread -> Command]]
  BY DEF Sole, TypeOK, Wired, Thread
<1>1. t = "inotify"
  BY <1>0 DEF ReadCommand, Undisturbed, Thread
<1>2. PICK q : q = written[w]["inotify"]
  OBVIOUS
<1>3. q \in Seq(Wired) /\ q # <<>> /\ \A i \in DOMAIN q : q[i].op \in Changing
  BY <1>0, <1>1, <1>2 DEF Undisturbed, ReadCommand
<1>4. Head(q) = q[1] /\ 1 \in DOMAIN q /\ q[1].op \in Changing
  BY <1>3, TailFacts, QueueFacts
<1>5. /\ session[w]["inotify"] = Nothing /\ session'[w]["inotify"] = q[1]
      /\ written'[w]["inotify"] = Tail(q)
  BY <1>0, <1>1, <1>2, <1>4 DEF ReadCommand
<1>6. UNCHANGED <<events, batch, folder, filename, at, hand, store, served>>
  BY DEF ReadCommand
<1>7. /\ \A i : LastOf(Tail(q), f, i) => LastOf(q, f, i + 1) /\ Tail(q)[i] = q[i + 1]
      /\ Mentions(q, f) /\ ~Mentions(Tail(q), f) => LastOf(q, f, 1)
  BY <1>3, TailLast
<1>8. \A i : LastOf(q, f, i) => i \in DOMAIN q /\ q[i].file = f
  BY DEF LastOf
<1>9. ASSUME Sent(w, f)
      PROVE  Sent(w, f)'
  <2>1. /\ \A i \in DOMAIN q : LastOf(q, f, i) => q[i].of.holds = folder[w][f]
        /\ ~Mentions(q, f) => Arrived(w, f)
    BY <1>2, <1>9 DEF Sent
  <2>2. \A i \in DOMAIN Tail(q) : LastOf(Tail(q), f, i) => Tail(q)[i].of.holds = folder'[w][f]
    BY <1>6, <1>7, <1>8, <2>1
  <2>3. ASSUME ~Mentions(Tail(q), f)
        PROVE  Arrived(w, f)'
    <3>1. CASE Mentions(q, f)
      <4>1. q[1].file = f /\ q[1].of.holds = folder[w][f]
        BY <1>7, <1>8, <2>1, <2>3, <3>1
      <4> QED
        BY <1>4, <1>5, <1>6, <4>1 DEF Arrived
    <3>2. CASE ~Mentions(q, f)
      <4>1. q[1].file # f
        BY <1>4, <3>2 DEF Mentions
      <4>2. folder[w][f] = store[f] /\ f \in served
        BY <1>5, <2>1, <3>2 DEF Arrived, Nothing, Changing
      <4> QED
        BY <1>5, <1>6, <4>1, <4>2 DEF Arrived
    <3> QED
      BY <3>1, <3>2
  <2> QED
    BY <1>5, <2>2, <2>3 DEF Sent
<1>10. Reached(w, f) => Reached(w, f)'
  BY <1>6, <1>9, ReachedThere
<1> QED
  BY <1>6, <1>10, UnderwaySameQueues

\* The file is read as the folder holds it.
LEMMA UnderwayOpen ==
  ASSUME NEW w, NEW f, Sole(w, f), Underway(w, f), NEW t \in Thread, OpenFile(w, t)
  PROVE  Underway(w, f)'
<1>0. /\ w \in Box /\ TypeOK /\ Undisturbed(w) /\ at \in [Box -> [Thread -> AnyPlace]]
      /\ hand \in [Box -> [Thread -> Hand]]
  BY DEF Sole, TypeOK, AnyPlace
<1> DEFINE place == at[w]["inotify"]
           held == folder[w][filename[w]]
<1>1. t = "inotify" /\ "inotify" \in Thread /\ place = "open"
  BY <1>0 DEF OpenFile, Undisturbed, Thread
<1>2. filename[w] # "none" /\ path[w] = "sync_dir"
  BY <1>0, <1>1, BoxSyncAssumption DEF Undisturbed, Working
<1>3. /\ events' = events /\ batch' = batch /\ folder' = folder /\ filename' = filename
      /\ store' = store /\ session' = session /\ written' = written /\ served' = served
  BY DEF OpenFile
<1>4. IF held = 0 THEN Goto(w, "inotify", "examine")
      ELSE /\ hand' = [hand EXCEPT ![w]["inotify"] = [file |-> filename[w], holds |-> held]]
           /\ Goto(w, "inotify", "send")
  BY <1>1, <1>2 DEF OpenFile, After
<1>5. ASSUME Reached(w, f)
      PROVE  Reached(w, f)'
  <2>1. CASE filename[w] = f
    <3>1. held # 0 /\ held = folder[w][f]
      BY <1>1, <1>5, <2>1 DEF Reached
    <3>2. at'[w]["inotify"] = "send"
      BY <1>0, <1>1, <1>4, <3>1, GotoIs
    <3>3. hand'[w]["inotify"].holds = held
      BY <1>0, <1>1, <1>4, <3>1
    <3> QED
      BY <1>3, <2>1, <3>1, <3>2, <3>3 DEF Reached
  <2>2. CASE filename[w] # f
    BY <1>3, <1>5, <2>2, ReachedBetween
  <2> QED
    BY <2>1, <2>2
<1> QED
  BY <1>3, <1>5, UnderwaySameQueues

\* The batch's first event is of another file, or the user's and not skipped.
LEMMA UnderwayExamine ==
  ASSUME NEW w, NEW f, Sole(w, f), Underway(w, f), UserEvents, Examine(w), f \notin skipped'
  PROVE  Underway(w, f)'
<1>0. /\ w \in Box /\ f \in File /\ TypeOK /\ at \in [Box -> [Thread -> AnyPlace]]
      /\ batch \in [Box -> Seq(Event)] /\ "inotify" \in Thread
  BY DEF Sole, TypeOK, AnyPlace, Thread
<1> DEFINE e == batch[w][1]
<1>1. e \in Event /\ Head(batch[w]) = e /\ 1 \in DOMAIN batch[w] /\ batch[w] # <<>>
  BY <1>0, TailFacts, QueueFacts DEF Examine
<1>2. /\ events' = events /\ folder' = folder /\ store' = store /\ session' = session
      /\ written' = written /\ served' = served /\ hand' = hand /\ at[w]["inotify"] = "examine"
  BY DEF Examine, inotifyKeeps, host
<1>3. ASSUME at'[w]["inotify"] \in {"examine", "path"}
      PROVE  Reached(w, f) => Reached(w, f)'
  BY <1>2, <1>3, ReachedBetween
<1>4. CASE /\ skipped' = IF e.by = "user" THEN skipped \cup {e.file} ELSE skipped
           /\ batch' = [batch EXCEPT ![w] = Tail(@)] /\ at' = at
  <2>1. e.file # f
    <3>1. CASE e.by = "user"
      BY <1>4, <3>1
    <3>2. CASE e.by = "server"
      <4>1. ByOthers(w, e.file)
        BY <1>0, <1>1, <3>2 DEF Sole, Arrivals
      <4> QED
        BY <4>1, SoleFacts
    <3> QED
      BY <1>1, <3>1, <3>2 DEF Event
  <2>2. batch'[w] = Tail(batch[w])
    BY <1>0, <1>4
  <2> QED
    BY <1>0, <1>1, <1>2, <1>3, <1>4, <2>1, <2>2, UnderwayTail
<1>5. CASE Goto(w, "inotify", "path") /\ batch' = batch
  <2>1. at'[w]["inotify"] = "path"
    BY <1>0, <1>5, GotoIs
  <2> QED
    BY <1>2, <1>3, <1>5, <2>1, UnderwaySameQueues
<1> QED
  BY <1>1, <1>4, <1>5 DEF Examine

\* The last event of f tells which command is sent.
LEMMA UnderwaySetPath ==
  ASSUME NEW w, NEW f, Sole(w, f), Underway(w, f), SetPath(w)
  PROVE  Underway(w, f)'
<1>0. /\ w \in Box /\ f \in File /\ TypeOK /\ at \in [Box -> [Thread -> AnyPlace]]
      /\ batch \in [Box -> Seq(Event)] /\ "inotify" \in Thread /\ Undisturbed(w)
  BY DEF Sole, TypeOK, AnyPlace, Thread
<1> DEFINE e == batch[w][1]
           next == IF e.kind = "gone" THEN "delete" ELSE "open"
<1>1. batch[w] # <<>> /\ at[w]["inotify"] = "path"
  BY <1>0 DEF SetPath, Sole, BatchesExamined
<1>2. e \in Event /\ Head(batch[w]) = e
  BY <1>0, <1>1, TailFacts, QueueFacts
<1>3. /\ events' = events /\ folder' = folder /\ store' = store /\ session' = session
      /\ written' = written /\ served' = served
      /\ hand' = hand /\ filename' = filename /\ batch'[w] = Tail(batch[w])
  BY <1>0 DEF SetPath, inotifyKeeps, host
<1>4. at'[w]["inotify"] = next
  <2>1. Goto(w, "inotify", next)
    BY <1>2 DEF SetPath
  <2> QED
    BY <1>0, <2>1, GotoIs
<1>5. filename[w] = e.file
  BY <1>0, <1>1 DEF Undisturbed
<1>6. ASSUME e.file = f, e.kind = "gone" <=> folder[w][f] = 0
      PROVE  Reached(w, f)'
  BY <1>3, <1>4, <1>5, <1>6 DEF Reached
<1>7. ASSUME e.file # f, Reached(w, f)
      PROVE  Reached(w, f)'
  BY <1>1, <1>3, <1>4, <1>5, <1>7, ReachedBetween
<1> QED
  BY <1>0, <1>1, <1>3, <1>6, <1>7, UnderwayTail

\* The rest of what the inotify thread does.
LEMMA UnderwayWatch ==
  ASSUME NEW w, NEW f, Sole(w, f), Underway(w, f), ReadEvents(w) \/ EndBatch(w)
  PROVE  Underway(w, f)'
<1>0. /\ w \in Box /\ TypeOK /\ at \in [Box -> [Thread -> AnyPlace]]
      /\ batch \in [Box -> Seq(Event)] /\ events \in [Box -> Seq(Event)]
      /\ "inotify" \in Thread
  BY DEF Sole, TypeOK, AnyPlace, Thread
<1>1. /\ folder' = folder /\ store' = store /\ session' = session
      /\ written' = written /\ served' = served
      /\ at[w]["inotify"] \in {"idle", "examine"}
  BY DEF ReadEvents, EndBatch, inotifyKeeps, host
<1>2. at'[w]["inotify"] \in {"idle", "examine"}
  BY <1>0, GotoIs DEF ReadEvents, EndBatch
<1>3. Reached(w, f) => Reached(w, f)'
  BY <1>1, <1>2, ReachedBetween
<1>4. CASE ReadEvents(w)
  <2>1. batch[w] = <<>>
    BY <1>0, <1>4 DEF ReadEvents, Sole, BatchesExamined
  <2>2. events'[w] = <<>> /\ batch'[w] = events[w]
    BY <1>0, <1>4 DEF ReadEvents
  <2> QED
    BY <1>0, <1>1, <1>3, <2>1, <2>2, UnderwayRead
<1>5. CASE EndBatch(w)
  BY <1>1, <1>3, <1>5, UnderwaySameQueues DEF EndBatch
<1> QED
  BY <1>4, <1>5

\* The writer changes the file: whatever there was before, it is on its way.
LEMMA UnderwayFirst ==
  ASSUME TypeOK, NEW w \in Box, NEW f \in File, UserChanges(w, f)
  PROVE  Underway(w, f)'
<1>0. /\ folder \in [Box -> [File -> Contents]]
      /\ events \in [Box -> Seq(Event)] /\ acts \in 0 .. MaxActs /\ MaxActs \in Nat
  BY BoxSyncAssumption DEF TypeOK
<1>1. ASSUME NEW kind \in {"written", "gone"},
             events' = [events EXCEPT ![w] = Enqueue(events[w], [kind |-> kind, file |-> f, by |-> "user"])],
             kind = "gone" <=> folder'[w][f] = 0
      PROVE  Underway(w, f)'
  <2> DEFINE e == [kind |-> kind, file |-> f, by |-> "user"]
  <2>1. e \in Event /\ e.file = f /\ e.kind = kind
    BY DEF Event
  <2>2. events'[w] = Enqueue(events[w], e)
    BY <1>0, <1>1
  <2> HIDE DEF e
  <2> QED
    BY <1>1, <2>1, <2>2, UnderwayOwnEvent
<1>2. CASE Write(w, f, acts', "user")
  <2>1. folder'[w][f] # 0
    BY <1>0, <1>2 DEF Write, UserChanges
  <2> QED
    BY <1>1, <1>2, <2>1 DEF Write
<1>3. CASE folder[w][f] # 0 /\ Unlink(w, f, "user")
  <2>1. folder'[w][f] = 0
    BY <1>0, <1>3 DEF Unlink
  <2> QED
    BY <1>1, <1>3, <2>1 DEF Unlink
<1> QED
  BY <1>2, <1>3 DEF UserChanges

\* The writer's folder is changed.
LEMMA UnderwayChange ==
  ASSUME NEW w, NEW f, Sole(w, f), Underway(w, f),
         CarryOut(w) \/ \E g \in File : UserChanges(w, g)
  PROVE  Underway(w, f)'
<1>0. /\ w \in Box /\ f \in File /\ TypeOK /\ folder \in [Box -> [File -> Contents]]
      /\ events \in [Box -> Seq(Event)] /\ acts \in 0 .. MaxActs /\ MaxActs \in Nat
      /\ comm \in [Box -> Push \cup {Nothing, [op |-> "finished"]}]
  BY BoxSyncAssumption DEF Sole, TypeOK
<1>1. UNCHANGED <<batch, filename, at, hand, session, store, written, served>>
  BY DEF CarryOut, commKeeps, UserChanges, host
<1>2. CASE CarryOut(w)
  <2>1. comm[w].op \in Changing /\ comm[w].file # f
    BY <1>2, SoleFacts DEF CarryOut, Changing
  <2>2. comm[w].holds \in Contents /\ 0 \in Contents
    <3>1. comm[w] \in Push
      BY <1>0, <2>1 DEF Nothing, Changing
    <3>2. comm[w].holds \in Contents
      BY <3>1 DEF Push
    <3> QED
      BY <3>2, ContentsAre
  <2>3. CASE comm[w].file \in File /\ Unlink(w, comm[w].file, "server")
    BY <1>1, <2>1, <2>2, <2>3, UnderwayOtherFile
  <2>4. CASE comm[w].file \in File /\ Write(w, comm[w].file, comm[w].holds, "server")
    BY <1>1, <2>1, <2>2, <2>4, UnderwayOtherFile
  <2>5. CASE UNCHANGED <<folder, events>>
    <3>1. Reached(w, f) => Reached(w, f)'
      BY <1>1, <2>5 DEF Reached, Arrived
    <3> QED
      BY <1>1, <2>5, <3>1, UnderwaySameQueues
  <2> QED
    BY <1>2, <2>3, <2>4, <2>5 DEF CarryOut, Perform
<1>3. ASSUME NEW g \in File, UserChanges(w, g), g # f
      PROVE  Underway(w, f)'
  <2>1. acts' \in Contents /\ 0 \in Contents
    BY <1>0, <1>3, ContentsAre DEF UserChanges
  <2>2. Write(w, g, acts', "user") \/ Unlink(w, g, "user")
    BY <1>3 DEF UserChanges
  <2>3. PICK v : v = acts'
    OBVIOUS
  <2> QED
    BY <1>1, <1>3, <2>1, <2>2, <2>3, UnderwayOtherFile
<1>4. ASSUME UserChanges(w, f)
      PROVE  Underway(w, f)'
  BY <1>0, <1>4, UnderwayFirst
<1> QED
  BY <1>2, <1>3, <1>4

\* The server carries the command out, and passes it on.
LEMMA UnderwayServer ==
  ASSUME NEW w, NEW f, Sole(w, f), Underway(w, f), NEW t \in Thread, Store(w, t) \/ Notify(w, t)
  PROVE  Underway(w, f)'
<1>0. w \in Box /\ Undisturbed(w) /\ TypeOK /\ session \in [Box -> [Thread -> Command]]
      /\ "inotify" \in Thread
  BY DEF Sole, TypeOK, Thread
<1> DEFINE c == session[w]["inotify"]
           n == session'[w]["inotify"]
<1>1. t = "inotify"
  BY <1>0 DEF Store, Notify, Undisturbed, Nothing, Thread
<1>2. UNCHANGED <<events, batch, folder, filename, at, hand, written>>
  BY DEF Store, Notify
<1>3. ASSUME Arrived(w, f)
      PROVE  Arrived(w, f)'
  <2>1. CASE Store(w, "inotify")
    <3>1. n = [op |-> "notify", send |-> c.op, file |-> c.file, holds |-> c.of.holds]
      BY <1>0, <2>1 DEF Store
    <3>2. n.op \notin Changing /\ c.op \in Changing
      BY <2>1, <3>1 DEF Store, Changing
    <3>3. Step(w)
      BY <2>1, <1>0 DEF Step
    <3>4. IF c.file = f THEN store'[f] = c.of.holds /\ f \in served'
          ELSE store'[f] = store[f] /\ (f \in served' <=> f \in served)
      BY <1>0, <2>1, <3>3, StoreIs
    <3> QED
      BY <1>2, <1>3, <3>2, <3>4 DEF Arrived
  <2>2. CASE Notify(w, "inotify")
    <3>1. n = Nothing /\ c.op = "notify" /\ store' = store /\ served' = served
      BY <1>0, <2>2 DEF Notify
    <3> QED
      BY <1>2, <1>3, <3>1 DEF Arrived, Changing, Nothing
  <2> QED
    BY <1>1, <2>1, <2>2
<1>5. Sent(w, f) => Sent(w, f)'
  BY <1>2, <1>3 DEF Sent
<1>4. Reached(w, f) => Reached(w, f)'
  BY <1>2, <1>5, ReachedThere
<1> QED
  BY <1>2, <1>4, UnderwaySameQueues

LEMMA UnderwayKept ==
  ASSUME NEW w, NEW f, Sole(w, f), UserEvents, Underway(w, f),
         NEW a \in Box, Step(a), f \notin skipped', NothingTyped', NoneAstray'
  PROVE  Underway(w, f)'
<1>0. w \in Box /\ Undisturbed(w) /\ TypeOK
  BY DEF Sole
<1>1. CASE a # w
  <2>1. BoxKept(w) /\ store'[f] = store[f] /\ (f \in served' <=> f \in served)
    BY <1>0, <1>1, OthersKept, StoreIs
  <2>3. Sent(w, f) => Sent(w, f)'
    BY <2>1 DEF Sent, Arrived, BoxKept
  <2>2. Reached(w, f) => Reached(w, f)'
    BY <2>1, <2>3, ReachedThere DEF BoxKept
  <2> QED
    BY <2>1, <2>2, UnderwaySameQueues DEF BoxKept
<1>2. ASSUME ReceiveCommand(w)
      PROVE  Underway(w, f)'
  <2>1. UNCHANGED <<events, batch, folder, filename, at, hand, session, store, written, served>>
    BY <1>2 DEF ReceiveCommand, commKeeps
  <2>2. Reached(w, f) => Reached(w, f)'
    BY <2>1 DEF Reached, Arrived
  <2> QED
    BY <2>1, <2>2, UnderwaySameQueues
<1>3. ~Type(w)
  BY <1>0 DEF Type, NothingTyped
<1>4. ~SetName(w) /\ ~Download(w) /\ ~SendExit(w) /\ ~InotifyFinishes(w) /\ ~Exit(w)
  BY <1>0 DEF SetName, Download, SendExit, InotifyFinishes, Exit, Undisturbed, Nothing
<1>5. \A t \in Thread : ~Misread(w, t) /\ ~Answered(w, t)
  <2>1. \A t \in Thread : ~Answered(w, t)
    BY DEF Answered, NoneAstray
  <2> QED
    BY <1>0, <2>1, SoleFacts
<1> QED
  BY <1>1, <1>2, <1>3, <1>4, <1>5, UnderwaySend, UnderwayOpen, UnderwayExamine, UnderwaySetPath,
     UnderwayWatch, UnderwayChange, UnderwayReadCommand, UnderwayServer
  DEF Step, Watch

\* A file gets a writer by a change of a user, and the server has nothing of it yet.
LEMMA WritersIs ==
  ASSUME TypeOK, NEW a \in Box, Step(a), NEW f \in File
  PROVE  \/ writers'[f] = writers[f]
         \/ UserChanges(a, f) /\ writers'[f] = writers[f] \cup {a} /\ served' = served
<1>0. writers \in [File -> SUBSET Box]
  BY DEF TypeOK
<1>1. ASSUME NEW g \in File, UserChanges(a, g)
      PROVE  \/ writers'[f] = writers[f]
             \/ UserChanges(a, f) /\ writers'[f] = writers[f] \cup {a} /\ served' = served
  <2>1. CASE g = f
    BY <1>0, <1>1, <2>1 DEF UserChanges, host
  <2>2. CASE g # f
    BY <1>0, <1>1, <2>2 DEF UserChanges
  <2> QED
    BY <2>1, <2>2
<1>2. ASSUME \/ Type(a) \/ SetName(a) \/ Download(a) \/ SendExit(a) \/ Watch(a)
             \/ \E t \in Thread : OpenFile(a, t) \/ SendFile(a, t) \/ SendDelete(a, t) \/ Answered(a, t)
             \/ ReceiveCommand(a) \/ CarryOut(a) \/ Exit(a)
             \/ \E t \in Thread : ReadCommand(a, t) \/ Misread(a, t) \/ Store(a, t) \/ Notify(a, t)
      PROVE  writers' = writers
  BY <1>2 DEF Type, SetName, Download, SendExit, Watch, ReadEvents, Examine, SetPath, EndBatch,
     InotifyFinishes, inotifyKeeps, OpenFile, SendFile, SendDelete, Answered, ReceiveCommand,
     CarryOut, commKeeps, Exit, ReadCommand, Misread, Store, Notify, past
<1> QED
  BY <1>1, <1>2 DEF Step

\* What a session thread stores was its client's to send.
LEMMA ServedKnownKept ==
  ASSUME TypeOK, \A b \in Box : Undisturbed(b), ServedKnown, NEW a \in Box, Step(a)
  PROVE  ServedKnown'
<1>0. Remembered /\ served \subseteq File
  BY HistoryKept DEF TypeOK
<1>1. ASSUME NEW t \in Thread, Store(a, t)
      PROVE  \A f \in served' : f \in served \/ (f \in File /\ Known(a, f))
  <2>1. t = "inotify"
    BY <1>1 DEF Store, Undisturbed, Nothing, Thread
  <2> DEFINE c == session[a]["inotify"]
  <2>2. c.op \in Changing /\ served' = served \cup ({c.file} \cap File)
    BY <1>1, <2>1 DEF Store, Changing
  <2>3. c.file \in File /\ Known(a, c.file)
    BY <2>2 DEF Undisturbed, Own
  <2> QED
    BY <2>2, <2>3
<1>2. (\E t \in Thread : Store(a, t)) \/ served' = served
  BY DEF Step, UserChanges, Type, SetName, Download, SendExit, Watch, ReadEvents, Examine,
     SetPath, EndBatch, InotifyFinishes, OpenFile, SendFile, SendDelete, Answered, ReceiveCommand,
     CarryOut, ReadCommand, Misread, Notify, Exit
<1>3. ASSUME NEW f \in served'
      PROVE  f \in File /\ (writers[f] # {} \/ f \in echoed)
  BY <1>0, <1>1, <1>2 DEF ServedKnown, Known
<1>4. ASSUME NEW f \in served'
      PROVE  writers'[f] # {} \/ f \in echoed'
  BY <1>0, <1>3 DEF Remembered
<1> QED
  BY <1>4 DEF ServedKnown

LEMMA SettlingKept ==
  ASSUME Invariant, NEW a \in Box, Step(a), NothingTyped', NoneAstray'
  PROVE  Settling'
<1>0. TypeOK /\ Remembered
  BY HistoryKept DEF Invariant
<1>1. NothingTyped /\ NoneAstray
  BY <1>0 DEF Remembered, NothingTyped, NoneAstray
<1>2. Settling /\ ServedKnown /\ UserEvents /\ (\A b \in Box : Undisturbed(b))
  BY <1>1 DEF Invariant, Disturbed, NothingTyped, NoneAstray
<1>3. ASSUME NEW f \in File, f \notin skipped' \cup echoed', NEW w \in Box, writers'[f] = {w}
      PROVE  Underway(w, f)' /\ (f \in served' => \A d \in Box \ {w} : Told(w, d, f)')
  <2>1. f \notin skipped /\ f \notin echoed /\ writers[f] \subseteq {w}
    BY <1>0, <1>3 DEF Remembered
  <2>2. Sole(w, f)
    BY <1>0, <1>1, <1>2, <2>1 DEF Invariant, Sole
  <2>3. CASE writers[f] = {w}
    <3>1. Underway(w, f) /\ (f \in served => \A d \in Box \ {w} : Told(w, d, f))
      BY <1>2, <2>1, <2>3 DEF Settling
    <3>2. Underway(w, f)'
      BY <1>2, <1>3, <2>2, <3>1, UnderwayKept
    <3>3. CASE f \in served
      BY <1>3, <2>2, <3>1, <3>2, <3>3, ToldKept
    <3>4. CASE f \notin served
      <4>1. f \in served' => a = w /\ Store(w, "inotify") /\ session[w]["inotify"].file = f
        BY <2>2, <3>4, StoreIs
      <4> QED
        BY <2>2, <3>2, <4>1, ToldStore
    <3> QED
      BY <3>3, <3>4
  <2>4. CASE writers[f] # {w}
    <3>1. writers[f] = {} /\ f \notin served
      BY <1>2, <2>1, <2>4 DEF ServedKnown
    <3>2. UserChanges(a, f) /\ a = w /\ f \notin served'
      BY <1>0, <1>3, <3>1, WritersIs
    <3> QED
      BY <1>0, <3>2, UnderwayFirst
  <2> QED
    BY <2>3, <2>4
<1> QED
  BY <1>3 DEF Settling

-----------------------------------------------------------------------------
(* The inductive invariant. *)

LEMMA DeletesBareIs == DeletesBare <=> BareSessions /\ BareWritten /\ BareComm /\ BarePushed
BY DEF DeletesBare, BareSessions, BareWritten, BareOf, BareComm, BarePushed, Bare

LEMMA DeletesBareKept ==
  ASSUME TypeOK, DeletesBare, NEW a \in Box, Step(a)
  PROVE  DeletesBare'
<1>1. BareSessions /\ BareWritten /\ BareComm /\ BarePushed
  BY DeletesBareIs
<1>2. BareSessions' /\ BareWritten' /\ BareComm' /\ BarePushed'
  BY <1>1, BareSessionsKept, BareWrittenKept, BareCommKept
<1> QED
  BY <1>2 DEF DeletesBare, BareSessions, BareWritten, BareOf, BareComm, BarePushed, Bare

LEMMA InitInvariant == Init => Invariant
<1> SUFFICES ASSUME Init PROVE Invariant
  OBVIOUS
<1>0. DOMAIN (<<>>) = {}
  OBVIOUS
<1>1. TypeOK
  BY InitTypes
<1>2. \A b \in Box :
        /\ events[b] = <<>> /\ batch[b] = <<>> /\ pushed[b] = <<>> /\ comm[b] = Nothing
        /\ ~closed[b] /\ ~exiting[b]
        /\ \A t \in Thread : at[b][t] = "idle" /\ session[b][t] = Nothing /\ written[b][t] = <<>>
  BY DEF Init
<1>3. "console" \in Thread /\ "inotify" \in Thread
  BY DEF Thread
<1>4. DeletesBare
  BY <1>0, <1>2 DEF DeletesBare, Nothing
<1>5. BatchesExamined
  BY <1>2, <1>3 DEF BatchesExamined
<1>6. \A b \in Box : Undisturbed(b)
  BY <1>0, <1>2, <1>3 DEF Undisturbed, Own, Nothing, Changing, Working
<1>7. UserEvents
  BY <1>0, <1>2 DEF UserEvents
<1>8. \A b \in Box : Arrivals(b)
  BY <1>0, <1>2 DEF Arrivals, Nothing, Changing
<1>9. ServedKnown /\ Settling
  BY DEF Init, ServedKnown, Settling
<1> QED
  BY <1>1, <1>4, <1>5, <1>6, <1>7, <1>8, <1>9 DEF Invariant

LEMMA StepKept ==
  ASSUME Invariant, NEW a \in Box, Step(a), TypeOK'
  PROVE  Invariant'
<1>0. TypeOK /\ DeletesBare /\ BatchesExamined /\ UserEvents /\ Remembered
  BY HistoryKept DEF Invariant
<1>1. DeletesBare' /\ BatchesExamined' /\ UserEvents'
  BY <1>0, DeletesBareKept, BatchesKept, UserEventsKept
<1>2. ASSUME NEW b \in Box, b \notin Disturbed'
      PROVE  Undisturbed(b)'
  <2>1. b \notin Disturbed
    BY <1>0, <1>2 DEF Disturbed, Remembered
  <2>2. Undisturbed(b)
    BY <2>1 DEF Invariant
  <2> QED
    BY <1>0, <1>2, <2>2, UndisturbedByOthers, UndisturbedKept
<1>3. ASSUME NothingTyped', NoneAstray'
      PROVE  (\A b \in Box : Arrivals(b)') /\ ServedKnown' /\ Settling'
  <2>1. NothingTyped /\ NoneAstray
    BY <1>0, <1>3 DEF Remembered, NothingTyped, NoneAstray
  <2>2. (\A c \in Box : Undisturbed(c) /\ Arrivals(c)) /\ ServedKnown
    BY <2>1 DEF Invariant, Disturbed, NothingTyped, NoneAstray
  <2> QED
    BY <1>0, <1>3, <2>2, ArrivalsKept, ServedKnownKept, SettlingKept
<1>4. \A b \in Box \ Disturbed' : Undisturbed(b)'
  BY <1>2
<1>5. NothingTyped' /\ NoneAstray' => (\A b \in Box : Arrivals(b)') /\ ServedKnown' /\ Settling'
  BY <1>3
<1> QED
  BY <1>1, <1>4, <1>5 DEF Invariant

LEMMA StutterKept ==
  ASSUME Invariant, UNCHANGED vars
  PROVE  Invariant'
<1>0. UNCHANGED <<folder, events, batch, source_is_server, filename, path, at, hand, comm, exiting,
                  written, ahead, session, closed, store, pushed, served,
                  acts, typed, writers, skipped, echoed, unnamed, astray>>
  BY DEF vars, box, line, host, past
<1>1. TypeOK'
  BY <1>0 DEF Invariant, TypeOK
<1>2. DeletesBare' /\ BatchesExamined'
  BY <1>0 DEF Invariant, DeletesBare, BatchesExamined
<1>3. \A b \in Box \ Disturbed' : Undisturbed(b)'
  <2>1. Disturbed' = Disturbed
    BY <1>0 DEF Disturbed
  <2>2. \A b : Undisturbed(b) => Undisturbed(b)'
    BY <1>0 DEF Undisturbed, Own, Known
  <2> QED
    BY <2>1, <2>2 DEF Invariant
<1>4. UserEvents'
  BY <1>0 DEF Invariant, UserEvents
<1>5. \A b : Arrivals(b) => Arrivals(b)'
  BY <1>0 DEF Arrivals, ByOthers
<1>6. Settling => Settling'
  <2>1. \A w, f : Underway(w, f) => Underway(w, f)'
    BY <1>0 DEF Underway, Reached, Arrived
  <2>2. \A w, d, f : Told(w, d, f) => Told(w, d, f)'
    BY <1>0 DEF Told, Receiving
  <2> QED
    BY <1>0, <2>1, <2>2 DEF Settling
<1>7. NothingTyped' /\ NoneAstray' => (\A b \in Box : Arrivals(b)') /\ ServedKnown' /\ Settling'
  <2>1. (NothingTyped' <=> NothingTyped) /\ (NoneAstray' <=> NoneAstray) /\ (ServedKnown => ServedKnown')
    BY <1>0 DEF NothingTyped, NoneAstray, ServedKnown
  <2> QED
    BY <1>5, <1>6, <2>1 DEF Invariant
<1> QED
  BY <1>1, <1>2, <1>3, <1>4, <1>7 DEF Invariant

LEMMA InvariantKept ==
  ASSUME Invariant, [Next]_vars
  PROVE  Invariant'
<1>1. CASE Next
  <2>1. PICK a \in Box : Step(a)
    BY <1>1, NextIs
  <2>2. TypeOK'
    BY TypesKept DEF Invariant
  <2> QED
    BY <2>1, <2>2, StepKept
<1>2. CASE UNCHANGED vars
  BY <1>2, StutterKept
<1> QED
  BY <1>1, <1>2

-----------------------------------------------------------------------------
(* The theorems *)

\* What the properties rest on holds for any number of boxes and files, any contents
\* at first and any interleaving of the boxes' threads with the server's: where
\* nothing was typed and the connections are in step, the inotify thread has the
\* Instruction for itself (Box.cpp:204-231), and a sole writer's change is in its
\* queue, in its thread's hand, on its connection, with the server or on its way to
\* the other boxes, and no older one comes after it.
THEOREM InvariantHolds == Spec => []Invariant
BY InitInvariant, InvariantKept, PTL DEF Spec

\* Every variable keeps its type, and contents are in a thread's hand only between
\* opening a file and sending it (upload_file).
THEOREM TypesCorrect == Spec => []TypeOK
<1>1. Invariant => TypeOK
  BY DEF Invariant
<1> QED
  BY <1>1, InvariantHolds, PTL

\* As long as a box's connections are in step, the static Instruction gives a file's
\* contents another name only when a line was typed there (Box.cpp:204,
\* Instruction.cpp:96).
THEOREM MisnamedOnlyWhenTypedHolds == Spec => []MisnamedOnlyWhenTyped
<1>1. Invariant => MisnamedOnlyWhenTyped
  <2> SUFFICES ASSUME Invariant, NEW b \in Box, NEW t \in Thread, b \notin Disturbed,
                      session[b][t].op = "upload"
               PROVE  session[b][t].file = session[b][t].of.file
    BY DEF MisnamedOnlyWhenTyped
  <2>1. Undisturbed(b)
    BY DEF Invariant
  <2>2. t = "inotify"
    BY <2>1 DEF Undisturbed, Nothing, Thread
  <2> QED
    BY <2>1, <2>2 DEF Undisturbed, Own
<1> QED
  BY <1>1, InvariantHolds, PTL

\* With nothing typed and the connections in step the server sends a box a file only
\* because another box's user changed it, or because an event of the server's was
\* propagated (Server.cpp:938).
THEOREM PushedByOthersHolds == Spec => []PushedByOthers
<1>1. Invariant => PushedByOthers
  BY DEF Invariant, PushedByOthers, Arrivals, ByOthers
<1> QED
  BY <1>1, InvariantHolds, PTL

\* Once all is quiet, a file that exactly one user changed is the same in every
\* folder and on the server, whatever they held before, unless
\* instruction_source_is_server was wrong about an event of it, a line was typed or
\* a connection went out of step (Box.cpp:194, Box.cpp:249, Client.cpp:106).
THEOREM ConvergesHolds == Spec => []Converges
<1>1. Invariant => Converges
  <2> SUFFICES ASSUME Invariant, Quiet, NothingTyped, NoneAstray,
                      NEW f \in File, f \notin skipped \cup echoed,
                      Cardinality(writers[f]) = 1, NEW b \in Box
               PROVE  folder[b][f] = store[f]
    BY DEF Converges
  <2>0. /\ \A c \in Box : /\ events[c] = <<>> /\ pushed[c] = <<>> /\ comm[c] = Nothing
                          /\ at[c]["inotify"] = "idle" /\ session[c]["inotify"] = Nothing
                          /\ batch[c] = <<>> /\ written[c]["inotify"] = <<>>
        /\ DOMAIN (<<>>) = {}
    BY DEF Quiet, Thread, Invariant, BatchesExamined
  <2>1. \E w \in Box : writers[f] = {w}
    <3>1. writers[f] \in SUBSET Box /\ IsFiniteSet(Box)
      BY BoxSyncAssumption DEF Invariant, TypeOK
    <3>2. IsFiniteSet(writers[f])
      BY <3>1, FS_Subset
    <3>3. \E x : writers[f] = {x}
      BY <3>2, FS_Singleton
    <3> QED
      BY <3>1, <3>3
  <2>2. PICK w \in Box : writers[f] = {w}
    BY <2>1
  <2>3. Underway(w, f) /\ (f \in served => \A d \in Box \ {w} : Told(w, d, f))
    BY <2>2 DEF Invariant, Settling
  <2>4. Reached(w, f)
    BY <2>0, <2>3 DEF Underway, Mentions
  <2>5. folder[w][f] = store[f] /\ f \in served
    BY <2>0, <2>4 DEF Reached, Arrived, Mentions, Nothing, Changing
  <2>6. CASE b # w
    <3>1. Receiving(b, f, store[f])
      BY <2>0, <2>3, <2>5, <2>6 DEF Told, Nothing
    <3> QED
      BY <2>0, <3>1 DEF Receiving, Mentions, Nothing, Changing
  <2> QED
    BY <2>5, <2>6
<1> QED
  BY <1>1, InvariantHolds, PTL
=============================================================================
