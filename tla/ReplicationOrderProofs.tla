---------------------- MODULE ReplicationOrderProofs ----------------------
(***************************************************************************)
(* Theorems about Replication, continued: every secondary hears of the     *)
(* changes of the table in their order; its table is then the primary's as *)
(* it was, whatever fits there fits here, and its files are the primary's  *)
(* when all is quiet.  The theorems are at the end, with the invariant     *)
(* that is kept by every step.                                             *)
(***************************************************************************)
EXTENDS ReplicationProofs

-----------------------------------------------------------------------------
(* The changes on their way to one secondary *)

\* IsChange, for the history p.
ChangeIn(p, op, n) == n \in 1 .. Len(p) - 1 /\ p[n + 1] = Applied(op, p[n])

\* InOrder, for the stream q of a secondary that has carried out the change last and
\* has been sent all up to the change sent.
Carries(q, last, sent, p) ==
  /\ \A i \in DOMAIN q : IsUser(q, i) => ChangeIn(p, q[i].op, q[i].n)
  /\ \A i, j \in DOMAIN q : IsUser(q, j) /\ q[j].half = 1 /\ Prior(q, UserKinds, i, j) =>
       q[j].n = q[i].n + 1
  /\ \A j \in DOMAIN q : IsUser(q, j) /\ last # 0 =>
       (\E i \in DOMAIN q : Prior(q, UserKinds, i, j)) \/ q[j].n = last + 1
  /\ \A i \in DOMAIN q : Latest(q, UserKinds, i) => q[i].n = sent
  /\ last # 0 => last = sent \/ \E i \in DOMAIN q : IsUser(q, i)

\* Nothing has been sent.
LEMMA CarriesNothing ==
  ASSUME NEW q, Len(q) \in Nat, DOMAIN q = 1 .. Len(q), \A i \in DOMAIN q : ~ IsUser(q, i),
         NEW sent, NEW p
  PROVE  Carries(q, 0, sent, p)
<1>1. \A i \in DOMAIN q : ~ Latest(q, UserKinds, i)
  BY DEF Latest, Prior, IsUser
<1> QED
  BY <1>1 DEF Carries

\* The table changes once more.
LEMMA CarriesLonger ==
  ASSUME NEW q, NEW last, NEW sent, NEW p, Carries(q, last, sent, p), NEW v, NEW r, Added(p, v, r)
  PROVE  Carries(q, last, sent, r)
<1>1. ASSUME NEW op, NEW n, ChangeIn(p, op, n)
      PROVE  ChangeIn(r, op, n)
  <2>1. Len(p) \in Nat /\ Len(r) = Len(p) + 1 /\ \A i \in 1 .. Len(p) : r[i] = p[i]
    BY DEF Added
  <2>2. n \in 1 .. Len(p) /\ n + 1 \in 1 .. Len(p) /\ n \in 1 .. Len(r) - 1
    BY <1>1, <2>1 DEF ChangeIn
  <2> QED
    BY <1>1, <2>1, <2>2 DEF ChangeIn
<1> QED
  BY <1>1 DEF Carries

LEMMA UserOfAdded ==
  ASSUME NEW q, NEW e, NEW r, Added(q, e, r)
  PROVE  /\ \A i : i \in DOMAIN q => i \in DOMAIN r /\ r[i] = q[i]
         /\ \A i : i \in DOMAIN r <=> i \in DOMAIN q \/ i = Len(q) + 1
         /\ r[Len(q) + 1] = e /\ Len(q) + 1 \notin DOMAIN q
         /\ \A i : i # Len(q) + 1 => (IsUser(r, i) <=> IsUser(q, i))
BY DEF Added, IsUser

\* An acknowledgement or half a frame of a file is sent.
LEMMA CarriesOther ==
  ASSUME NEW q, NEW last, NEW sent, NEW p, Carries(q, last, sent, p), NEW e, NEW r, Added(q, e, r),
         e.op.kind \notin UserKinds
  PROVE  Carries(r, last, sent, p)
<1>1. /\ \A i : i \in DOMAIN q => i \in DOMAIN r /\ r[i] = q[i]
      /\ \A i : IsUser(r, i) <=> IsUser(q, i)
  BY UserOfAdded DEF IsUser
<1>2. DOMAIN r = 1 .. Len(q) + 1 /\ DOMAIN q = 1 .. Len(q) /\ Len(q) \in Nat
  BY DEF Added
<1>3. \A i : Latest(r, UserKinds, i) <=> Latest(q, UserKinds, i)
  BY LatestOfAdded
<1>4. \A j \in DOMAIN q : \A i : Prior(r, UserKinds, i, j) <=> Prior(q, UserKinds, i, j)
  BY <1>2, PriorOfAdded
<1>5. \A j \in DOMAIN q : \A i : Prior(q, UserKinds, i, j) => i \in DOMAIN q
  BY <1>2 DEF Prior
<1>6. \A i : Latest(q, UserKinds, i) => i \in DOMAIN q
  BY <1>2 DEF Latest, Prior
<1>7. \A i : IsUser(q, i) => i \in DOMAIN q
  BY DEF IsUser
<1>8. \A i \in DOMAIN r : IsUser(r, i) => ChangeIn(p, r[i].op, r[i].n)
  BY <1>1, <1>7 DEF Carries
<1>9. \A i, j \in DOMAIN r : IsUser(r, j) /\ r[j].half = 1 /\ Prior(r, UserKinds, i, j) =>
        r[j].n = r[i].n + 1
  <2>1. SUFFICES ASSUME NEW i \in DOMAIN r, NEW j \in DOMAIN r, IsUser(r, j), r[j].half = 1,
                        Prior(r, UserKinds, i, j)
                 PROVE  r[j].n = r[i].n + 1
    OBVIOUS
  <2>2. j \in DOMAIN q /\ IsUser(q, j) /\ r[j] = q[j]
    BY <1>1, <1>7, <2>1
  <2>3. i \in DOMAIN q /\ Prior(q, UserKinds, i, j) /\ r[i] = q[i]
    BY <1>1, <1>4, <1>5, <2>1, <2>2
  <2> QED
    BY <2>1, <2>2, <2>3 DEF Carries
<1>10. \A j \in DOMAIN r : IsUser(r, j) /\ last # 0 =>
         (\E i \in DOMAIN r : Prior(r, UserKinds, i, j)) \/ r[j].n = last + 1
  <2>1. SUFFICES ASSUME NEW j \in DOMAIN r, IsUser(r, j), last # 0, r[j].n # last + 1
                 PROVE  \E i \in DOMAIN r : Prior(r, UserKinds, i, j)
    OBVIOUS
  <2>2. j \in DOMAIN q /\ IsUser(q, j) /\ r[j] = q[j]
    BY <1>1, <1>7, <2>1
  <2>3. PICK i \in DOMAIN q : Prior(q, UserKinds, i, j)
    BY <2>1, <2>2 DEF Carries
  <2> QED
    BY <1>1, <1>4, <2>2, <2>3
<1>11. \A i \in DOMAIN r : Latest(r, UserKinds, i) => r[i].n = sent
  BY <1>1, <1>3, <1>6 DEF Carries
<1>12. last # 0 => last = sent \/ \E i \in DOMAIN r : IsUser(r, i)
  BY <1>1 DEF Carries
<1> QED
  BY <1>8, <1>9, <1>10, <1>11, <1>12 DEF Carries

\* The first or the second half of a frame about the next change of the table is sent.
LEMMA CarriesNext ==
  ASSUME NEW q, NEW last, NEW sent \in Int, NEW p, Carries(q, last, sent, p),
         NEW e, NEW r, Added(q, e, r), e.op.kind \in UserKinds, ChangeIn(p, e.op, e.n),
         \/ e.half = 1 /\ e.n = sent + 1
         \/ /\ e.half = 2 /\ e.n = sent
            /\ \E i \in DOMAIN q : Latest(q, UserKinds, i)
  PROVE  Carries(r, last, e.n, p)
<1>1. /\ \A i : i \in DOMAIN q => i \in DOMAIN r /\ r[i] = q[i]
      /\ \A i : i \in DOMAIN r <=> i \in DOMAIN q \/ i = Len(q) + 1
      /\ r[Len(q) + 1] = e /\ Len(q) + 1 \notin DOMAIN q
      /\ \A i : i # Len(q) + 1 => (IsUser(r, i) <=> IsUser(q, i))
  BY UserOfAdded
<1>2. DOMAIN r = 1 .. Len(q) + 1 /\ DOMAIN q = 1 .. Len(q) /\ Len(q) \in Nat
  BY DEF Added
<1>3. \A i : Latest(r, UserKinds, i) => i = Len(q) + 1
  BY LatestOfAdded
<1>4. \A j \in DOMAIN r : \A i : Prior(r, UserKinds, i, j) <=> Prior(q, UserKinds, i, j)
  BY <1>2, PriorOfAdded
<1>5. \A j \in DOMAIN r : \A i : Prior(q, UserKinds, i, j) => i \in DOMAIN q
  BY <1>2 DEF Prior
<1>6. \A i : Prior(q, UserKinds, i, Len(q) + 1) <=> Latest(q, UserKinds, i)
  BY DEF Latest
<1>7. IsUser(r, Len(q) + 1) /\ Len(q) + 1 \in DOMAIN r
  BY <1>1 DEF IsUser
<1>8. \A i \in DOMAIN r : IsUser(r, i) => ChangeIn(p, r[i].op, r[i].n)
  BY <1>1 DEF Carries
<1>9. \A i, j \in DOMAIN r : IsUser(r, j) /\ r[j].half = 1 /\ Prior(r, UserKinds, i, j) =>
        r[j].n = r[i].n + 1
  <2>1. SUFFICES ASSUME NEW i \in DOMAIN r, NEW j \in DOMAIN r, IsUser(r, j), r[j].half = 1,
                        Prior(r, UserKinds, i, j)
                 PROVE  r[j].n = r[i].n + 1
    OBVIOUS
  <2>2. i \in DOMAIN q /\ Prior(q, UserKinds, i, j) /\ r[i] = q[i]
    BY <1>1, <1>4, <1>5, <2>1
  <2>3. CASE j = Len(q) + 1
    <3>1. Latest(q, UserKinds, i) /\ r[j] = e
      BY <1>1, <1>6, <2>2, <2>3
    <3>2. q[i].n = sent
      BY <2>2, <3>1 DEF Carries
    <3>3. e.half = 1 /\ e.n = sent + 1
      BY <2>1, <3>1
    <3> QED
      BY <2>2, <3>1, <3>2, <3>3
  <2>4. CASE j # Len(q) + 1
    <3>1. j \in DOMAIN q /\ IsUser(q, j) /\ r[j] = q[j]
      BY <1>1, <2>1, <2>4
    <3> QED
      BY <2>1, <2>2, <3>1 DEF Carries
  <2> QED
    BY <2>3, <2>4
<1>10. \A j \in DOMAIN r : IsUser(r, j) /\ last # 0 =>
         (\E i \in DOMAIN r : Prior(r, UserKinds, i, j)) \/ r[j].n = last + 1
  <2>1. SUFFICES ASSUME NEW j \in DOMAIN r, IsUser(r, j), last # 0,
                        ~ \E i \in DOMAIN r : Prior(r, UserKinds, i, j)
                 PROVE  r[j].n = last + 1
    OBVIOUS
  <2>2. ~ \E i \in DOMAIN q : Prior(q, UserKinds, i, j)
    BY <1>1, <1>4, <2>1
  <2>3. CASE j = Len(q) + 1
    <3>1. ~ \E i \in DOMAIN q : Latest(q, UserKinds, i)
      BY <1>6, <2>2, <2>3
    <3>2. e.n = sent + 1
      BY <3>1
    <3>3. ASSUME NEW m \in DOMAIN q
          PROVE  ~ IsUser(q, m)
      <4>1. SUFFICES ASSUME q[m].op.kind \in UserKinds
                     PROVE  FALSE
        BY DEF IsUser
      <4>2. PICK k \in Nat : k = Len(q) + 1 /\ m \in 1 .. k - 1 /\ DOMAIN q = 1 .. k - 1
        BY <1>2
      <4>3. \E i \in 1 .. k - 1 : Prior(q, UserKinds, i, k)
        BY <4>1, <4>2, PriorExists
      <4> QED
        BY <3>1, <4>2, <4>3 DEF Latest
    <3>4. last = sent
      BY <2>1, <3>3 DEF Carries
    <3> QED
      BY <1>1, <2>3, <3>2, <3>4
  <2>4. CASE j # Len(q) + 1
    <3>1. j \in DOMAIN q /\ IsUser(q, j) /\ r[j] = q[j]
      BY <1>1, <2>1, <2>4
    <3> QED
      BY <2>1, <2>2, <3>1 DEF Carries
  <2> QED
    BY <2>3, <2>4
<1>11. \A i \in DOMAIN r : Latest(r, UserKinds, i) => r[i].n = e.n
  BY <1>1, <1>3
<1>12. \E i \in DOMAIN r : IsUser(r, i)
  BY <1>7
<1> QED
  BY <1>8, <1>9, <1>10, <1>11, <1>12 DEF Carries

\* The secondary reads what is at the front of its stream.
LEMMA CarriesRest ==
  ASSUME NEW q, NEW d \in {1, 2}, NEW r, Rest(q, d, r), Chunk(q, d), Unbroken(q, UserKinds),
         \A j \in DOMAIN q : q[j].half \in {1, 2} /\ [q[j] EXCEPT !.half = 1].half = 1,
         NEW last, NEW sent, NEW p, Carries(q, last, sent, p),
         NEW now, now = IF q[1].op.kind \in UserKinds THEN q[1].n ELSE last
  PROVE  Carries(r, now, sent, p)
<1>1. /\ Len(q) \in Nat /\ DOMAIN q = 1 .. Len(q) /\ Len(q) >= d
      /\ Len(r) = Len(q) - d /\ DOMAIN r = 1 .. Len(q) - d
      /\ \A i \in 1 .. Len(r) : r[i] = q[i + d]
  BY DEF Rest
<1>2. ASSUME NEW i \in DOMAIN r
      PROVE  /\ i \in 1 .. Len(r) /\ i + d \in DOMAIN q /\ r[i] = q[i + d]
             /\ IsUser(r, i) <=> IsUser(q, i + d)
             /\ i \in 1 .. Len(r) + 1 /\ i + d \in Nat /\ d + 1 <= i + d
  BY <1>1 DEF IsUser
<1>3. ASSUME NEW k \in DOMAIN q, k \notin 1 .. d
      PROVE  k - d \in 1 .. Len(r) /\ k - d \in DOMAIN r /\ (k - d) + d = k
  BY <1>1, <1>3
<1>4. "none" \notin UserKinds /\ Ack.op.kind = "none"
  BY NoneIsNoKind DEF Ack, NoOp
\* An entry behind the front is the first of its kind, or has the same one before it.
<1>5. ASSUME NEW m \in Nat, d + 1 <= m, m <= Len(q) + 1, NEW k \in DOMAIN q,
             Prior(q, UserKinds, k, m)
      PROVE  \/ k = 2 /\ d = 2 /\ q[2].half = 2 /\ q[1].op.kind \in UserKinds /\ q[2].n = q[1].n
             \/ k \notin 1 .. d
  <2>1. SUFFICES ASSUME k \in 1 .. d
                 PROVE  k = 2 /\ d = 2 /\ q[2].half = 2 /\ q[1].op.kind \in UserKinds /\ q[2].n = q[1].n
    OBVIOUS
  <2>2. k = 2 /\ d = 2 /\ q[k].half = 2
    BY <1>4, <1>5, <2>1, ChunkIsNotBefore
  <2>3. q[2].op.kind \in UserKinds
    BY <1>5, <2>2 DEF Prior
  <2> QED
    BY <2>2, <2>3 DEF Chunk
<1>6. \A i \in DOMAIN r : IsUser(r, i) => ChangeIn(p, r[i].op, r[i].n)
  BY <1>2 DEF Carries
<1>7. \A i, j \in DOMAIN r : IsUser(r, j) /\ r[j].half = 1 /\ Prior(r, UserKinds, i, j) =>
        r[j].n = r[i].n + 1
  <2>1. SUFFICES ASSUME NEW i \in DOMAIN r, NEW j \in DOMAIN r, IsUser(r, j), r[j].half = 1,
                        Prior(r, UserKinds, i, j)
                 PROVE  r[j].n = r[i].n + 1
    OBVIOUS
  <2>2. Prior(q, UserKinds, i + d, j + d)
    BY <1>2, <2>1, PriorOfRest
  <2> QED
    BY <1>2, <2>1, <2>2 DEF Carries
<1>8. \A j \in DOMAIN r : IsUser(r, j) /\ now # 0 =>
        (\E i \in DOMAIN r : Prior(r, UserKinds, i, j)) \/ r[j].n = now + 1
  <2>1. SUFFICES ASSUME NEW j \in DOMAIN r, IsUser(r, j), now # 0,
                        ~ \E i \in DOMAIN r : Prior(r, UserKinds, i, j)
                 PROVE  r[j].n = now + 1
    OBVIOUS
  <2>2. j + d \in DOMAIN q /\ r[j] = q[j + d] /\ IsUser(q, j + d) /\ j \in 1 .. Len(r) + 1
    BY <1>2, <2>1
  <2>3. PICK m \in Nat : m = j + d /\ d + 1 <= m /\ m <= Len(q) + 1
    BY <1>1, <1>2
  <2>4. ASSUME NEW k \in DOMAIN q, Prior(q, UserKinds, k, j + d)
        PROVE  k = 2 /\ d = 2 /\ q[2].half = 2 /\ q[1].op.kind \in UserKinds /\ q[2].n = q[1].n
    <3>1. SUFFICES ASSUME k \notin 1 .. d
                   PROVE  FALSE
      BY <1>5, <2>3, <2>4
    <3>2. PICK i \in 1 .. Len(r) : i = k - d /\ i + d = k /\ i \in DOMAIN r
      BY <1>3, <3>1
    <3>3. Prior(r, UserKinds, i, j)
      BY <2>2, <2>4, <3>2, PriorOfRest
    <3> QED
      BY <2>1, <3>2, <3>3
  <2>5. CASE q[1].op.kind \in UserKinds
    <3>1. 1 \in 1 .. (j + d) - 1 /\ j + d \in Nat
      BY <2>3
    <3>2. PICK k \in 1 .. (j + d) - 1 : Prior(q, UserKinds, k, j + d)
      BY <2>5, <3>1, PriorExists
    <3>3. k \in DOMAIN q
      BY <1>1, <2>2
    <3>4. k = 2 /\ q[2].half = 2 /\ q[2].n = now
      BY <2>4, <2>5, <3>2, <3>3
    <3>5. q[j + d].half = 1
      <4>1. SUFFICES ASSUME q[j + d].half # 1
                     PROVE  FALSE
        OBVIOUS
      <4>2. PICK i \in DOMAIN q : Prior(q, UserKinds, i, j + d) /\ q[i] = [q[j + d] EXCEPT !.half = 1]
        BY <2>2, <4>1 DEF Unbroken, IsUser
      <4>3. q[i].half = 1
        BY <2>2, <4>2
      <4>4. i = 2
        BY <2>4, <4>2
      <4> QED
        BY <3>4, <4>3, <4>4
    <3>6. q[j + d].n = q[2].n + 1
      BY <2>2, <3>2, <3>3, <3>4, <3>5 DEF Carries
    <3> QED
      BY <2>2, <3>4, <3>6
  <2>6. CASE q[1].op.kind \notin UserKinds
    <3>1. ~ \E k \in DOMAIN q : Prior(q, UserKinds, k, j + d)
      BY <2>4, <2>6
    <3> QED
      BY <2>1, <2>2, <2>6, <3>1 DEF Carries
  <2> QED
    BY <2>5, <2>6
<1>9. \A i \in DOMAIN r : Latest(r, UserKinds, i) => r[i].n = sent
  BY <1>2, LatestOfRest DEF Carries
<1>10. now # 0 => now = sent \/ \E i \in DOMAIN r : IsUser(r, i)
  <2>1. SUFFICES ASSUME now # 0, ~ \E i \in DOMAIN r : IsUser(r, i)
                 PROVE  now = sent
    OBVIOUS
  <2>2. ASSUME NEW k \in DOMAIN q, k \notin 1 .. d
        PROVE  ~ IsUser(q, k)
    <3>1. PICK i \in DOMAIN r : i + d = k
      BY <1>3, <2>2
    <3> QED
      BY <1>2, <2>1, <3>1
  <2>3. CASE q[1].op.kind \in UserKinds
    <3>1. PICK m \in Nat : m = Len(q) + 1 /\ d + 1 <= m /\ m <= Len(q) + 1 /\ 1 \in 1 .. m - 1
      BY <1>1
    <3>2. PICK k \in 1 .. m - 1 : Prior(q, UserKinds, k, m)
      BY <2>3, <3>1, PriorExists
    <3>3. k \in DOMAIN q /\ IsUser(q, k)
      BY <1>1, <3>1, <3>2 DEF Prior, IsUser
    <3>4. q[k].n = now
      BY <1>5, <2>2, <2>3, <3>1, <3>2, <3>3
    <3>5. Latest(q, UserKinds, k)
      BY <3>1, <3>2 DEF Latest
    <3> QED
      BY <3>3, <3>4, <3>5 DEF Carries
  <2>4. CASE q[1].op.kind \notin UserKinds
    <3>1. ASSUME NEW k \in 1 .. d
          PROVE  ~ IsUser(q, k)
      BY <1>4, <2>4 DEF Chunk, IsUser
    <3>2. ~ \E k \in DOMAIN q : IsUser(q, k)
      BY <2>2, <3>1
    <3> QED
      BY <2>1, <2>4, <3>2 DEF Carries
  <2> QED
    BY <2>3, <2>4
<1> QED
  BY <1>6, <1>7, <1>8, <1>9, <1>10 DEF Carries

-----------------------------------------------------------------------------
(* Changes are sent in their order. *)

\* A session thread in its loop over backupServers, under mutex_user_structure.
UserSender(w) == Sending(w) /\ worker[w].op.kind \in UserKinds

\* ... which is at the slot of n and does not write to n.
PassesBy(w, n) ==
  /\ worker[w].pc = "send" /\ worker[w].op.kind \in UserKinds
  /\ worker[w].slot = entering[n].slot /\ worker[w].to # n

\* n has heard of no change, and none is on its way.
Unheard(n) == secondary[n].last = 0 /\ \A i \in DOMAIN stream[n] : ~ IsUser(stream[n], i)

LEMMA ChangeIs == \A op, n : IsChange(op, n) <=> ChangeIn(past, op, n)
BY DEF IsChange, ChangeIn, Change

LEMMA ChangeIsNext ==
  ASSUME NEW p, p = past'
  PROVE  \A op, n : IsChange(op, n)' <=> ChangeIn(p, op, n)
BY DEF IsChange, ChangeIn, Change

LEMMA InOrderIs ==
  ASSUME NEW n \in Server
  PROVE  InOrder(n) <=> /\ ~ Listed(n) => secondary[n].last = 0
                        /\ Carries(stream[n], secondary[n].last, Sent(n), past)
                        /\ \A w \in Worker : PassesBy(w, n) => Unheard(n)
<1>1. PICK q, last, sent, p : q = stream[n] /\ last = secondary[n].last /\ sent = Sent(n) /\ p = past
  OBVIOUS
<1>2. \A op, k : IsChange(op, k) <=> ChangeIn(p, op, k)
  BY <1>1, ChangeIs
<1> QED
  BY <1>1, <1>2 DEF InOrder, Carries, PassesBy, Unheard

LEMMA InOrderIsNext ==
  ASSUME NEW n \in Server, NEW q, NEW last, NEW sent, NEW p,
         q = stream'[n], last = secondary'[n].last, sent = Sent(n)', p = past',
         ~ Listed(n)' => last = 0, Carries(q, last, sent, p),
         \A w \in Worker : PassesBy(w, n)' => Unheard(n)'
  PROVE  InOrder(n)'
<1>1. \A op, k : IsChange(op, k)' <=> ChangeIn(p, op, k)
  BY ChangeIsNext
<1> QED
  BY <1>1 DEF InOrder, Carries, PassesBy, Unheard

LEMMA ChangesAre ==
  Changes <=> /\ \A w \in Worker : UserSender(w) =>
                   worker[w].n = Change /\ IsChange(worker[w].op, Change)
              /\ \A n \in Server : Hearing(n) => InOrder(n)
BY DEF Changes, UserSender

LEMMA ChangesAreNext ==
  ASSUME \A w \in Worker : UserSender(w)' =>
           (worker[w].n = Change /\ IsChange(worker[w].op, Change))',
         \A n \in Server : Hearing(n)' => InOrder(n)'
  PROVE  Changes'
BY DEF Changes, UserSender

LEMMA OneUserSender ==
  ASSUME Locks, NEW v \in Worker, NEW w \in Worker, UserSender(v), UserSender(w)
  PROVE  v = w
BY OneSender DEF UserSender

LEMMA UnsentSends ==
  ASSUME NEW w \in Worker, NEW n \in Server
  PROVE  /\ Unsent(w, n) => Sending(w)
         /\ PassesBy(w, n) => UserSender(w)
         /\ Unsent(w, n)' => Sending(w)'
         /\ PassesBy(w, n)' => UserSender(w)'
BY DEF Unsent, Sending, PassesBy, UserSender

\* A secondary that is not listed has heard of nothing.
LEMMA NotListed ==
  ASSUME Frames, Changes, NEW n \in Server, Hearing(n), ~ Listed(n)
  PROVE  Unheard(n)
<1>1. secondary[n].last = 0
  BY ChangesAre, InOrderIs
<1>2. \A i \in DOMAIN stream[n] : stream[n][i] = Ack
  BY FramesAre DEF FramesOf
<1>3. Ack.op.kind \notin UserKinds
  BY NoneIsNoKind
<1> QED
  BY <1>1, <1>2, <1>3 DEF Unheard, IsUser

\* ... which is in order whatever has been sent to others.
LEMMA UnheardInOrder ==
  ASSUME stream' \in [Server -> Stream], NEW n \in Server, Unheard(n)'
  PROVE  InOrder(n)'
<1>1. PICK q \in Stream : q = stream'[n]
  OBVIOUS
<1>2. PICK sent, p : sent = Sent(n)' /\ p = past'
  OBVIOUS
<1>3. secondary'[n].last = 0 /\ \A i \in DOMAIN q : ~ IsUser(q, i)
  BY <1>1 DEF Unheard
<1>4. Carries(q, 0, sent, p)
  BY <1>3, CarriesNothing, SeqFacts DEF Stream
<1> QED
  BY <1>1, <1>2, <1>3, <1>4, InOrderIsNext

\* What has been sent to n does not depend on threads that send files.
LEMMA SentSame ==
  ASSUME NEW n \in Server, past' = past,
         \A w \in Worker : (worker'[w].op.kind \in UserKinds /\ Unsent(w, n)')
                              <=> (worker[w].op.kind \in UserKinds /\ Unsent(w, n))
  PROVE  Sent(n)' = Sent(n)
<1>1. Change' = Change
  BY DEF Change
<1>2. (\E w \in Worker : worker[w].op.kind \in UserKinds /\ Unsent(w, n))'
        <=> \E w \in Worker : worker[w].op.kind \in UserKinds /\ Unsent(w, n)
  OBVIOUS
<1> QED
  BY <1>1, <1>2 DEF Sent

\* n hears of nothing, and the senders of changes make no difference to it.
LEMMA InOrderMoved ==
  ASSUME NEW n \in Server, InOrder(n), stream'[n] = stream[n],
         secondary'[n].last = secondary[n].last, past' = past, Listed(n) => Listed(n)',
         \A w \in Worker : /\ (worker'[w].op.kind \in UserKinds /\ Unsent(w, n)')
                                <=> (worker[w].op.kind \in UserKinds /\ Unsent(w, n))
                           /\ PassesBy(w, n)' => PassesBy(w, n)
  PROVE  InOrder(n)'
<1>1. PICK q, last, sent, p : q = stream[n] /\ last = secondary[n].last /\ sent = Sent(n) /\ p = past
  OBVIOUS
<1>2. sent = Sent(n)'
  BY <1>1, SentSame
<1>3. /\ ~ Listed(n) => last = 0
      /\ Carries(q, last, sent, p)
      /\ \A w \in Worker : PassesBy(w, n) => Unheard(n)
  BY <1>1, InOrderIs
<1>4. Unheard(n)' <=> Unheard(n)
  BY DEF Unheard
<1> QED
  BY <1>1, <1>2, <1>3, <1>4, InOrderIsNext

\* No sender of changes moves.
LEMMA InOrderSame ==
  ASSUME NEW n \in Server, InOrder(n), stream'[n] = stream[n],
         secondary'[n].last = secondary[n].last, past' = past, Listed(n) => Listed(n)',
         entering'[n].slot = entering[n].slot,
         \A w \in Worker : worker'[w] = worker[w] \/ (~ UserSender(w) /\ ~ UserSender(w)')
  PROVE  InOrder(n)'
<1>1. ASSUME NEW w \in Worker
      PROVE  /\ (worker'[w].op.kind \in UserKinds /\ Unsent(w, n)')
                  <=> (worker[w].op.kind \in UserKinds /\ Unsent(w, n))
             /\ PassesBy(w, n)' => PassesBy(w, n)
  <2>1. CASE worker'[w] = worker[w]
    BY <2>1 DEF Unsent, PassesBy
  <2>2. CASE ~ UserSender(w) /\ ~ UserSender(w)'
    BY <2>2, UnsentSends DEF UserSender
  <2> QED
    BY <2>1, <2>2
<1> QED
  BY <1>1, InOrderMoved

\* A step in which no sender of changes moves, and nothing is written or read.
LEMMA ChangesSame ==
  ASSUME Changes, UNCHANGED <<past, stream, secondary, backupServers, entering>>,
         \A w \in Worker : worker'[w] = worker[w] \/ (~ UserSender(w) /\ ~ UserSender(w)')
  PROVE  Changes'
<1>1. \A n \in Server : Hearing(n)' => InOrder(n)'
  BY ChangesAre, InOrderSame DEF Hearing, Listed
<1>3. \A w \in Worker : UserSender(w)' => worker'[w] = worker[w] /\ UserSender(w)
  BY DEF UserSender, Sending
<1>4. ASSUME NEW w \in Worker, UserSender(w)'
      PROVE  (worker[w].n = Change /\ IsChange(worker[w].op, Change))'
  <2>1. worker'[w] = worker[w] /\ worker[w].n = Change /\ IsChange(worker[w].op, Change)
    BY <1>3, <1>4, ChangesAre
  <2> QED
    BY <2>1 DEF IsChange, Change
<1> QED
  BY <1>1, <1>4, ChangesAreNext

-----------------------------------------------------------------------------
(* Steps of the session threads *)

\* A step in which no change is begun or sent: w may come to the end of its loop.
Leaves(w) ==
  /\ UNCHANGED <<past, stream, secondary, backupServers, entering>>
  /\ \A v \in Worker \ {w} : worker'[v] = worker[v]
  /\ \/ worker' = worker
     \/ /\ ~ UserSender(w)'
        /\ UserSender(w) => worker[w].pc = "slots" /\ worker[w].slot \notin Slot

LEMMA Movements ==
  ASSUME TypeOK, Locks, Counted, Tables, NEW w \in Worker,
         WorkerStep(w) \/ \E op \in Workload : Begin(w, op)
  PROVE  ChangesTable(w) \/ VisitSlot(w) \/ SendHalf(w) \/ Leaves(w)
<1>1. worker \in [Worker -> WorkerState] /\ ops \in Numbers /\ worker[w].n \in Numbers
  BY WorkerFields DEF TypeOK, Numbers
<1>2. CASE Crash("nullUser") \/ Crash("nullDevice")
  BY <1>2 DEF Crash, remoteVars, tableVars, Leaves
<1>3. CASE Refuse(w)
  <2>1. worker[w].pc = "user_wait" /\ UNCHANGED <<past, stream, secondary, backupServers, entering>>
    BY <1>3 DEF Refuse, remoteVars, tableVars
  <2>2. (\A v \in Worker \ {w} : worker'[v] = worker[v]) /\ worker'[w].pc = "ended"
    BY <1>1, <1>3, RefuseIs DEF Turns
  <2> QED
    BY <2>1, <2>2 DEF Leaves, UserSender, Sending
<1>4. CASE WriteFile(w)
  <2>1. worker[w].pc = "write" /\ UNCHANGED <<past, stream, secondary, backupServers, entering>>
    BY <1>4 DEF WriteFile, remoteVars, tableVars
  <2>2. (\A v \in Worker \ {w} : worker'[v] = worker[v]) /\ worker'[w].pc = "notify_wait"
    BY <1>1, <1>4, GotoIs DEF WriteFile, Turns
  <2> QED
    BY <2>1, <2>2 DEF Leaves, UserSender, Sending
<1>5. CASE Notify(w) /\ ~ Crash("nullUser")
  <2>1. /\ worker[w].pc = "notify_wait" /\ Goto(w, "server_wait")
        /\ UNCHANGED <<past, stream, secondary, backupServers, entering>>
    BY <1>5 DEF Notify, remoteVars, tableVars
  <2>2. (\A v \in Worker \ {w} : worker'[v] = worker[v]) /\ worker'[w].pc = "server_wait"
    BY <1>1, <2>1, GotoIs DEF Turns
  <2> QED
    BY <2>1, <2>2 DEF Leaves, UserSender, Sending
<1>6. CASE LockServers(w)
  <2>1. /\ worker[w].pc = "server_wait" /\ GotoSlots(w, worker[w].n)
        /\ UNCHANGED <<past, stream, secondary, backupServers, entering>>
    BY <1>6 DEF LockServers, remoteVars, tableVars
  <2>2. (\A v \in Worker \ {w} : worker'[v] = worker[v]) /\ worker'[w].op = worker[w].op
    BY <1>1, <2>1, GotoSlotsIs DEF Turns
  <2>3. worker[w].op.kind \notin UserKinds
    BY <2>1, LocksAre, KindsAre DEF Holds, Busy
  <2> QED
    BY <2>1, <2>2, <2>3 DEF Leaves, UserSender
<1>7. CASE Finish(w)
  <2>1. /\ worker[w].pc = "slots" /\ worker[w].slot \notin Slot
        /\ UNCHANGED <<past, stream, secondary, backupServers, entering>>
    BY <1>7 DEF Finish, remoteVars, tableVars
  <2>2. (\A v \in Worker \ {w} : worker'[v] = worker[v]) /\ worker'[w].pc = "idle"
    BY <1>1, <1>7, FinishIs DEF Turns
  <2> QED
    BY <2>1, <2>2 DEF Leaves, UserSender, Sending
<1>8. ASSUME NEW op \in Workload, Begin(w, op)
      PROVE  Leaves(w)
  <2>1. worker[w].pc = "idle" /\ UNCHANGED <<past, stream, secondary, backupServers, entering>>
    BY <1>8 DEF Begin, remoteVars, tableVars
  <2>2. (\A v \in Worker \ {w} : worker'[v] = worker[v]) /\ worker'[w].pc \in {"user_wait", "write"}
    BY <1>1, <1>8, BeginIs DEF Turns
  <2> QED
    BY <2>1, <2>2 DEF Leaves, UserSender, Sending
<1> QED
  BY <1>2, <1>3, <1>4, <1>5, <1>6, <1>7, <1>8, LoginChanges, ExitChanges DEF WorkerStep

LEMMA LeavesChanges ==
  ASSUME TypeOK, Locks, Changes, NEW w \in Worker, Leaves(w)
  PROVE  Changes'
<1>1. ASSUME NEW n \in Server, NEW v \in Worker
      PROVE  /\ (worker'[v].op.kind \in UserKinds /\ Unsent(v, n)')
                  <=> (worker[v].op.kind \in UserKinds /\ Unsent(v, n))
             /\ PassesBy(v, n)' => PassesBy(v, n)
  <2>1. CASE worker'[v] = worker[v]
    BY <2>1 DEF Leaves, Unsent, PassesBy
  <2>2. CASE worker'[v] # worker[v]
    <3>1. v = w /\ ~ UserSender(w)' /\ (UserSender(w) => worker[w].pc = "slots" /\ worker[w].slot \notin Slot)
      BY <2>2 DEF Leaves
    <3>2. ASSUME UserSender(w)
          PROVE  ~ Unsent(w, n)
      <4>1. worker[w].slot \in 1 .. MaxServers + 1 /\ entering[n].slot \in 0 .. MaxServers
        BY <3>2, LocksAre DEF Holds, UserSender, TypeOK, EnteringState
      <4>2. worker[w].pc = "slots" /\ ~ (worker[w].slot <= entering[n].slot)
        BY <3>1, <3>2, <4>1, ReplicationAssumption DEF Slot
      <4> QED
        BY <4>2 DEF Unsent
    <3> QED
      BY <3>1, <3>2, UnsentSends DEF UserSender
  <2> QED
    BY <2>1, <2>2
<1>2. \A n \in Server : Hearing(n)' => InOrder(n)'
  BY <1>1, ChangesAre, InOrderMoved DEF Hearing, Listed, Leaves
<1>3. \A v \in Worker : UserSender(v)' => worker'[v] = worker[v] /\ UserSender(v)
  BY DEF UserSender, Sending, Leaves
<1>4. ASSUME NEW v \in Worker, UserSender(v)'
      PROVE  (worker[v].n = Change /\ IsChange(worker[v].op, Change))'
  <2>1. worker'[v] = worker[v] /\ worker[v].n = Change /\ IsChange(worker[v].op, Change)
    BY <1>3, <1>4, ChangesAre
  <2> QED
    BY <2>1 DEF IsChange, Change, Leaves
<1> QED
  BY <1>2, <1>4, ChangesAreNext

\* The table changes: nobody has been sent the new change.
LEMMA TableChanges ==
  ASSUME TypeOK, Locks, Slots, Frames, Changes, Tables, NEW w \in Worker, ChangesTable(w)
  PROVE  Changes'
<1>1. PICK op \in Op : op = worker[w].op /\ op.kind \in UserKinds
  BY DEF ChangesTable
<1>2. PICK us \in Table : us = users' /\ WellFormed(us)
  BY DEF ChangesTable
<1>3. PICK v \in SUBSET (UserName \X DeviceId) : v = View(us)
  BY <1>2, ViewType
<1>4. PICK p \in Seq(SUBSET (UserName \X DeviceId)) : p = past
  BY DEF TypeOK
<1>5. PICK r : r = past'
  OBVIOUS
<1>6. r = Append(p, v) /\ v = Applied(op, View(users))
  BY <1>1, <1>2, <1>3, <1>4, <1>5 DEF ChangesTable, View
<1>7. Added(p, v, r) /\ Len(p) \in Nat /\ Len(p) >= 1
  BY <1>4, <1>6, AppendIs, SeqFacts DEF Added, ChangesTable
<1>8. ASSUME NEW x \in Worker
      PROVE  ~ UserSender(x)
  <2>1. mutex_user = Nobody /\ x # Nobody
    BY ReplicationAssumption DEF ChangesTable
  <2> QED
    BY <2>1, LocksAre DEF Holds, UserSender
<1>9. /\ \A x \in Worker \ {w} : worker'[x] = worker[x]
      /\ worker'[w].pc = "slots" /\ worker'[w].op = op /\ worker'[w].n = Len(p) /\ worker'[w].slot = 1
      /\ UNCHANGED <<backupServers, entering, stream, secondary>>
  BY <1>1, <1>4 DEF ChangesTable, Turns
<1>10. Change = Len(p) - 1 /\ Change' = Len(p)
  BY <1>4, <1>5, <1>7 DEF Change, Added
<1>11. \A x \in Worker : UserSender(x)' => x = w
  BY <1>8, <1>9 DEF UserSender, Sending
<1>12. (worker[w].n = Change /\ IsChange(worker[w].op, Change))'
  <2>1. past[Len(past)] = View(users)
    BY DEF Tables
  <2>2. r[Len(p) + 1] = v /\ r[Len(p)] = p[Len(p)]
    BY <1>7 DEF Added
  <2>3. r[Len(p) + 1] = Applied(op, r[Len(p)])
    BY <1>4, <1>6, <2>1, <2>2
  <2>4. Len(p) \in 1 .. Len(r) - 1
    BY <1>7 DEF Added
  <2>5. ChangeIn(r, op, Len(p))
    BY <2>3, <2>4 DEF ChangeIn
  <2>6. IsChange(op, Len(p))'
    BY <1>5, <2>5, ChangeIsNext
  <2> QED
    BY <1>9, <1>10, <2>6
<1>13. ASSUME NEW n \in Server, Hearing(n)'
       PROVE  InOrder(n)'
  <2>1. Hearing(n) /\ (Listed(n)' <=> Listed(n)) /\ (Unheard(n)' <=> Unheard(n))
    BY <1>9, <1>13 DEF Hearing, Listed, Unheard
  <2>2. CASE ~ Listed(n)
    <3>1. Unheard(n)' /\ stream' \in [Server -> Stream]
      BY <1>9, <2>1, <2>2, NotListed DEF TypeOK
    <3> QED
      BY <3>1, UnheardInOrder
  <2>3. CASE Listed(n)
    <3>1. entering[n].slot \in Slot
      BY <2>3, SlotFacts
    <3>2. Unsent(w, n)' /\ worker'[w].op.kind \in UserKinds
      BY <1>1, <1>9, <3>1, ReplicationAssumption DEF Unsent, Slot
    <3>3. Sent(n) = Change
      BY <1>8, UnsentSends DEF Sent, UserSender
    <3>4. (\E x \in Worker : worker[x].op.kind \in UserKinds /\ Unsent(x, n))'
      BY <3>2
    <3>5. Sent(n)' = Change
      BY <1>7, <1>10, <3>4 DEF Sent
    <3>6. \A x \in Worker : ~ PassesBy(x, n)'
      BY <1>9, <1>11, UnsentSends DEF PassesBy
    <3>7. PICK q, last, sent : q = stream[n] /\ last = secondary[n].last /\ sent = Sent(n)
      OBVIOUS
    <3>8. Carries(q, last, sent, p)
      BY <1>4, <2>1, <3>7, ChangesAre, InOrderIs
    <3>9. Carries(q, last, sent, r)
      BY <1>7, <3>8, CarriesLonger
    <3>10. q = stream'[n] /\ last = secondary'[n].last /\ sent = Sent(n)'
      BY <1>9, <3>3, <3>5, <3>7
    <3> QED
      BY <1>5, <2>1, <2>3, <3>6, <3>9, <3>10, InOrderIsNext
  <2> QED
    BY <2>2, <2>3
<1> QED
  BY <1>11, <1>12, <1>13, ChangesAreNext

\* A thread comes to the next slot: it makes no difference to a secondary that is listed.
LEMMA VisitUnsent ==
  ASSUME TypeOK, Locks, Slots, NEW w \in Worker, VisitSlot(w), NEW n \in Server, Listed(n)
  PROVE  (Unsent(w, n)' <=> Unsent(w, n)) /\ ~ PassesBy(w, n)'
<1>1. PICK s \in Slot : s = worker[w].slot /\ worker[w].pc = "slots"
  BY DEF VisitSlot
<1>2. PICK b : b = backupServers[s]
  OBVIOUS
<1>3. IF b.id = NoServer
        THEN Turns(w, "slots", worker[w].op, worker[w].n, s + 1, worker[w].half, worker[w].to)
        ELSE Turns(w, "send", worker[w].op, worker[w].n, s, 1, b.socket)
  BY <1>1, <1>2, VisitSlotIs DEF TypeOK
<1>4. PICK t \in Slot : t = entering[n].slot /\ backupServers[t] = [id |-> n, socket |-> n]
  BY SlotFacts, SlotsAre DEF Placed
<1>5. t = s => b.id # NoServer /\ b.socket = n
  BY <1>2, <1>4, ReplicationAssumption
<1>6. t = entering'[n].slot /\ s \in Int /\ t \in Int
  BY <1>4 DEF Slot, VisitSlot, remoteVars
<1>7. CASE b.id = NoServer
  BY <1>1, <1>3, <1>4, <1>5, <1>6, <1>7 DEF Turns, Unsent, PassesBy
<1>8. CASE b.id # NoServer
  BY <1>1, <1>3, <1>4, <1>5, <1>6, <1>8 DEF Turns, Unsent, PassesBy
<1> QED
  BY <1>7, <1>8

LEMMA VisitChanges ==
  ASSUME TypeOK, Locks, Slots, Frames, Changes, NEW w \in Worker, VisitSlot(w)
  PROVE  Changes'
<1>1. PICK s \in Slot : s = worker[w].slot /\ worker[w].pc = "slots"
  BY DEF VisitSlot
<1>2. PICK b : b = backupServers[s]
  OBVIOUS
<1>3. IF b.id = NoServer
        THEN Turns(w, "slots", worker[w].op, worker[w].n, s + 1, worker[w].half, worker[w].to)
        ELSE Turns(w, "send", worker[w].op, worker[w].n, s, 1, b.socket)
  BY <1>1, <1>2, VisitSlotIs DEF TypeOK
<1>4. UNCHANGED <<past, stream, secondary, backupServers, entering>>
  BY DEF VisitSlot, tableVars, remoteVars
<1>5. /\ \A v \in Worker \ {w} : worker'[v] = worker[v]
      /\ worker'[w].op = worker[w].op /\ worker'[w].n = worker[w].n /\ Sending(w)'
  BY <1>3 DEF Turns, Sending
<1>6. CASE worker[w].op.kind \notin UserKinds
  <2>1. ~ UserSender(w) /\ ~ UserSender(w)'
    BY <1>5, <1>6 DEF UserSender
  <2> QED
    BY <1>4, <1>5, <2>1, ChangesSame
<1>7. ASSUME worker[w].op.kind \in UserKinds, NEW n \in Server, Hearing(n)'
      PROVE  InOrder(n)'
  <2>1. Hearing(n) /\ (Listed(n)' <=> Listed(n)) /\ (Unheard(n)' <=> Unheard(n))
    BY <1>4, <1>7 DEF Hearing, Listed, Unheard
  <2>2. CASE ~ Listed(n)
    <3>1. Unheard(n)' /\ stream' \in [Server -> Stream]
      BY <1>4, <2>1, <2>2, NotListed DEF TypeOK
    <3> QED
      BY <3>1, UnheardInOrder
  <2>3. CASE Listed(n)
    <3>4. (Unsent(w, n)' <=> Unsent(w, n)) /\ ~ PassesBy(w, n)'
      BY <2>3, VisitUnsent
    <3>5. ASSUME NEW v \in Worker
          PROVE  /\ (worker'[v].op.kind \in UserKinds /\ Unsent(v, n)')
                      <=> (worker[v].op.kind \in UserKinds /\ Unsent(v, n))
                 /\ PassesBy(v, n)' => PassesBy(v, n)
      <4>1. CASE v = w
        BY <1>5, <3>4, <4>1
      <4>2. CASE v # w
        BY <1>4, <1>5, <4>2 DEF Unsent, PassesBy
      <4> QED
        BY <4>1, <4>2
    <3>6. InOrder(n)
      BY <2>1, ChangesAre
    <3> QED
      BY <1>4, <2>1, <3>5, <3>6, InOrderMoved
  <2> QED
    BY <2>2, <2>3
<1>8. ASSUME NEW v \in Worker, UserSender(v)'
      PROVE  (worker[v].n = Change /\ IsChange(worker[v].op, Change))'
  <2>1. worker'[v].op = worker[v].op /\ worker'[v].n = worker[v].n
    BY <1>5
  <2>2. UserSender(v)
    BY <1>1, <1>5, <1>8, <2>1 DEF UserSender, Sending
  <2>3. worker[v].n = Change /\ IsChange(worker[v].op, Change)
    BY <2>2, ChangesAre
  <2> QED
    BY <1>4, <2>1, <2>3 DEF IsChange, Change
<1> QED
  BY <1>6, <1>7, <1>8, ChangesAreNext

\* n is sent an acknowledgement, or half a frame of a file.
LEMMA InOrderOther ==
  ASSUME NEW n \in Server, InOrder(n), NEW e, e.op.kind \notin UserKinds,
         Added(stream[n], e, stream'[n]),
         secondary'[n].last = secondary[n].last, past' = past, Listed(n) => Listed(n)',
         entering'[n].slot = entering[n].slot,
         \A w \in Worker : worker'[w] = worker[w] \/ (~ UserSender(w) /\ ~ UserSender(w)')
  PROVE  InOrder(n)'
<1>1. ASSUME NEW w \in Worker
      PROVE  /\ (worker'[w].op.kind \in UserKinds /\ Unsent(w, n)')
                  <=> (worker[w].op.kind \in UserKinds /\ Unsent(w, n))
             /\ PassesBy(w, n)' => PassesBy(w, n)
  <2>1. CASE worker'[w] = worker[w]
    BY <2>1 DEF Unsent, PassesBy
  <2>2. CASE ~ UserSender(w) /\ ~ UserSender(w)'
    BY <2>2, UnsentSends DEF UserSender
  <2> QED
    BY <2>1, <2>2
<1>2. PICK q, r, last, sent, p : q = stream[n] /\ r = stream'[n] /\ last = secondary[n].last
                                 /\ sent = Sent(n) /\ p = past
  OBVIOUS
<1>3. sent = Sent(n)'
  BY <1>1, <1>2, SentSame
<1>4. /\ ~ Listed(n) => last = 0
      /\ Carries(q, last, sent, p)
      /\ \A w \in Worker : PassesBy(w, n) => Unheard(n)
  BY <1>2, InOrderIs
<1>5. Carries(r, last, sent, p)
  BY <1>2, <1>4, CarriesOther
<1>6. Unheard(n) => Unheard(n)'
  <2>1. \A i : IsUser(r, i) => i \in DOMAIN q /\ IsUser(q, i)
    BY <1>2, UserOfAdded DEF IsUser
  <2> QED
    BY <1>2, <2>1 DEF Unheard
<1> QED
  BY <1>1, <1>2, <1>3, <1>4, <1>5, <1>6, InOrderIsNext

\* Half a frame is sent to another slot than that of n.
LEMMA SendUnsent ==
  ASSUME TypeOK, Locks, NEW w \in Worker, SendHalf(w), NEW n \in Server, entering[n].slot \in Slot,
         worker[w].slot # entering[n].slot
  PROVE  (Unsent(w, n)' <=> Unsent(w, n)) /\ ~ PassesBy(w, n)'
<1>1. PICK s \in Slot : s = worker[w].slot
  BY LocksAre DEF SendHalf, Holds
<1>2. /\ worker[w].pc = "send"
      /\ IF worker[w].half = 1
           THEN Turns(w, "send", worker[w].op, worker[w].n, s, 2, worker[w].to)
           ELSE Turns(w, "slots", worker[w].op, worker[w].n, s + 1, 0, NoServer)
  BY <1>1, SendHalfIs DEF TypeOK
<1>3. PICK t \in Slot : t = entering[n].slot /\ t = entering'[n].slot /\ s # t
  BY <1>1 DEF SendHalf
<1>4. s \in Int /\ t \in Int
  BY DEF Slot
<1>5. CASE worker[w].half = 1
  BY <1>1, <1>2, <1>3, <1>4, <1>5 DEF Turns, Unsent, PassesBy
<1>6. CASE worker[w].half # 1
  BY <1>1, <1>2, <1>3, <1>4, <1>6 DEF Turns, Unsent, PassesBy
<1> QED
  BY <1>5, <1>6

\* Half a frame is sent.
LEMMA SendChanges ==
  ASSUME TypeOK, Locks, Slots, Frames, Changes, NEW w \in Worker, SendHalf(w)
  PROVE  Changes'
<1> DEFINE x == worker[w]
<1>1. /\ x.pc = "send" /\ x.slot \in Slot /\ x.half \in {1, 2} /\ x.op \in Op /\ x.op \in Workload
      /\ x.n \in Numbers /\ x.to \in Server \cup {NoServer}
  BY LocksAre, WorkerFields, ReplicationAssumption DEF SendHalf, Holds, Busy, TypeOK
<1>2. IF x.half = 1 THEN Turns(w, "send", x.op, x.n, x.slot, 2, x.to)
                    ELSE Turns(w, "slots", x.op, x.n, x.slot + 1, 0, NoServer)
  BY <1>1, SendHalfIs DEF TypeOK
<1>3. UNCHANGED <<past, backupServers, entering, secondary>>
      /\ Write(x.to, [op |-> x.op, n |-> x.n, half |-> x.half])
  BY DEF SendHalf, tableVars
<1>4. PICK e \in Unit : e = [op |-> x.op, n |-> x.n, half |-> x.half]
  BY <1>1 DEF Unit, Numbers
<1>5. PICK to \in Server \cup {NoServer} : to = x.to
  BY <1>1
<1>6. /\ \A m \in Server \ {to} : stream'[m] = stream[m]
      /\ to \in Server => stream'[to] = IF Hearing(to) THEN Append(stream[to], e) ELSE stream[to]
      /\ stream' \in [Server -> Stream]
  BY <1>3, <1>4, <1>5, WriteIs
<1>7. (\A v \in Worker \ {w} : worker'[v] = worker[v]) /\ worker'[w].op = x.op /\ worker'[w].n = x.n
  BY <1>2 DEF Turns
<1>8. \A m \in Server : (Hearing(m)' <=> Hearing(m)) /\ (Listed(m)' <=> Listed(m))
  BY <1>3 DEF Hearing, Listed
<1>9. PICK s \in Slot : s = x.slot
  BY <1>1
<1>10. to \in Server => backupServers[s].socket = to /\ entering[to].slot = s /\ Listed(to)
  <2>1. SUFFICES ASSUME to \in Server
                 PROVE  backupServers[s].socket = to /\ entering[to].slot = s /\ Listed(to)
    OBVIOUS
  <2>2. backupServers[s].socket = to
    BY <1>1, <1>5, <1>9, <2>1, SlotsAre, ReplicationAssumption DEF Aimed
  <2>3. backupServers[s].id = to /\ to # NoServer
    BY <2>1, <2>2, SlotsAre, ReplicationAssumption DEF Belongs
  <2>4. entering[to].slot = s
    BY <2>3, SlotsAre DEF Belongs
  <2> QED
    BY <2>2, <2>4 DEF Listed
<1>11. ASSUME NEW m \in Server, Hearing(m), x.op.kind \notin UserKinds
       PROVE  InOrder(m)'
  <2>1. ~ UserSender(w) /\ ~ UserSender(w)'
    BY <1>7, <1>11 DEF UserSender
  <2>2. InOrder(m) /\ secondary'[m].last = secondary[m].last /\ entering'[m].slot = entering[m].slot
    BY <1>3, <1>11, ChangesAre
  <2>3. CASE m # to
    BY <1>3, <1>6, <1>7, <1>8, <2>1, <2>2, <2>3, InOrderSame
  <2>4. CASE m = to
    <3>1. PICK q \in Stream : q = stream[m]
      BY DEF TypeOK
    <3>2. Added(q, e, Append(q, e)) /\ stream'[m] = Append(q, e)
      BY <1>6, <1>11, <2>4, <3>1, AddedIs
    <3>3. Added(stream[m], e, stream'[m]) /\ e.op.kind \notin UserKinds
      BY <1>4, <1>11, <3>1, <3>2
    <3> QED
      BY <1>3, <1>7, <1>8, <2>1, <2>2, <3>3, InOrderOther
  <2> QED
    BY <2>3, <2>4
<1>12. ASSUME x.op.kind \in UserKinds
       PROVE  /\ UserSender(w) /\ x.n = Change /\ IsChange(x.op, Change)
              /\ \A v \in Worker \ {w} : ~ UserSender(v) /\ ~ UserSender(v)'
  <2>1. UserSender(w)
    BY <1>1, <1>12 DEF UserSender, Sending
  <2>2. \A v \in Worker \ {w} : ~ UserSender(v)
    BY <2>1, OneUserSender
  <2>3. \A v \in Worker \ {w} : ~ UserSender(v)'
    BY <1>7, <2>2 DEF UserSender, Sending
  <2> QED
    BY <2>1, <2>2, <2>3, ChangesAre
<1>13. ASSUME NEW m \in Server, Hearing(m), x.op.kind \in UserKinds, m # to
       PROVE  InOrder(m)'
  <2>1. /\ stream'[m] = stream[m] /\ secondary'[m] = secondary[m] /\ entering'[m] = entering[m]
        /\ InOrder(m)
    BY <1>3, <1>6, <1>13, ChangesAre
  <2>2. CASE Unheard(m)
    <3>1. Unheard(m)'
      BY <2>1, <2>2 DEF Unheard
    <3> QED
      BY <1>6, <3>1, UnheardInOrder
  <2>3. CASE ~ Unheard(m)
    <3>1. PICK t \in Slot : t = entering[m].slot
      BY <1>13, <2>3, NotListed, SlotFacts
    <3>2. t # s
      <4>1. SUFFICES ASSUME t = s
                     PROVE  Unheard(m)
        BY <2>3
      <4>2. PassesBy(w, m)
        BY <1>1, <1>5, <1>9, <1>13, <3>1, <4>1 DEF PassesBy
      <4> QED
        BY <2>1, <4>2, InOrderIs
    <3>4. (Unsent(w, m)' <=> Unsent(w, m)) /\ ~ PassesBy(w, m)'
      BY <1>9, <3>1, <3>2, SendUnsent
    <3>5. ASSUME NEW v \in Worker
          PROVE  /\ (worker'[v].op.kind \in UserKinds /\ Unsent(v, m)')
                      <=> (worker[v].op.kind \in UserKinds /\ Unsent(v, m))
                 /\ PassesBy(v, m)' => PassesBy(v, m)
      <4>1. CASE v = w
        BY <1>7, <3>4, <4>1
      <4>2. CASE v # w
        BY <1>3, <1>7, <4>2 DEF Unsent, PassesBy
      <4> QED
        BY <4>1, <4>2
    <3> QED
      BY <1>3, <1>8, <2>1, <3>5, InOrderMoved
  <2> QED
    BY <2>2, <2>3
<1>14. ASSUME to \in Server, Hearing(to), x.op.kind \in UserKinds
       PROVE  InOrder(to)'
  <2>1. PICK q \in Stream : q = stream[to]
    BY <1>14 DEF TypeOK
  <2>2. PICK r : r = stream'[to]
    OBVIOUS
  <2>3. Added(q, e, r)
    BY <1>6, <1>14, <2>1, <2>2, AddedIs
  <2>4. PICK sent \in Int : sent = Sent(to) /\ sent = IF x.half = 1 THEN Change - 1 ELSE Change
    <3>1. Unsent(w, to) <=> x.half = 1
      BY <1>1, <1>9, <1>10, <1>14, ReplicationAssumption DEF Unsent, Slot
    <3>2. (\E v \in Worker : worker[v].op.kind \in UserKinds /\ Unsent(v, to)) <=> Unsent(w, to)
      BY <1>12, <1>14, UnsentSends DEF UserSender
    <3>3. Change \in Int /\ Change - 1 \in Int
      BY SeqFacts DEF Change, TypeOK
    <3> QED
      BY <3>1, <3>2, <3>3 DEF Sent
  <2>5. Sent(to)' = Change /\ \A v \in Worker : ~ PassesBy(v, to)'
    <3>1. ~ Unsent(w, to)' /\ ~ PassesBy(w, to)'
      <4>1. entering'[to].slot = s /\ s \in Int
        BY <1>3, <1>10, <1>14 DEF Slot
      <4>2. CASE x.half = 1
        BY <1>1, <1>2, <1>5, <1>9, <4>1, <4>2 DEF Turns, Unsent, PassesBy
      <4>3. CASE x.half # 1
        BY <1>1, <1>2, <1>5, <1>9, <4>1, <4>3 DEF Turns, Unsent, PassesBy
      <4> QED
        BY <4>2, <4>3
    <3>2. ASSUME NEW v \in Worker
          PROVE  ~ PassesBy(v, to)' /\ ~ (worker'[v].op.kind \in UserKinds /\ Unsent(v, to)')
      <4>1. CASE v = w
        BY <3>1, <4>1
      <4>2. CASE v # w
        BY <1>12, <1>14, <4>2, UnsentSends DEF UserSender
      <4> QED
        BY <4>1, <4>2
    <3>3. ~ (\E v \in Worker : worker[v].op.kind \in UserKinds /\ Unsent(v, to))'
      BY <3>2
    <3>4. Change' = Change
      BY <1>3 DEF Change
    <3> QED
      BY <3>2, <3>3, <3>4 DEF Sent
  <2>6. PICK last, p : last = secondary[to].last /\ p = past
    OBVIOUS
  <2>7. Carries(q, last, sent, p)
    BY <1>14, <2>1, <2>4, <2>6, ChangesAre, InOrderIs
  <2>8. /\ e.op.kind \in UserKinds /\ ChangeIn(p, e.op, e.n) /\ e.n = Change /\ e.half = x.half
    BY <1>4, <1>12, <1>14, <2>6, ChangeIs
  <2>9. x.half = 2 => \E i \in DOMAIN q : Latest(q, UserKinds, i)
    <3>1. SUFFICES ASSUME x.half = 2
                   PROVE  \E i \in DOMAIN q : Latest(q, UserKinds, i)
      OBVIOUS
    <3>2. Halfway(w, to)
      BY <1>1, <1>5, <3>1 DEF Halfway
    <3>3. Framed(to, UserKinds)
      BY <1>14, FramesAre DEF FramesOf
    <3> QED
      BY <1>14, <2>1, <3>2, <3>3 DEF Framed
  <2>10. \/ e.half = 1 /\ e.n = sent + 1
         \/ /\ e.half = 2 /\ e.n = sent
            /\ \E i \in DOMAIN q : Latest(q, UserKinds, i)
    <3>1. Change \in Int
      BY SeqFacts DEF Change, TypeOK
    <3> QED
      BY <1>1, <2>4, <2>8, <2>9, <3>1
  <2>11. Carries(r, last, e.n, p)
    BY <2>3, <2>7, <2>8, <2>10, CarriesNext
  <2>12. last = secondary'[to].last /\ e.n = Sent(to)' /\ p = past' /\ Listed(to)'
    BY <1>3, <1>8, <1>10, <1>14, <2>5, <2>6, <2>8
  <2> QED
    BY <1>14, <2>2, <2>5, <2>11, <2>12, InOrderIsNext
<1>15. ASSUME NEW v \in Worker, UserSender(v)'
       PROVE  (worker[v].n = Change /\ IsChange(worker[v].op, Change))'
  <2>1. worker'[v].op = worker[v].op /\ worker'[v].n = worker[v].n
    BY <1>7
  <2>2. UserSender(v)
    BY <1>1, <1>7, <1>15, <2>1 DEF UserSender, Sending
  <2>3. worker[v].n = Change /\ IsChange(worker[v].op, Change)
    BY <2>2, ChangesAre
  <2> QED
    BY <1>3, <2>1, <2>3 DEF IsChange, Change
<1> QED
  BY <1>8, <1>11, <1>13, <1>14, <1>15, ChangesAreNext

-----------------------------------------------------------------------------
(* Steps of the registrations and of the secondaries *)

LEMMA EnterStepChanges ==
  ASSUME TypeOK, Locks, Slots, Frames, Changes, Tables, NEW n \in Server, Connect(n) \/ EnterStep(n)
  PROVE  Changes'
<1>1. /\ worker' = worker /\ past' = past
      /\ \A m \in Server : secondary'[m].last = secondary[m].last
      /\ \A m \in Server \ {n} : secondary'[m] = secondary[m] /\ entering'[m] = entering[m]
  <2>1. CASE Connect(n)
    <3>1. secondary \in [Server -> SecondaryState] /\ entering \in [Server -> EnteringState]
      BY DEF TypeOK
    <3>2. secondary' = [secondary EXCEPT ![n].state = "joining"] /\ worker' = worker /\ past' = past
          /\ Enter(n, "server_wait")
      BY <2>1 DEF Connect, tableVars
    <3>3. \A m \in Server : secondary'[m].last = secondary[m].last
      BY <3>1, <3>2 DEF SecondaryState
    <3> QED
      BY <3>1, <3>2, <3>3 DEF Enter
  <2>2. CASE EnterStep(n)
    <3>1. worker' = worker /\ past' = past /\ secondary' = secondary
      BY <2>2 DEF EnterStep, FindSlot, InsertId, InsertSocket, InsertFails, Acknowledge, tableVars
    <3>2. \A m \in Server \ {n} : entering'[m] = entering[m]
      BY <2>2 DEF EnterStep, FindSlot, InsertId, InsertSocket, InsertFails, Acknowledge, Enter, TypeOK
    <3> QED
      BY <3>1, <3>2
  <2> QED
    BY <2>1, <2>2
<1>2. \A m \in Server : Listed(m) => Listed(m)'
  <2>1. CASE InsertId(n) \/ InsertSocket(n)
    BY <2>1, ListedStays
  <2>2. CASE ~ (InsertId(n) \/ InsertSocket(n))
    <3>1. backupServers' = backupServers
      BY <2>2 DEF Connect, EnterStep, FindSlot, InsertFails, Acknowledge
    <3> QED
      BY <3>1 DEF Listed
  <2> QED
    BY <2>1, <2>2
<1>3. \A m \in Server \ {n} : stream'[m] = stream[m]
  BY WriteIs DEF Connect, EnterStep, FindSlot, InsertId, InsertSocket, InsertFails, Acknowledge
<1>4. stream' \in [Server -> Stream]
  BY WriteIs DEF Connect, EnterStep, FindSlot, InsertId, InsertSocket, InsertFails, Acknowledge, TypeOK
<1>5. ASSUME NEW m \in Server \ {n}, Hearing(m)'
      PROVE  InOrder(m)'
  <2>1. Hearing(m)
    BY <1>1, <1>5 DEF Hearing
  <2> QED
    BY <1>1, <1>2, <1>3, <2>1, ChangesAre, InOrderSame
<1>6. ASSUME Hearing(n)', Connect(n)
      PROVE  InOrder(n)'
  <2>1. secondary[n].state = "off" /\ stream' = stream
    BY <1>6 DEF Connect
  <2>2. stream'[n] = <<>>
    BY <2>1, FramesAre DEF FramesOf, Hearing
  <2>3. secondary[n].last = 0
    BY <2>1 DEF Tables, Off
  <2>4. Unheard(n)'
    <3>1. \A i \in DOMAIN stream'[n] : ~ IsUser(stream'[n], i)
      BY <1>4, <2>2, SeqFacts DEF Stream
    <3> QED
      BY <1>1, <2>3, <3>1 DEF Unheard
  <2> QED
    BY <1>4, <2>4, UnheardInOrder
<1>7. ASSUME Hearing(n)', FindSlot(n) \/ InsertId(n) \/ InsertSocket(n) \/ InsertFails(n)
      PROVE  InOrder(n)'
  <2>1. /\ entering[n].pc \in {"server_wait", "insert", "socket"}
        /\ stream' = stream /\ secondary' = secondary
    BY <1>7 DEF FindSlot, InsertId, InsertSocket, InsertFails
  <2>2. Hearing(n) /\ ~ Listed(n)
    BY <1>7, <2>1, SlotFacts DEF Hearing
  <2>3. Unheard(n)'
    BY <2>1, <2>2, NotListed DEF Unheard
  <2> QED
    BY <1>4, <2>3, UnheardInOrder
<1>8. ASSUME Hearing(n)', Acknowledge(n)
      PROVE  InOrder(n)'
  <2>1. Write(n, Ack) /\ UNCHANGED <<backupServers, secondary>> /\ entering'[n].slot = entering[n].slot
    BY <1>8 DEF Acknowledge, Enter, TypeOK, EnteringState
  <2>2. Hearing(n)
    BY <1>8, <2>1 DEF Hearing
  <2>3. PICK q \in Stream : q = stream[n]
    BY DEF TypeOK
  <2>4. Added(q, Ack, Append(q, Ack)) /\ stream'[n] = Append(q, Ack)
    BY <2>1, <2>2, <2>3, WriteIs, AddedIs
  <2>5. PICK e : e = Ack /\ e.op.kind \notin UserKinds
    BY NoneIsNoKind
  <2>6. Added(stream[n], e, stream'[n]) /\ InOrder(n)
    BY <2>2, <2>3, <2>4, <2>5, ChangesAre
  <2> QED
    BY <1>1, <1>2, <2>1, <2>5, <2>6, InOrderOther
<1>9. ASSUME NEW v \in Worker, UserSender(v)'
      PROVE  (worker[v].n = Change /\ IsChange(worker[v].op, Change))'
  <2>1. UserSender(v)
    BY <1>1, <1>9 DEF UserSender, Sending
  <2>2. worker[v].n = Change /\ IsChange(worker[v].op, Change)
    BY <2>1, ChangesAre
  <2> QED
    BY <1>1, <2>2 DEF IsChange, Change
<1>10. \A m \in Server : Hearing(m)' => InOrder(m)'
  BY <1>5, <1>6, <1>7, <1>8 DEF EnterStep
<1> QED
  BY <1>9, <1>10, ChangesAreNext

\* A secondary reads what is at the front of its stream.
LEMMA InOrderOfReader ==
  ASSUME TypeOK, NEW n \in Server, FramesOf(n), InOrder(n), Elsewhere(n),
         NEW d \in {1, 2}, Rest(stream[n], d, stream'[n]), Chunk(stream[n], d),
         secondary'[n].last = IF stream[n][1].op.kind \in UserKinds THEN stream[n][1].n
                                                                   ELSE secondary[n].last
  PROVE  InOrder(n)'
<1>1. PICK q \in Stream : q = stream[n]
  BY DEF TypeOK
<1>2. PICK r, last, now, sent, p : r = stream'[n] /\ last = secondary[n].last
        /\ now = secondary'[n].last /\ sent = Sent(n) /\ p = past
  OBVIOUS
<1>3. Rest(q, d, r) /\ Chunk(q, d) /\ now = IF q[1].op.kind \in UserKinds THEN q[1].n ELSE last
  BY <1>1, <1>2
<1>4. /\ Len(q) \in Nat /\ DOMAIN q = 1 .. Len(q) /\ Len(q) >= d
      /\ Len(r) = Len(q) - d /\ DOMAIN r = 1 .. Len(q) - d
      /\ \A i \in 1 .. Len(r) : r[i] = q[i + d]
  BY <1>3 DEF Rest
<1>5. \A j \in DOMAIN q : q[j] \in Unit \cup {Ack}
  BY SeqFacts DEF Stream
<1>6. \A j \in DOMAIN q : q[j].half \in {1, 2} /\ [q[j] EXCEPT !.half = 1].half = 1
  BY <1>5 DEF Unit, Ack
<1>7. Unbroken(q, UserKinds)
  BY <1>1 DEF FramesOf, Framed
<1>8. UNCHANGED <<worker, entering, backupServers, past>>
  BY DEF Elsewhere
<1>9. sent = Sent(n)' /\ (Listed(n)' <=> Listed(n)) /\ \A w \in Worker : PassesBy(w, n)' => PassesBy(w, n)
  <2>1. \A w \in Worker : (Unsent(w, n)' <=> Unsent(w, n)) /\ (PassesBy(w, n)' <=> PassesBy(w, n))
    BY <1>8 DEF Unsent, PassesBy
  <2>2. Sent(n)' = Sent(n)
    BY <1>8, <2>1, SentSame
  <2> QED
    BY <1>2, <1>8, <2>1, <2>2 DEF Listed
<1>10. /\ ~ Listed(n) => last = 0
       /\ Carries(q, last, sent, p)
       /\ \A w \in Worker : PassesBy(w, n) => Unheard(n)
  BY <1>1, <1>2, InOrderIs
<1>11. Carries(r, now, sent, p)
  BY <1>3, <1>6, <1>7, <1>10, CarriesRest
<1>12. 1 \in DOMAIN q
  BY <1>4
<1>13. ~ Listed(n) => now = 0
  <2>1. SUFFICES ASSUME ~ Listed(n)
                 PROVE  now = 0
    OBVIOUS
  <2>2. q[1] = Ack
    BY <1>1, <1>12, <2>1 DEF FramesOf
  <2>3. q[1].op.kind \notin UserKinds
    BY <2>2, NoneIsNoKind
  <2> QED
    BY <1>3, <1>10, <2>1, <2>3
<1>14. Unheard(n) => Unheard(n)'
  <2>1. SUFFICES ASSUME last = 0, \A i \in DOMAIN q : ~ IsUser(q, i)
                 PROVE  now = 0 /\ \A i \in DOMAIN r : ~ IsUser(r, i)
    BY <1>1, <1>2 DEF Unheard
  <2>2. now = 0
    BY <1>3, <1>12, <2>1 DEF IsUser
  <2>3. ASSUME NEW i \in DOMAIN r
        PROVE  ~ IsUser(r, i)
    <3>1. i + d \in DOMAIN q /\ r[i] = q[i + d]
      BY <1>4
    <3> QED
      BY <2>1, <3>1 DEF IsUser
  <2> QED
    BY <2>2, <2>3
<1> QED
  BY <1>2, <1>8, <1>9, <1>10, <1>11, <1>13, <1>14, InOrderIsNext

\* What the secondary has carried out after the frame.
LEMMA LastIs ==
  ASSUME NEW s, NEW t, NEW op, NEW k, Survives(s, t, op, k)
  PROVE  /\ t.last = IF op.kind \in UserKinds THEN k ELSE s.last
         /\ t.first = IF op.kind \in UserKinds /\ s.first = 0 THEN k ELSE s.first
BY DEF Survives, LogsIn, LogsOut, Stores, UserKinds, FileKinds

LEMMA SecondaryChanges ==
  ASSUME TypeOK, Locks, Frames, Changes, NEW n \in Server, SecondaryMoves(n)
  PROVE  Changes'
<1>1. Elsewhere(n)
  BY DEF SecondaryMoves, StopsAs, ReadsAck, ReadsWhole
<1>2. UNCHANGED <<past, worker, entering, backupServers>>
  BY <1>1 DEF Elsewhere
<1>3. ASSUME NEW m \in Server \ {n}, Hearing(m)'
      PROVE  InOrder(m)'
  <2>1. stream'[m] = stream[m] /\ secondary'[m] = secondary[m]
    BY <1>1 DEF Elsewhere
  <2>2. Hearing(m) /\ (Listed(m) => Listed(m)')
    BY <1>2, <1>3, <2>1 DEF Hearing, Listed
  <2> QED
    BY <1>2, <2>1, <2>2, ChangesAre, InOrderSame
<1>4. PICK q \in Stream : q = stream[n]
  BY DEF TypeOK
<1>5. ASSUME Hearing(n)'
      PROVE  InOrder(n)'
  <2>1. CASE \E state \in Stopped : StopsAs(n, state)
    BY <1>5, <2>1 DEF StopsAs, Stopped, Hearing
  <2>2. CASE ReadsAck(n)
    <3>1. /\ q # <<>> /\ Head(q) = Ack /\ stream'[n] = Tail(q) /\ Hearing(n)
          /\ secondary'[n].last = secondary[n].last
      BY <1>4, <2>2 DEF ReadsAck, Hearing
    <3>2. Rest(q, 1, Tail(q)) /\ q[1] = Ack
      BY <3>1, RestOfOne DEF Stream
    <3>3. Rest(stream[n], 1, stream'[n]) /\ Chunk(stream[n], 1) /\ stream[n][1].op.kind \notin UserKinds
      BY <1>4, <3>1, <3>2, NoneIsNoKind DEF Chunk
    <3>4. FramesOf(n) /\ InOrder(n)
      BY <3>1, FramesAre, ChangesAre
    <3> QED
      BY <1>1, <3>1, <3>3, <3>4, InOrderOfReader
  <2>3. CASE ReadsWhole(n)
    <3>1. /\ Len(q) > 1 /\ WholeFrame(q) /\ stream'[n] = Tail(Tail(q)) /\ Hearing(n)
          /\ Survives(secondary[n], secondary'[n], q[1].op, q[1].n)
      BY <1>4, <2>3 DEF ReadsWhole, Hearing
    <3>2. Rest(q, 2, Tail(Tail(q)))
      BY <3>1, RestOfTwo DEF Stream
    <3>3. q[2].op = q[1].op /\ q[2].n = q[1].n /\ q[1].half = 1 /\ q[2].half = 2
      BY <3>1, WholeFrameIs
    <3>4. Rest(stream[n], 2, stream'[n]) /\ Chunk(stream[n], 2)
      BY <1>4, <3>1, <3>2, <3>3 DEF Chunk
    <3>5. secondary'[n].last = IF stream[n][1].op.kind \in UserKinds THEN stream[n][1].n
                                                                    ELSE secondary[n].last
      BY <1>4, <3>1, LastIs
    <3>6. FramesOf(n) /\ InOrder(n)
      BY <3>1, FramesAre, ChangesAre
    <3> QED
      BY <1>1, <3>4, <3>5, <3>6, InOrderOfReader
  <2> QED
    BY <2>1, <2>2, <2>3 DEF SecondaryMoves, Stopped
<1>6. ASSUME NEW v \in Worker, UserSender(v)'
      PROVE  (worker[v].n = Change /\ IsChange(worker[v].op, Change))'
  <2>1. UserSender(v)
    BY <1>2, <1>6 DEF UserSender, Sending
  <2>2. worker[v].n = Change /\ IsChange(worker[v].op, Change)
    BY <2>1, ChangesAre
  <2> QED
    BY <1>2, <2>2 DEF IsChange, Change
<1>7. \A m \in Server : Hearing(m)' => InOrder(m)'
  BY <1>3, <1>5
<1> QED
  BY <1>6, <1>7, ChangesAreNext

LEMMA ChangesKept ==
  ASSUME TypeOK, Locks, Counted, Slots, Frames, Changes, Tables, [Next]_vars
  PROVE  Changes'
<1>1. CASE PrimaryStep
  <2>1. ASSUME NEW w \in Worker, WorkerStep(w) \/ \E op \in Workload : Begin(w, op)
        PROVE  Changes'
    BY <2>1, Movements, TableChanges, VisitChanges, SendChanges, LeavesChanges
  <2>2. ASSUME NEW n \in Server, Connect(n) \/ EnterStep(n)
        PROVE  Changes'
    BY <2>2, EnterStepChanges
  <2> QED
    BY <1>1, <2>1, <2>2 DEF PrimaryStep
<1>2. ASSUME NEW n \in Server, SecondaryStep(n) \/ KillSecondary(n)
      PROVE  Changes'
  BY <1>2, SecondaryMovesIs, SecondaryChanges
<1>3. CASE KillPrimary
  BY <1>3, ChangesSame DEF KillPrimary, remoteVars, tableVars
<1>4. CASE UNCHANGED vars
  BY <1>4, ChangesSame DEF vars
<1> QED
  BY <1>1, <1>2, <1>3, <1>4 DEF Next

-----------------------------------------------------------------------------
(* What fits into a table *)

LEMMA FirstsFinite ==
  ASSUME NEW S, IsFiniteSet(S)
  PROVE  IsFiniteSet({x[1] : x \in S})
<1> DEFINE T == {x[1] : x \in S}
           f == [x \in S |-> x[1]]
<1>1. f \in Surjection(S, T)
  BY DEF Surjection
<1> HIDE DEF T, f
<1>2. IsFiniteSet(T)
  BY <1>1, FS_Surjection
<1> QED
  BY <1>2 DEF T

LEMMA ViewIsFinite ==
  ASSUME NEW us
  PROVE  IsFiniteSet(View(us))
<1> DEFINE P == UserSlot \X DeviceSlot
           f == [p \in P |-> <<us[p[1]].name, us[p[1]].devices[p[2]].id>>]
           T == {f[p] : p \in P}
<1>1. IsFiniteSet(P)
  BY CountInterval, FS_Product, UserTableAssumption DEF UserSlot, DeviceSlot
<1>2. f \in Surjection(P, T)
  BY DEF Surjection
<1>3. View(us) \subseteq T
  BY DEF View
<1> HIDE DEF T, f, P
<1>4. IsFiniteSet(T)
  BY <1>1, <1>2, FS_Surjection
<1> QED
  BY <1>3, <1>4, FS_Subset

\* What is in a table fits into one,
LEMMA TableFits ==
  ASSUME NEW us \in Table, WellFormed(us)
  PROVE  Fits(View(us))
<1>1. MaxUsers \in Nat /\ MaxDevices \in Nat /\ UserSlot = 1 .. MaxUsers /\ DeviceSlot = 1 .. MaxDevices
  BY UserTableAssumption DEF UserSlot, DeviceSlot
<1>2. Cardinality({x[1] : x \in View(us)}) <= MaxUsers
  <2>1. PICK f : f = [u \in 1 .. MaxUsers |-> us[u].name]
    OBVIOUS
  <2>2. \A y \in {x[1] : x \in View(us)} : \E u \in 1 .. MaxUsers : y = f[u]
    BY <1>1, <2>1, ViewHas
  <2>3. f = [u \in 1 .. MaxUsers |-> f[u]]
    BY <2>1
  <2>4. PICK S : S = {x[1] : x \in View(us)}
    OBVIOUS
  <2> QED
    BY <1>1, <2>2, <2>3, <2>4, AtMost
<1>3. ASSUME NEW name \in UserName
      PROVE  Cardinality({x \in View(us) : x[1] = name}) <= MaxDevices
  <2>1. PICK S : S = {x \in View(us) : x[1] = name}
    OBVIOUS
  <2>2. CASE S = {}
    <3>1. Cardinality(S) = 0
      BY <2>2, FS_EmptySet
    <3> QED
      BY <1>1, <2>1, <3>1
  <2>3. CASE S # {}
    <3>1. PICK u \in UserSlot : us[u].name = name
      BY <2>1, <2>3, ViewHas
    <3>2. PICK f : f = [d \in 1 .. MaxDevices |-> <<us[u].name, us[u].devices[d].id>>]
      OBVIOUS
    <3>3. ASSUME NEW x \in S
          PROVE  \E d \in 1 .. MaxDevices : x = f[d]
      <4>1. PICK v \in UserSlot, d \in DeviceSlot : x = <<us[v].name, us[v].devices[d].id>>
        BY <2>1, <3>3, ViewHas
      <4>2. us[v].name = us[u].name
        BY <2>1, <3>1, <3>3, <4>1
      <4>3. v = u
        BY <3>1, <4>2, UserTableAssumption DEF WellFormed, UniqueNames
      <4> QED
        BY <1>1, <3>2, <4>1, <4>3
    <3>4. f = [d \in 1 .. MaxDevices |-> f[d]]
      BY <3>2
    <3> QED
      BY <1>1, <2>1, <3>3, <3>4, AtMost
  <2> QED
    BY <2>2, <2>3
<1> QED
  BY <1>2, <1>3, ViewIsFinite DEF Fits

\* ... and a table that holds less than what fits into one has room for the rest.
LEMMA RoomForTheRest ==
  ASSUME NEW us \in Table, WellFormed(us), NEW view, Fits(view), View(us) \subseteq view,
         NEW name \in UserName, NEW id \in DeviceId, <<name, id>> \in view,
         NEW type \in SocketType, NEW socket \in Descriptor, NEW r,
         r = handle_user_controller_structure(us, name, id, type, socket)
  PROVE  r.reply = "ack"
<1>1. MaxUsers \in Nat /\ MaxDevices \in Nat /\ UserSlot = 1 .. MaxUsers /\ DeviceSlot = 1 .. MaxDevices
  BY UserTableAssumption DEF UserSlot, DeviceSlot
<1>2. SUFFICES ASSUME r.reply # "ack"
               PROVE  FALSE
  OBVIOUS
<1>3. IF get_user(us, name) = 0
        THEN number_of_users_logged(us) = MaxUsers
        ELSE number_of_devices(us, name) = MaxDevices /\ get_device(us, id, name) = 0
  BY <1>2, LoginRefused DEF WellFormed
<1>4. \A u \in UserSlot, d \in DeviceSlot :
        us[u].devices[d].id # NoId => <<us[u].name, us[u].devices[d].id>> \in view
  BY ViewHas
<1>5. CASE get_user(us, name) = 0
  <2>1. PICK S \in SUBSET (1 .. MaxUsers) : S = {u \in UserSlot : us[u].name # NoName}
    BY <1>1
  <2>2. S = 1 .. MaxUsers
    BY <1>1, <1>3, <1>5, <2>1, WholeInterval DEF number_of_users_logged
  <2>3. PICK f : f = [u \in 1 .. MaxUsers |-> us[u].name]
    OBVIOUS
  <2>4. PICK T : T = {x[1] : x \in view}
    OBVIOUS
  <2>5. IsFiniteSet(T) /\ Cardinality(T) <= MaxUsers
    BY <2>4, FirstsFinite DEF Fits
  <2>6. ASSUME NEW u \in 1 .. MaxUsers
        PROVE  f[u] \in T /\ f[u] # name
    <3>1. us[u].name # NoName
      BY <1>1, <2>1, <2>2
    <3>2. PICK d \in DeviceSlot : us[u].devices[d].id # NoId
      BY <1>1, <3>1 DEF WellFormed, NamedWhileConnected, Connected
    <3>3. <<us[u].name, us[u].devices[d].id>> \in view
      BY <1>1, <1>4, <3>2
    <3>4. us[u].name # name
      BY <1>1, <1>5, GetUser
    <3> QED
      BY <2>3, <2>4, <3>3, <3>4
  <2>7. \A u, v \in 1 .. MaxUsers : f[u] = f[v] => u = v
    <3>1. SUFFICES ASSUME NEW u \in UserSlot, NEW v \in UserSlot, us[u].name = us[v].name
                   PROVE  u = v
      BY <1>1, <2>3
    <3>2. us[u].name # NoName
      BY <1>1, <2>1, <2>2
    <3> QED
      BY <3>1, <3>2 DEF WellFormed, UniqueNames
  <2>8. name \in T
    BY <2>4
  <2>9. f = [u \in 1 .. MaxUsers |-> f[u]]
    BY <2>3
  <2>10. Cardinality(T) > MaxUsers
    BY <1>1, <2>5, <2>6, <2>7, <2>8, <2>9, MoreThan
  <2>11. Cardinality(T) \in Nat
    BY <2>5, FS_CardinalityType
  <2> QED
    BY <1>1, <2>5, <2>10, <2>11
<1>6. CASE get_user(us, name) # 0
  <2>1. PICK u \in UserSlot : u = get_user(us, name) /\ us[u].name = name
    BY <1>6, GetUser
  <2>2. PICK S \in SUBSET (1 .. MaxDevices) : S = Connected(us, u)
    BY <1>1 DEF Connected
  <2>3. S = 1 .. MaxDevices
    BY <1>1, <1>3, <1>6, <2>1, <2>2, WholeInterval DEF number_of_devices
  <2>4. PICK f : f = [d \in 1 .. MaxDevices |-> <<us[u].name, us[u].devices[d].id>>]
    OBVIOUS
  <2>5. PICK T : T = {x \in view : x[1] = name}
    OBVIOUS
  <2>6. IsFiniteSet(T) /\ Cardinality(T) <= MaxDevices
    BY <2>5, FS_Subset DEF Fits
  <2>7. \A d \in DeviceSlot : us[u].devices[d].id # NoId /\ us[u].devices[d].id # id
    <3>1. DeviceOf(us, u, id) = 0
      BY <1>3, <1>6, <2>1 DEF get_device
    <3> QED
      BY <1>1, <2>2, <2>3, <3>1, FindDevice DEF Connected
  <2>8. ASSUME NEW d \in 1 .. MaxDevices
        PROVE  f[d] \in T /\ f[d] # <<name, id>>
    BY <1>1, <1>4, <2>1, <2>4, <2>5, <2>7
  <2>9. \A d, e \in 1 .. MaxDevices : f[d] = f[e] => d = e
    BY <1>1, <2>4, <2>7 DEF WellFormed, UniqueIds
  <2>10. <<name, id>> \in T
    BY <2>5
  <2>11. f = [d \in 1 .. MaxDevices |-> f[d]]
    BY <2>4
  <2>12. Cardinality(T) > MaxDevices
    BY <1>1, <2>6, <2>8, <2>9, <2>10, <2>11, MoreThan
  <2>13. Cardinality(T) \in Nat
    BY <2>6, FS_CardinalityType
  <2> QED
    BY <1>1, <2>6, <2>12, <2>13
<1> QED
  BY <1>5, <1>6

-----------------------------------------------------------------------------
(* What a secondary knows *)

\* Tables, for a secondary in state s when the history is p.
Knows(s, p) ==
  /\ s.first = 0 <=> s.last = 0
  /\ s.last \in 0 .. Len(p) - 1
  /\ WellFormed(s.users)
  /\ View(s.users) \subseteq p[s.last + 1]
  /\ s.first = 1 => View(s.users) = p[s.last + 1]
  /\ s.last = 0 => View(s.users) = {}

LEMMA TablesAre ==
  Tables <=>
    /\ WellFormed(users) /\ past # <<>> /\ past[1] = {} /\ past[Len(past)] = View(users)
    /\ \A i \in DOMAIN past : Fits(past[i])
    /\ \A n \in Server : secondary[n].state = "off" => secondary[n] \in Off
    /\ \A n \in Server : Hearing(n) => Knows(secondary[n], past)
BY DEF Tables, Knows, Change

\* A step that leaves the table of the primary alone.
LEMMA TablesOfSecondaries ==
  ASSUME Tables, UNCHANGED <<users, past>>,
         \A n \in Server : secondary'[n].state = "off" => secondary'[n] \in Off,
         \A n \in Server : Hearing(n)' => Knows(secondary'[n], past)
  PROVE  Tables'
<1>1. /\ WellFormed(users)' /\ past' # <<>> /\ past'[1] = {} /\ past'[Len(past')] = View(users)'
      /\ \A i \in DOMAIN past' : Fits(past'[i])
  BY TablesAre DEF View
<1>2. ASSUME NEW n \in Server, Hearing(n)'
      PROVE  LET s == secondary'[n] IN
               /\ s.first = 0 <=> s.last = 0
               /\ s.last \in 0 .. Change'
               /\ WellFormed(s.users)
               /\ View(s.users) \subseteq past'[s.last + 1]
               /\ s.first = 1 => View(s.users) = past'[s.last + 1]
               /\ s.last = 0 => View(s.users) = {}
  BY <1>2 DEF Knows, Change
<1> QED
  BY <1>1, <1>2 DEF Tables

\* What a change that n carries out is based on.
LEMMA KnownBeforeChange ==
  ASSUME TypeOK, NEW n \in Server, Hearing(n), InOrder(n), Knows(secondary[n], past), past[1] = {},
         NEW i \in DOMAIN stream[n], i = 1, IsUser(stream[n], i)
  PROVE  LET s  == secondary[n]
             op == stream[n][i].op
             k  == stream[n][i].n
         IN /\ k \in 1 .. Change /\ k + 1 \in DOMAIN past /\ past[k + 1] = Applied(op, past[k])
            /\ s.last # 0 => k = s.last + 1
            /\ View(s.users) \subseteq past[k]
            /\ s.first = 1 \/ (s.first = 0 /\ k = 1) => View(s.users) = past[k]
<1> DEFINE s == secondary[n]
           k == stream[n][i].n
<1>1. IsChange(stream[n][i].op, k)
  BY DEF InOrder
<1>2. Len(past) \in Nat /\ DOMAIN past = 1 .. Len(past)
  BY SeqFacts DEF TypeOK
<1>3. k \in 1 .. Change /\ k + 1 \in DOMAIN past /\ past[k + 1] = Applied(stream[n][i].op, past[k])
  BY <1>1, <1>2 DEF IsChange, Change
<1>4. s.last # 0 => k = s.last + 1
  <2>1. ~ \E j \in DOMAIN stream[n] : Prior(stream[n], UserKinds, j, i)
    BY DEF Prior
  <2> QED
    BY <2>1 DEF InOrder
<1>5. s.last = 0 => View(s.users) = {}
  BY DEF Knows
<1>6. s.last # 0 => View(s.users) \subseteq past[k] /\ (s.first = 1 => View(s.users) = past[k])
  BY <1>4 DEF Knows
<1>7. s.first = 0 <=> s.last = 0
  BY DEF Knows
<1>8. View(s.users) \subseteq past[k]
  BY <1>5, <1>6
<1>9. ASSUME s.first = 1 \/ (s.first = 0 /\ k = 1)
      PROVE  View(s.users) = past[k]
  <2>1. CASE s.first = 1
    BY <1>6, <1>7, <2>1
  <2>2. CASE s.first = 0 /\ k = 1
    BY <1>5, <1>7, <2>2
  <2> QED
    BY <1>9, <2>1, <2>2
<1> QED
  BY <1>3, <1>4, <1>8, <1>9

\* The secondary carries out a change.
LEMMA KnowsChange ==
  ASSUME TypeOK, Frames, Changes, Tables, NEW n \in Server, ReadsWhole(n)
  PROVE  Knows(secondary'[n], past)
<1>1. PICK q \in Stream : q = stream[n]
  BY DEF TypeOK
<1>2. PICK s \in SecondaryState : s = secondary[n]
  BY DEF TypeOK
<1>3. PICK t : t = secondary'[n]
  OBVIOUS
<1>4. PICK op, k : op = q[1].op /\ k = q[1].n
  OBVIOUS
<1>5. /\ Len(q) > 1 /\ WholeFrame(q) /\ Survives(s, t, op, k) /\ Hearing(n)
  BY <1>1, <1>2, <1>3, <1>4 DEF ReadsWhole, Hearing
<1>6. op \in Op /\ k \in Numbers /\ 1 \in DOMAIN q
  BY <1>4, <1>5, WholeFrameIs, SeqFacts DEF Stream
<1>7. /\ Knows(s, past) /\ InOrder(n) /\ past[1] = {}
  BY <1>2, <1>5, TablesAre, ChangesAre
<1>8. Change = Len(past) - 1
  BY DEF Change
<1>9. CASE op.kind \in FileKinds
  <2>1. t.users = s.users /\ t.first = s.first /\ t.last = s.last
    BY <1>5, <1>9 DEF Survives, Stores, FileKinds
  <2> QED
    BY <1>3, <1>7, <2>1 DEF Knows
<1>10. CASE op.kind \in UserKinds
  <2>1. IsUser(q, 1)
    BY <1>4, <1>6, <1>10 DEF IsUser
  <2>2. PICK i \in DOMAIN stream[n] : i = 1 /\ IsUser(stream[n], i)
    BY <1>1, <1>6, <2>1
  <2>3. /\ k \in 1 .. Change /\ past[k + 1] = Applied(op, past[k])
        /\ View(s.users) \subseteq past[k]
        /\ s.first = 1 \/ (s.first = 0 /\ k = 1) => View(s.users) = past[k]
    BY <1>1, <1>2, <1>4, <1>5, <1>7, <2>2, KnownBeforeChange
  <2>4. s.users \in Table /\ WellFormed(s.users) /\ op.name \in UserName /\ op.id \in DeviceId
        /\ op.type \in SocketType
    BY <1>2, <1>6, <1>7, SecondaryFields DEF Op, Knows
  <2>5. t.last = k /\ t.first = IF s.first = 0 THEN k ELSE s.first
    BY <1>5, <1>10, LastIs
  <2>6. WellFormed(t.users) /\ View(t.users) = Applied(op, View(s.users))
    <3>1. CASE op.kind = "LOGIN"
      <4>1. LogsIn(s, t, op, k)
        BY <1>5, <3>1 DEF Survives, FileKinds
      <4>2. PICK socket \in Descriptor, u \in UserSlot, d \in DeviceSlot :
              /\ SeatFor(s.users, u, d, op.name, op.id)
              /\ t.users = Seated(s.users, u, d, op.name, op.id, op.type, socket)
        BY <4>1 DEF LogsIn
      <4>3. PICK us \in Table : us = s.users /\ WellFormed(us)
        BY <2>4
      <4>4. PICK name \in UserName, id \in DeviceId, type \in SocketType :
              name = op.name /\ id = op.id /\ type = op.type
        BY <2>4
      <4>5. PICK vs : vs = t.users /\ vs = Seated(us, u, d, name, id, type, socket)
                      /\ SeatFor(us, u, d, name, id)
        BY <4>2, <4>3, <4>4
      <4>6. WellFormed(vs) /\ View(vs) = View(us) \cup {<<name, id>>}
        BY <4>3, <4>5, SeatedWellFormed, ViewOfSeated
      <4> QED
        BY <3>1, <4>3, <4>4, <4>5, <4>6 DEF Applied
    <3>2. CASE op.kind = "EXIT"
      <4>1. t.users = Logout(s.users, op.name, op.id)
        BY <1>5, <3>2 DEF Survives, LogsOut, FileKinds
      <4>2. /\ WellFormed(Logout(s.users, op.name, op.id))
            /\ View(Logout(s.users, op.name, op.id)) = View(s.users) \ {<<op.name, op.id>>}
        BY <2>4, LogoutTable, ViewOfLogout
      <4> QED
        BY <3>2, <4>1, <4>2 DEF Applied
    <3> QED
      BY <1>10, <3>1, <3>2 DEF UserKinds
  <2>7. View(t.users) \subseteq past[k + 1]
    BY <2>3, <2>6 DEF Applied
  <2>8. t.first = 1 => View(t.users) = past[k + 1]
    BY <2>3, <2>5, <2>6
  <2>9. t.first # 0 /\ t.last # 0 /\ t.last \in 0 .. Change /\ t.last = k
    BY <1>2, <2>3, <2>5, SecondaryFields
  <2> QED
    BY <1>3, <1>8, <2>6, <2>7, <2>8, <2>9 DEF Knows
<1> QED
  BY <1>5, <1>9, <1>10 DEF Survives, UserKinds

\* What the secondary cannot carry out is no change of the primary's table.
LEMMA FindsRoom ==
  ASSUME TypeOK, Changes, Tables, NEW n \in Server, FindsNoRoom(n)
  PROVE  FALSE
<1>1. PICK q \in Stream : q = stream[n]
  BY DEF TypeOK
<1>2. PICK s \in SecondaryState : s = secondary[n]
  BY DEF TypeOK
<1>3. PICK op, k : op = q[1].op /\ k = q[1].n
  OBVIOUS
<1>4. Len(q) > 1 /\ WholeFrame(q) /\ NoRoom(s, op) /\ Hearing(n)
  BY <1>1, <1>2, <1>3 DEF FindsNoRoom, Hearing
<1>5. op \in Op /\ op.kind = "LOGIN" /\ 1 \in DOMAIN q
  BY <1>3, <1>4, WholeFrameIs, SeqFacts DEF Stream, NoRoom
<1>6. Knows(s, past) /\ InOrder(n) /\ past[1] = {}
  BY <1>2, <1>4, TablesAre, ChangesAre
<1>7. PICK i \in DOMAIN stream[n] : i = 1 /\ IsUser(stream[n], i)
  BY <1>1, <1>3, <1>5 DEF IsUser, UserKinds
<1>8. k + 1 \in DOMAIN past /\ past[k + 1] = Applied(op, past[k]) /\ View(s.users) \subseteq past[k]
  BY <1>1, <1>2, <1>3, <1>4, <1>6, <1>7, KnownBeforeChange
<1>9. PICK view : view = past[k + 1]
  OBVIOUS
<1>10. Fits(view) /\ View(s.users) \subseteq view /\ <<op.name, op.id>> \in view
  BY <1>5, <1>8, <1>9, TablesAre DEF Applied
<1>11. PICK socket \in Descriptor :
         handle_user_controller_structure(s.users, op.name, op.id, op.type, socket).reply # "ack"
  BY <1>4 DEF NoRoom
<1>12. s.users \in Table /\ WellFormed(s.users) /\ op.name \in UserName /\ op.id \in DeviceId
       /\ op.type \in SocketType
  BY <1>5, <1>6, SecondaryFields DEF Op, Knows
<1> QED
  BY <1>10, <1>11, <1>12, RoomForTheRest

LEMMA SecondaryTables ==
  ASSUME TypeOK, Frames, Changes, Tables, NEW n \in Server, SecondaryMoves(n)
  PROVE  Tables'
<1>1. Elsewhere(n) /\ UNCHANGED <<users, past>>
  BY DEF SecondaryMoves, StopsAs, ReadsAck, ReadsWhole, Elsewhere
<1>2. \A m \in Server \ {n} : secondary'[m] = secondary[m]
  BY <1>1 DEF Elsewhere
<1>3. secondary'[n].state # "off"
  BY DEF SecondaryMoves, StopsAs, ReadsAck, ReadsWhole, Stopped
<1>4. \A m \in Server : secondary'[m].state = "off" => secondary'[m] \in Off
  BY <1>2, <1>3, TablesAre
<1>5. ASSUME Hearing(n)'
      PROVE  Knows(secondary'[n], past)
  <2>1. CASE \E state \in Stopped : StopsAs(n, state)
    BY <1>5, <2>1 DEF StopsAs, Stopped, Hearing
  <2>2. CASE ReadsAck(n)
    <3>1. Knows(secondary[n], past)
      BY <2>2, TablesAre DEF ReadsAck, Hearing
    <3> QED
      BY <2>2, <3>1 DEF ReadsAck, Knows
  <2>3. CASE ReadsWhole(n)
    BY <2>3, KnowsChange
  <2> QED
    BY <2>1, <2>2, <2>3 DEF SecondaryMoves, Stopped
<1>6. \A m \in Server : Hearing(m)' => Knows(secondary'[m], past)
  BY <1>2, <1>5, TablesAre DEF Hearing
<1> QED
  BY <1>1, <1>4, <1>6, TablesOfSecondaries

\* The table of the primary changes.
LEMMA ChangedTables ==
  ASSUME TypeOK, Tables, NEW w \in Worker, ChangesTable(w)
  PROVE  Tables'
<1>1. PICK us \in Table : us = users' /\ WellFormed(us)
  BY DEF ChangesTable
<1>2. PICK v \in SUBSET (UserName \X DeviceId) : v = View(us)
  BY <1>1, ViewType
<1>3. PICK p \in Seq(SUBSET (UserName \X DeviceId)) : p = past
  BY DEF TypeOK
<1>4. PICK r : r = past'
  OBVIOUS
<1>5. r = Append(p, v) /\ secondary' = secondary /\ Len(p) \in Nat /\ Len(p) >= 1
  <2>1. Len(p) \in Nat
    BY SeqFacts
  <2>2. p # <<>> /\ Len(p) >= 1
    BY <1>3, <2>1, EmptySeq DEF Tables
  <2>3. secondary' = secondary /\ past' = Append(past, View(users)')
    BY DEF ChangesTable
  <2>4. View(users)' = View(us)
    BY <1>1 DEF View
  <2> QED
    BY <1>2, <1>3, <1>4, <2>1, <2>2, <2>3, <2>4
<1>6. /\ Len(r) = Len(p) + 1 /\ DOMAIN r = 1 .. Len(p) + 1 /\ DOMAIN p = 1 .. Len(p)
      /\ \A i \in 1 .. Len(p) : r[i] = p[i]
      /\ r[Len(p) + 1] = v
  BY <1>3, <1>5, AppendIs, SeqFacts
<1>7. Fits(v)
  BY <1>1, <1>2, TableFits
<1>8. \A i \in DOMAIN r : Fits(r[i])
  BY <1>3, <1>6, <1>7, TablesAre
<1>9. WellFormed(us) /\ r # <<>> /\ r[1] = {} /\ r[Len(r)] = View(us)
  <2>1. r[1] = p[1] /\ Len(r) # 0
    BY <1>5, <1>6
  <2>2. r \in Seq(SUBSET (UserName \X DeviceId))
    BY <1>5, AppendIs
  <2> QED
    BY <1>1, <1>2, <1>3, <1>5, <1>6, <2>1, <2>2, SeqFacts, TablesAre
<1>10. ASSUME NEW n \in Server, Hearing(n)
       PROVE  Knows(secondary[n], r)
  <2>1. Knows(secondary[n], p)
    BY <1>3, <1>10, TablesAre
  <2>2. secondary[n].last + 1 \in 1 .. Len(p) /\ secondary[n].last \in 0 .. Len(r) - 1
    BY <1>5, <1>6, <2>1 DEF Knows
  <2> QED
    BY <1>6, <2>1, <2>2 DEF Knows
<1>11. ASSUME NEW n \in Server, Hearing(n)'
       PROVE  LET s == secondary'[n] IN
               /\ s.first = 0 <=> s.last = 0
               /\ s.last \in 0 .. Change'
               /\ WellFormed(s.users)
               /\ View(s.users) \subseteq past'[s.last + 1]
               /\ s.first = 1 => View(s.users) = past'[s.last + 1]
               /\ s.last = 0 => View(s.users) = {}
  <2>1. Hearing(n)
    BY <1>5, <1>11 DEF Hearing
  <2> QED
    BY <1>4, <1>5, <1>10, <2>1 DEF Knows, Change
<1>12. WellFormed(users)' /\ past'[Len(past')] = View(users)'
  BY <1>1, <1>4, <1>9 DEF View
<1>13. \A n \in Server : secondary'[n].state = "off" => secondary'[n] \in Off
  BY <1>5, TablesAre
<1> QED
  BY <1>4, <1>8, <1>9, <1>11, <1>12, <1>13 DEF Tables

\* A secondary connects with an empty table.
LEMMA ConnectTables ==
  ASSUME TypeOK, Tables, NEW n \in Server, Connect(n)
  PROVE  Tables'
<1>1. /\ secondary \in [Server -> SecondaryState] /\ secondary[n].state = "off"
      /\ secondary' = [secondary EXCEPT ![n].state = "joining"] /\ UNCHANGED <<users, past>>
  BY DEF Connect, tableVars, TypeOK
<1>2. secondary[n] \in Off /\ past[1] = {} /\ past # <<>>
  BY <1>1, TablesAre
<1>3. PICK t : t = secondary'[n]
  OBVIOUS
<1>4. /\ t.state = "joining" /\ t.users = secondary[n].users
      /\ t.first = secondary[n].first /\ t.last = secondary[n].last
      /\ \A m \in Server \ {n} : secondary'[m] = secondary[m]
  BY <1>1, <1>2, <1>3 DEF SecondaryState
<1>5. t.users = EmptyTable /\ t.first = 0 /\ t.last = 0
  BY <1>2, <1>4 DEF Off
<1>6. Len(past) \in Nat /\ Len(past) # 0
  BY <1>2, SeqFacts DEF TypeOK
<1>7. Knows(t, past)
  BY <1>2, <1>5, <1>6, EmptyTableWellFormed, ViewOfEmptyTable DEF Knows
<1>8. \A m \in Server : secondary'[m].state = "off" => secondary'[m] \in Off
  BY <1>3, <1>4, TablesAre
<1>9. \A m \in Server : Hearing(m)' => Knows(secondary'[m], past)
  BY <1>3, <1>4, <1>7, TablesAre DEF Hearing
<1> QED
  BY <1>1, <1>8, <1>9, TablesOfSecondaries

LEMMA TablesKept ==
  ASSUME TypeOK, Locks, Counted, Slots, Frames, Changes, Tables, [Next]_vars
  PROVE  Tables'
<1>1. ASSUME UNCHANGED <<users, past, secondary>>
      PROVE  Tables'
  BY <1>1, TablesAre, TablesOfSecondaries DEF Hearing
<1>2. CASE PrimaryStep
  <2>1. ASSUME NEW w \in Worker, WorkerStep(w) \/ \E op \in Workload : Begin(w, op)
        PROVE  Tables'
    <3>1. CASE ChangesTable(w)
      BY <3>1, ChangedTables
    <3>2. CASE Crash("nullDevice")
      BY <1>1, <3>2 DEF Crash, tableVars, remoteVars
    <3>3. CASE ~ Login(w) /\ ~ Exit(w)
      BY <1>1, <2>1, <3>3 DEF WorkerStep, Refuse, WriteFile, Notify, Crash, LockServers, VisitSlot,
         SendHalf, Finish, Begin, tableVars, remoteVars
    <3> QED
      BY <3>1, <3>2, <3>3, LoginChanges, ExitChanges
  <2>2. ASSUME NEW n \in Server, Connect(n) \/ EnterStep(n)
        PROVE  Tables'
    BY <1>1, <2>2, ConnectTables DEF EnterStep, FindSlot, InsertId, InsertSocket, InsertFails,
       Acknowledge, tableVars
  <2> QED
    BY <1>2, <2>1, <2>2 DEF PrimaryStep
<1>3. ASSUME NEW n \in Server, SecondaryStep(n) \/ KillSecondary(n)
      PROVE  Tables'
  BY <1>3, SecondaryMovesIs, SecondaryTables
<1>4. CASE KillPrimary
  BY <1>1, <1>4 DEF KillPrimary, tableVars, remoteVars
<1>5. CASE UNCHANGED vars
  BY <1>1, <1>5 DEF vars
<1> QED
  BY <1>2, <1>3, <1>4, <1>5 DEF Next

\* A secondary changes when it connects, and in its own steps.
LEMMA SecondarySteps ==
  ASSUME [Next]_vars
  PROVE  \/ secondary' = secondary
         \/ \E n \in Server : Connect(n)
         \/ \E n \in Server : SecondaryStep(n) \/ KillSecondary(n)
<1>1. CASE PrimaryStep
  BY <1>1 DEF PrimaryStep, WorkerStep, Login, Refuse, Exit, Crash, WriteFile, Notify, LockServers,
     VisitSlot, SendHalf, Finish, Begin, EnterStep, FindSlot, InsertId, InsertSocket, InsertFails,
     Acknowledge, remoteVars
<1> QED
  BY <1>1 DEF Next, KillPrimary, remoteVars, vars

LEMMA RoomKept ==
  ASSUME TypeOK, Locks, Counted, Slots, Changes, Tables, SecondaryHasRoom, [Next]_vars
  PROVE  SecondaryHasRoom'
<1>1. ASSUME NEW n \in Server, secondary' = secondary \/ Connect(n)
      PROVE  SecondaryHasRoom'
  BY <1>1 DEF Connect, SecondaryHasRoom, TypeOK, SecondaryState
<1>2. ASSUME NEW n \in Server, SecondaryMoves(n)
      PROVE  SecondaryHasRoom'
  <2>1. Elsewhere(n)
    BY <1>2 DEF SecondaryMoves, StopsAs, ReadsAck, ReadsWhole
  <2>2. secondary'[n].state # "nullDevice"
    BY <1>2, FindsRoom DEF SecondaryMoves, StopsAs, ReadsAck, ReadsWhole
  <2> QED
    BY <2>1, <2>2 DEF SecondaryHasRoom, Elsewhere
<1> QED
  BY <1>1, <1>2, SecondarySteps, SecondaryMovesIs DEF SecondaryHasRoom

-----------------------------------------------------------------------------
(* What a secondary in state s will have of users and files when it has    *)
(* read the stream q.                                                      *)

\* FromFirst, KnownBefore and WillHold, for one stream.
Complete(s, q) == s.first = 1 \/ \E i \in DOMAIN q : IsUser(q, i) /\ q[i].n = 1

KnownIn(s, q, name, j) ==
  \/ name \in s.dirs
  \/ \E i \in 1 .. j - 1 : q[i].op.kind = "LOGIN" /\ q[i].op.name = name

HoldsIn(s, q, f, v) ==
  /\ \A i \in DOMAIN q : IsWrite(q, f, i) /\ (\A k \in DOMAIN q : IsWrite(q, f, k) => k <= i) => q[i].n = v
  /\ (\A i \in DOMAIN q : ~ IsWrite(q, f, i)) => s.files[f] = v

LEMMA CompleteAdded ==
  ASSUME NEW s, NEW q, NEW e, NEW r, Added(q, e, r), Complete(s, r)
  PROVE  Complete(s, q) \/ (e.op.kind \in UserKinds /\ e.n = 1)
BY DEF Complete, Added, IsUser

LEMMA KnownAdded ==
  ASSUME NEW s, NEW q, NEW e, NEW r, Added(q, e, r), NEW name
  PROVE  /\ \A j \in 1 .. Len(q) + 1 : KnownIn(s, q, name, j) => KnownIn(s, r, name, j)
         /\ KnownIn(s, q, name, Len(q) + 1) => KnownIn(s, r, name, Len(r) + 1)
         /\ e.op.kind = "LOGIN" /\ e.op.name = name => KnownIn(s, r, name, Len(r) + 1)
<1>1. Len(q) \in Nat /\ Len(r) = Len(q) + 1 /\ r[Len(q) + 1] = e /\ \A i \in 1 .. Len(q) : r[i] = q[i]
  BY DEF Added
<1>2. \A j \in 1 .. Len(q) + 1 : KnownIn(s, q, name, j) => KnownIn(s, r, name, j)
  BY <1>1 DEF KnownIn
<1>3. KnownIn(s, q, name, Len(q) + 1) => KnownIn(s, r, name, Len(r) + 1)
  BY <1>1 DEF KnownIn
<1>4. e.op.kind = "LOGIN" /\ e.op.name = name => KnownIn(s, r, name, Len(r) + 1)
  <2>1. Len(q) + 1 \in 1 .. (Len(r) + 1) - 1
    BY <1>1
  <2> QED
    BY <1>1, <2>1 DEF KnownIn
<1> QED
  BY <1>2, <1>3, <1>4

LEMMA HoldsAdded ==
  ASSUME NEW s, NEW q, NEW e, NEW r, Added(q, e, r), NEW f, NEW v,
         IF e.op.kind \in FileKinds /\ e.op.file = f THEN e.n = v ELSE HoldsIn(s, q, f, v)
  PROVE  HoldsIn(s, r, f, v)
<1>1. /\ Len(q) \in Nat /\ DOMAIN q = 1 .. Len(q) /\ DOMAIN r = 1 .. Len(q) + 1
      /\ r[Len(q) + 1] = e /\ \A i \in 1 .. Len(q) : r[i] = q[i]
  BY DEF Added
<1>2. \A i \in DOMAIN q : i \in DOMAIN r /\ (IsWrite(r, f, i) <=> IsWrite(q, f, i)) /\ i < Len(q) + 1
  BY <1>1 DEF IsWrite, IsFile
<1>3. Len(q) + 1 \in DOMAIN r
  BY <1>1
<1>4. CASE e.op.kind \in FileKinds /\ e.op.file = f
  <2>1. IsWrite(r, f, Len(q) + 1)
    BY <1>1, <1>3, <1>4 DEF IsWrite, IsFile
  <2>2. \A i \in DOMAIN r : (\A k \in DOMAIN r : IsWrite(r, f, k) => k <= i) => i = Len(q) + 1
    BY <1>1, <1>3, <2>1
  <2> QED
    BY <1>1, <1>3, <1>4, <2>1, <2>2 DEF HoldsIn
<1>5. CASE ~ (e.op.kind \in FileKinds /\ e.op.file = f)
  <2>1. \A i \in DOMAIN r : IsWrite(r, f, i) => i \in DOMAIN q /\ IsWrite(q, f, i) /\ r[i] = q[i]
    BY <1>1, <1>5 DEF IsWrite, IsFile
  <2>2. ASSUME NEW i \in DOMAIN r, IsWrite(r, f, i), \A k \in DOMAIN r : IsWrite(r, f, k) => k <= i
        PROVE  r[i].n = v
    <3>1. i \in DOMAIN q /\ IsWrite(q, f, i) /\ r[i] = q[i]
      BY <2>1, <2>2
    <3>2. \A k \in DOMAIN q : IsWrite(q, f, k) => k <= i
      BY <1>2, <2>2
    <3> QED
      BY <1>5, <3>1, <3>2 DEF HoldsIn
  <2>3. (\A i \in DOMAIN r : ~ IsWrite(r, f, i)) => s.files[f] = v
    BY <1>2, <1>5 DEF HoldsIn
  <2> QED
    BY <2>2, <2>3 DEF HoldsIn
<1> QED
  BY <1>4, <1>5

LEMMA RestFacts ==
  ASSUME NEW q, NEW d \in {1, 2}, NEW r, Rest(q, d, r)
  PROVE  /\ \A i \in DOMAIN r : i + d \in DOMAIN q /\ r[i] = q[i + d] /\ i \in Nat
         /\ \A k \in DOMAIN q : k \notin 1 .. d => \E i \in DOMAIN r : k = i + d
         /\ \A k \in DOMAIN q : k \in Nat
         /\ Len(r) \in Nat /\ DOMAIN r = 1 .. Len(r)
<1>1. /\ Len(q) \in Nat /\ DOMAIN q = 1 .. Len(q) /\ Len(q) >= d
      /\ Len(r) = Len(q) - d /\ DOMAIN r = 1 .. Len(q) - d
      /\ \A i \in 1 .. Len(r) : r[i] = q[i + d]
  BY DEF Rest
<1>2. ASSUME NEW k \in DOMAIN q, k \notin 1 .. d
      PROVE  \E i \in DOMAIN r : k = i + d
  <2>1. k - d \in DOMAIN r /\ k = (k - d) + d
    BY <1>1, <1>2
  <2> QED
    BY <2>1
<1> QED
  BY <1>1, <1>2

LEMMA CompleteRest ==
  ASSUME NEW s, NEW t, NEW q, NEW d \in {1, 2}, NEW r, Rest(q, d, r), Complete(t, r),
         t.first = IF q[1].op.kind \in UserKinds /\ s.first = 0 THEN q[1].n ELSE s.first
  PROVE  Complete(s, q)
<1>1. 1 \in DOMAIN q
  BY DEF Rest
<1>2. \A i \in DOMAIN r : i + d \in DOMAIN q /\ r[i] = q[i + d]
  BY DEF Rest
<1> QED
  BY <1>1, <1>2 DEF Complete, IsUser

LEMMA KnownRest ==
  ASSUME NEW s, NEW t, NEW q, NEW d \in {1, 2}, NEW r, Rest(q, d, r), Chunk(q, d),
         s.dirs \subseteq t.dirs, q[1].op.kind = "LOGIN" => q[1].op.name \in t.dirs,
         NEW name, NEW j \in 1 .. Len(r) + 1, KnownIn(s, q, name, j + d)
  PROVE  KnownIn(t, r, name, j)
<1>1. CASE name \in s.dirs
  BY <1>1 DEF KnownIn
<1>2. CASE name \notin s.dirs
  <2>1. PICK i \in 1 .. (j + d) - 1 : q[i].op.kind = "LOGIN" /\ q[i].op.name = name
    BY <1>2 DEF KnownIn
  <2>2. CASE i \in 1 .. d
    <3>1. q[i].op = q[1].op
      BY <2>1, <2>2, NoneIsNoKind DEF Chunk
    <3> QED
      BY <2>1, <3>1 DEF KnownIn
  <2>3. CASE i \notin 1 .. d
    <3>1. Len(r) \in Nat /\ \A m \in 1 .. Len(r) : r[m] = q[m + d]
      BY DEF Rest
    <3>2. PICK m \in 1 .. Len(r) : m = i - d /\ i = m + d /\ m \in 1 .. j - 1
      BY <2>1, <2>3, <3>1
    <3> QED
      BY <2>1, <3>1, <3>2 DEF KnownIn
  <2> QED
    BY <2>2, <2>3
<1> QED
  BY <1>1, <1>2

LEMMA HoldsRest ==
  ASSUME NEW s, NEW t, NEW q, NEW d \in {1, 2}, NEW r, Rest(q, d, r), Chunk(q, d), NEW f, NEW v,
         HoldsIn(s, q, f, v),
         t.files[f] = IF q[1].op.kind \in FileKinds /\ q[1].op.file = f THEN q[1].n ELSE s.files[f]
  PROVE  HoldsIn(t, r, f, v)
<1>1. /\ \A i \in DOMAIN r : i + d \in DOMAIN q /\ r[i] = q[i + d] /\ i \in Nat
      /\ \A k \in DOMAIN q : k \notin 1 .. d => \E i \in DOMAIN r : k = i + d
      /\ \A k \in DOMAIN q : k \in Nat
  BY ONLY d \in {1, 2}, Rest(q, d, r), RestFacts
<1>2. \A i \in DOMAIN r : IsWrite(r, f, i) <=> IsWrite(q, f, i + d)
  BY <1>1 DEF IsWrite, IsFile
<1>3. ASSUME NEW i \in DOMAIN r, IsWrite(r, f, i), \A k \in DOMAIN r : IsWrite(r, f, k) => k <= i
      PROVE  r[i].n = v
  <2>1. i + d \in DOMAIN q /\ IsWrite(q, f, i + d) /\ r[i] = q[i + d]
    BY <1>1, <1>2, <1>3
  <2>2. ASSUME NEW k \in DOMAIN q, IsWrite(q, f, k)
        PROVE  k <= i + d
    <3>1. CASE k \in 1 .. d
      BY <1>1, <3>1
    <3>2. CASE k \notin 1 .. d
      <4>1. PICK m \in DOMAIN r : k = m + d
        BY <1>1, <3>2
      <4>2. m <= i
        BY <1>2, <1>3, <2>2, <4>1
      <4> QED
        BY <1>1, <4>1, <4>2
    <3> QED
      BY <3>1, <3>2
  <2> QED
    BY <2>1, <2>2 DEF HoldsIn
<1>4. ASSUME \A i \in DOMAIN r : ~ IsWrite(r, f, i)
      PROVE  t.files[f] = v
  <2>1. \A k \in DOMAIN q : IsWrite(q, f, k) => k \in 1 .. d
    BY <1>1, <1>2, <1>4
  <2>2. DOMAIN q = 1 .. Len(q) /\ Len(q) >= d /\ Len(q) \in Nat
    BY DEF Rest
  <2>3. CASE q[1].op.kind \in FileKinds /\ q[1].op.file = f
    <3>1. d = 2 /\ q[2].op = q[1].op /\ q[2].n = q[1].n
      BY <2>3, NoneIsNoKind DEF Chunk
    <3>2. 2 \in DOMAIN q /\ IsWrite(q, f, 2)
      BY <2>2, <2>3, <3>1 DEF IsWrite, IsFile
    <3>3. \A k \in DOMAIN q : IsWrite(q, f, k) => k <= 2
      BY <2>1, <3>1
    <3> QED
      BY <2>3, <3>1, <3>2, <3>3 DEF HoldsIn
  <2>4. CASE ~ (q[1].op.kind \in FileKinds /\ q[1].op.file = f)
    <3>1. \A k \in 1 .. d : ~ IsWrite(q, f, k)
      BY <2>4, NoneIsNoKind DEF Chunk, IsWrite, IsFile
    <3> QED
      BY <2>1, <2>4, <3>1 DEF HoldsIn
  <2> QED
    BY <2>3, <2>4
<1> QED
  BY <1>3, <1>4 DEF HoldsIn

-----------------------------------------------------------------------------
(* Files are copied. *)

\* w has sent all that n is to have of its frame.
GoneBy(w, n) == Sending(w) /\ ~ Unsent(w, n)

\* No operation on f is on its way to n.
Delivered(f, n) == \A w \in Worker : Handles(w, f) => GoneBy(w, n)

LoginGoneBy(w, n) == worker[w].op.kind = "LOGIN" /\ GoneBy(w, n)

\* Copies, for one secondary, ...
Served(n) ==
  LET s == secondary[n]
      q == stream[n]
  IN Complete(s, q) =>
       /\ \A name \in dirs : KnownIn(s, q, name, Len(q) + 1)
       /\ \A w \in Worker : LoginGoneBy(w, n) => KnownIn(s, q, worker[w].op.name, Len(q) + 1)
       /\ \A j \in DOMAIN q : IsFile(q, j) => KnownIn(s, q, q[j].op.name, j)
       /\ \A f \in File \ unsure : Delivered(f, n) => HoldsIn(s, q, f, files[f])

\* ... for the threads, ...
HandlersKnown == \A w \in Worker, f \in File : Handles(w, f) => worker[w].op.name \in dirs

\* ... and for a file no two operations of which overlap.
Alone(f) ==
  \A w \in Worker : Handles(w, f) =>
    /\ \A v \in Worker : Handles(v, f) => v = w
    /\ worker[w].pc # "write" => files[f] = worker[w].n

LEMMA CopiesAre ==
  Copies <=> /\ NoFilesYet /\ HandlersKnown
             /\ \A f \in File \ unsure : Alone(f)
             /\ \A n \in Server : Hearing(n) => Served(n)
<1>1. ASSUME NEW n \in Server
      PROVE  /\ FromFirst(n) <=> Hearing(n) /\ Complete(secondary[n], stream[n])
             /\ \A name, j : KnownBefore(n, name, j) <=> KnownIn(secondary[n], stream[n], name, j)
             /\ \A f, v : WillHold(n, f, v) <=> HoldsIn(secondary[n], stream[n], f, v)
  BY DEF FromFirst, Complete, KnownBefore, KnownIn, WillHold, HoldsIn
<1>2. ASSUME NEW n \in Server
      PROVE  (Hearing(n) => Served(n)) <=>
               (FromFirst(n) =>
                  /\ \A name \in dirs : KnownTo(n, name)
                  /\ \A w \in Worker : Sending(w) /\ worker[w].op.kind = "LOGIN" /\ ~ Unsent(w, n) =>
                       KnownTo(n, worker[w].op.name)
                  /\ \A j \in DOMAIN stream[n] :
                       IsFile(stream[n], j) => KnownBefore(n, stream[n][j].op.name, j)
                  /\ \A f \in File \ unsure :
                       (\A w \in Worker : Handles(w, f) => Sending(w) /\ ~ Unsent(w, n)) =>
                         WillHold(n, f, files[f]))
  BY <1>1 DEF Served, KnownTo, GoneBy, LoginGoneBy, Delivered
<1> QED
  BY <1>2 DEF Copies, HandlersKnown, Alone

LEMMA CopiesAreNext ==
  ASSUME NoFilesYet', HandlersKnown', \A f \in File : f \notin unsure' => Alone(f)',
         \A n \in Server : Hearing(n)' => Served(n)'
  PROVE  Copies'
<1>1. (/\ NoFilesYet /\ HandlersKnown
       /\ \A f \in File \ unsure : Alone(f)
       /\ \A n \in Server : Hearing(n) => Served(n))'
  OBVIOUS
<1> QED
  BY <1>1, CopiesAre, PTL

LEMMA ServedNext ==
  ASSUME NEW n \in Server, NEW s, NEW q, s = secondary'[n], q = stream'[n],
         Complete(s, q) =>
           /\ \A name \in dirs' : KnownIn(s, q, name, Len(q) + 1)
           /\ \A w \in Worker : LoginGoneBy(w, n)' => KnownIn(s, q, worker'[w].op.name, Len(q) + 1)
           /\ \A j \in DOMAIN q : IsFile(q, j) => KnownIn(s, q, q[j].op.name, j)
           /\ \A f \in File : f \notin unsure' /\ Delivered(f, n)' => HoldsIn(s, q, f, files'[f])
  PROVE  Served(n)'
BY DEF Served

\* Only a secondary in backupServers knows all users.
LEMMA CompleteIsListed ==
  ASSUME TypeOK, Locks, Slots, Frames, Changes, Tables, NEW n \in Server, Hearing(n),
         Complete(secondary[n], stream[n])
  PROVE  /\ Listed(n) /\ ~ Unheard(n)
         /\ entering[n].slot \in Slot
         /\ backupServers[entering[n].slot].socket = n /\ backupServers[entering[n].slot].id = n
<1>1. secondary[n].first = 0 <=> secondary[n].last = 0
  BY TablesAre DEF Knows
<1>2. ~ Unheard(n)
  BY <1>1 DEF Unheard, Complete
<1>3. Listed(n)
  BY <1>2, NotListed
<1>4. entering[n].slot \in Slot /\ backupServers[entering[n].slot].socket = n
  BY <1>3, SlotFacts
<1> QED
  BY <1>2, <1>3, <1>4, SlotsAre, ReplicationAssumption DEF Belongs

\* n hears of nothing, and the threads have nothing more for n than before.
LEMMA ServedMoved ==
  ASSUME NEW n \in Server, Served(n), stream'[n] = stream[n],
         secondary'[n].first = secondary[n].first, secondary'[n].dirs = secondary[n].dirs,
         secondary'[n].files = secondary[n].files,
         \A w \in Worker : LoginGoneBy(w, n)' => LoginGoneBy(w, n) /\ worker'[w].op = worker[w].op,
         \A f \in File : f \notin unsure' /\ Delivered(f, n)' =>
            f \notin unsure /\ Delivered(f, n) /\ files'[f] = files[f],
         \A name \in dirs' : name \in dirs
            \/ \E w \in Worker : LoginGoneBy(w, n) /\ name = worker[w].op.name
  PROVE  Served(n)'
<1>1. PICK s, t, q : s = secondary[n] /\ t = secondary'[n] /\ q = stream[n]
  OBVIOUS
<1>2. /\ Complete(t, q) <=> Complete(s, q)
      /\ \A name, j : KnownIn(t, q, name, j) <=> KnownIn(s, q, name, j)
      /\ \A f, v : HoldsIn(t, q, f, v) <=> HoldsIn(s, q, f, v)
  BY <1>1 DEF Complete, KnownIn, HoldsIn
<1>3. Complete(s, q) =>
        /\ \A name \in dirs : KnownIn(s, q, name, Len(q) + 1)
        /\ \A w \in Worker : LoginGoneBy(w, n) => KnownIn(s, q, worker[w].op.name, Len(q) + 1)
        /\ \A j \in DOMAIN q : IsFile(q, j) => KnownIn(s, q, q[j].op.name, j)
        /\ \A f \in File \ unsure : Delivered(f, n) => HoldsIn(s, q, f, files[f])
  BY <1>1 DEF Served
<1>4. Complete(t, q) =>
        /\ \A name \in dirs' : KnownIn(t, q, name, Len(q) + 1)
        /\ \A w \in Worker : LoginGoneBy(w, n)' => KnownIn(t, q, worker'[w].op.name, Len(q) + 1)
        /\ \A j \in DOMAIN q : IsFile(q, j) => KnownIn(t, q, q[j].op.name, j)
        /\ \A f \in File : f \notin unsure' /\ Delivered(f, n)' => HoldsIn(t, q, f, files'[f])
  BY <1>2, <1>3
<1> QED
  BY <1>1, <1>4, ServedNext

\* Nothing that n or the files depend on changes.
LEMMA ServedSame ==
  ASSUME NEW n \in Server, Served(n), stream'[n] = stream[n],
         secondary'[n].first = secondary[n].first, secondary'[n].dirs = secondary[n].dirs,
         secondary'[n].files = secondary[n].files,
         entering'[n].slot = entering[n].slot, UNCHANGED <<worker, dirs, files, unsure>>
  PROVE  Served(n)'
<1>1. \A w \in Worker : GoneBy(w, n)' <=> GoneBy(w, n)
  BY DEF GoneBy, Sending, Unsent
<1>2. \A w \in Worker, f \in File : Handles(w, f)' <=> Handles(w, f)
  BY DEF Handles, Busy
<1>3. \A w \in Worker : LoginGoneBy(w, n)' => LoginGoneBy(w, n) /\ worker'[w].op = worker[w].op
  BY <1>1 DEF LoginGoneBy
<1>4. \A f \in File : Delivered(f, n)' => Delivered(f, n)
  BY <1>1, <1>2 DEF Delivered
<1> QED
  BY <1>3, <1>4, ServedMoved

\* A step of w in which it sends nothing and takes up no operation.
Proceeds(w) ==
  /\ UNCHANGED <<stream, secondary, backupServers, entering, unsure>>
  /\ \A v \in Worker \ {w} : worker'[v] = worker[v]
  /\ \A f \in File : Handles(w, f)' =>
       Handles(w, f) /\ worker'[w].op = worker[w].op /\ worker'[w].n = worker[w].n
  /\ \/ files' = files /\ (worker[w].pc = "write" => worker'[w].pc = "write")
     \/ \E f \in File : /\ Handles(w, f) /\ Handles(w, f)' /\ ~ Sending(w)'
                        /\ files' = [files EXCEPT ![f] = worker[w].n]
  /\ \A n \in Server : Listed(n) /\ entering[n].slot \in Slot =>
       /\ GoneBy(w, n)' => GoneBy(w, n) /\ worker'[w].op = worker[w].op
       /\ \A f \in File : Handles(w, f) /\ ~ GoneBy(w, n) => Handles(w, f)' /\ ~ GoneBy(w, n)'
  /\ dirs \subseteq dirs'
  /\ \A name \in dirs' \ dirs :
       /\ worker[w].op.kind = "LOGIN" /\ worker[w].op.name = name
       /\ \A n \in Server : entering[n].slot \in Slot => GoneBy(w, n)

\* A thread that waits for a semaphore or ends is at no slot.
LEMMA NotGone ==
  ASSUME NEW w \in Worker, NEW n \in Server
  PROVE  /\ worker[w].pc \notin {"slots", "send"} => ~ GoneBy(w, n)
         /\ worker'[w].pc \notin {"slots", "send"} => ~ GoneBy(w, n)'
         /\ worker'[w].pc = "slots" /\ worker'[w].slot = 1 /\ entering'[n].slot \in Slot =>
              ~ GoneBy(w, n)'
         /\ worker[w].pc = "slots" /\ worker[w].slot = MaxServers + 1 /\ entering[n].slot \in Slot =>
              GoneBy(w, n)
<1>1. ASSUME NEW s \in Slot
      PROVE  1 <= s /\ ~ (MaxServers + 1 <= s)
  BY ReplicationAssumption DEF Slot
<1> QED
  BY <1>1 DEF GoneBy, Sending, Unsent

LEMMA StepsProceed ==
  ASSUME TypeOK, Locks, Counted, Slots, Tables, NEW w \in Worker, WorkerStep(w)
  PROVE  SendHalf(w) \/ Proceeds(w)
<1>1. worker \in [Worker -> WorkerState] /\ backupServers \in [Slot -> Backup] /\ worker[w].n \in Numbers
  BY WorkerFields DEF TypeOK, Backup
<1>2. \A f \in File : Handles(w, f) => worker[w].op.kind \notin UserKinds
  BY LocksAre, KindsAre DEF Holds, Handles
<1>3. CASE Crash("nullUser") \/ Crash("nullDevice")
  <2>1. UNCHANGED <<stream, secondary, backupServers, entering, unsure, worker, files, dirs>>
    BY <1>3 DEF Crash, remoteVars, fileVars
  <2>2. \A f \in File : Handles(w, f)' <=> Handles(w, f)
    BY <2>1 DEF Handles, Busy
  <2>3. \A n \in Server : GoneBy(w, n)' <=> GoneBy(w, n)
    BY <2>1 DEF GoneBy, Sending, Unsent
  <2> QED
    BY <2>1, <2>2, <2>3 DEF Proceeds
<1>4. CASE ChangesTable(w)
  <2>1. /\ worker[w].pc = "user_wait" /\ worker[w].op.kind \in UserKinds
        /\ UNCHANGED <<stream, secondary, backupServers, entering, unsure, files, dirs>>
        /\ \A v \in Worker \ {w} : worker'[v] = worker[v]
        /\ worker'[w].pc = "slots" /\ worker'[w].slot = 1 /\ worker'[w].op = worker[w].op
    BY <1>4 DEF ChangesTable, Turns
  <2>2. \A f \in File : ~ Handles(w, f) /\ ~ Handles(w, f)'
    BY <2>1, <1>2 DEF Handles, Busy
  <2>3. \A n \in Server : entering[n].slot \in Slot => ~ GoneBy(w, n)'
    BY <2>1, NotGone
  <2> QED
    BY <2>1, <2>2, <2>3 DEF Proceeds
<1>5. CASE Refuse(w)
  <2>1. /\ worker[w].pc = "user_wait" /\ worker[w].op.kind = "LOGIN"
        /\ UNCHANGED <<stream, secondary, backupServers, entering, unsure, files, dirs>>
    BY <1>5 DEF Refuse, remoteVars, fileVars
  <2>2. /\ \A v \in Worker \ {w} : worker'[v] = worker[v]
        /\ worker'[w].pc = "ended"
    BY <1>1, <1>5, RefuseIs DEF Turns
  <2>3. \A f \in File : ~ Handles(w, f) /\ ~ Handles(w, f)'
    BY <2>1, <2>2, <1>2 DEF Handles, Busy, UserKinds
  <2>4. \A n \in Server : ~ GoneBy(w, n)'
    BY <2>2, NotGone
  <2> QED
    BY <2>1, <2>2, <2>3, <2>4 DEF Proceeds
<1>6. CASE WriteFile(w)
  <2>1. /\ worker[w].pc = "write" /\ Goto(w, "notify_wait")
        /\ files' = [files EXCEPT ![worker[w].op.file] = worker[w].n]
        /\ UNCHANGED <<stream, secondary, backupServers, entering, unsure, dirs>>
    BY <1>6 DEF WriteFile, remoteVars
  <2>2. /\ \A v \in Worker \ {w} : worker'[v] = worker[v]
        /\ worker'[w].pc = "notify_wait" /\ worker'[w].op = worker[w].op /\ worker'[w].n = worker[w].n
    BY <1>1, <2>1, GotoIs DEF Turns
  <2>3. PICK f \in File : f = worker[w].op.file /\ Handles(w, f) /\ Handles(w, f)'
    BY <2>1, <2>2, LocksAre, KindsAre DEF Holds, Handles, Busy
  <2>4. \A g \in File : Handles(w, g)' <=> Handles(w, g)
    BY <2>1, <2>2 DEF Handles, Busy
  <2>5. \A n \in Server : ~ GoneBy(w, n)'
    BY <2>2, NotGone
  <2>6. ~ Sending(w)' /\ files' = [files EXCEPT ![f] = worker[w].n]
    BY <2>1, <2>2, <2>3 DEF Sending
  <2>7. \E g \in File : /\ Handles(w, g) /\ Handles(w, g)' /\ ~ Sending(w)'
                        /\ files' = [files EXCEPT ![g] = worker[w].n]
    BY <2>3, <2>6
  <2> QED
    BY <2>1, <2>2, <2>4, <2>5, <2>7 DEF Proceeds
<1>7. CASE Notify(w) /\ ~ Crash("nullUser")
  <2>1. /\ worker[w].pc = "notify_wait" /\ Goto(w, "server_wait")
        /\ UNCHANGED <<stream, secondary, backupServers, entering, unsure, files, dirs>>
    BY <1>7 DEF Notify, remoteVars, fileVars
  <2>2. /\ \A v \in Worker \ {w} : worker'[v] = worker[v]
        /\ worker'[w].pc = "server_wait" /\ worker'[w].op = worker[w].op /\ worker'[w].n = worker[w].n
    BY <1>1, <2>1, GotoIs DEF Turns
  <2>3. \A f \in File : Handles(w, f)' <=> Handles(w, f)
    BY <2>1, <2>2 DEF Handles, Busy
  <2>4. \A n \in Server : ~ GoneBy(w, n)'
    BY <2>2, NotGone
  <2> QED
    BY <2>1, <2>2, <2>3, <2>4 DEF Proceeds
<1>8. CASE LockServers(w)
  <2>1. /\ worker[w].pc = "server_wait" /\ GotoSlots(w, worker[w].n)
        /\ UNCHANGED <<stream, secondary, backupServers, entering, unsure, files, dirs>>
    BY <1>8 DEF LockServers, remoteVars, fileVars
  <2>2. /\ \A v \in Worker \ {w} : worker'[v] = worker[v]
        /\ worker'[w].pc = "slots" /\ worker'[w].slot = 1
        /\ worker'[w].op = worker[w].op /\ worker'[w].n = worker[w].n
    BY <1>1, <2>1, GotoSlotsIs DEF Turns
  <2>3. \A f \in File : Handles(w, f)' <=> Handles(w, f)
    BY <2>1, <2>2 DEF Handles, Busy
  <2>4. \A n \in Server : entering[n].slot \in Slot => ~ GoneBy(w, n)'
    BY <2>1, <2>2, NotGone
  <2> QED
    BY <2>1, <2>2, <2>3, <2>4 DEF Proceeds
<1>9. CASE VisitSlot(w)
  <2>1. /\ worker[w].pc = "slots"
        /\ UNCHANGED <<stream, secondary, backupServers, entering, unsure, files, dirs>>
    BY <1>9 DEF VisitSlot, remoteVars, fileVars
  <2>2. /\ \A v \in Worker \ {w} : worker'[v] = worker[v]
        /\ worker'[w].pc \in {"slots", "send"}
        /\ worker'[w].op = worker[w].op /\ worker'[w].n = worker[w].n
    BY <1>1, <1>9, VisitSlotIs DEF Turns, Backup
  <2>3. \A f \in File : Handles(w, f)' <=> Handles(w, f)
    BY <2>1, <2>2 DEF Handles, Busy
  <2>4. \A n \in Server : Listed(n) => (GoneBy(w, n)' <=> GoneBy(w, n))
    BY <1>9, <2>1, <2>2, VisitUnsent DEF GoneBy, Sending
  <2> QED
    BY <2>1, <2>2, <2>3, <2>4 DEF Proceeds
<1>10. CASE Finish(w)
  <2>1. /\ worker[w].pc = "slots" /\ worker[w].slot \notin Slot
        /\ UNCHANGED <<stream, secondary, backupServers, entering, unsure, files>>
        /\ dirs' = dirs \cup {o \in UserName : worker[w].op.kind = "LOGIN" /\ o = worker[w].op.name}
    BY <1>10 DEF Finish, remoteVars
  <2>2. /\ \A v \in Worker \ {w} : worker'[v] = worker[v]
        /\ worker'[w].pc = "idle"
    BY <1>1, <1>10, FinishIs DEF Turns
  <2>3. worker[w].slot = MaxServers + 1
    <3>1. worker[w].slot \in 1 .. MaxServers + 1
      BY <2>1, LocksAre DEF Holds, Sending
    <3> QED
      BY <2>1, <3>1, ReplicationAssumption DEF Slot
  <2>4. \A n \in Server : entering[n].slot \in Slot => GoneBy(w, n)
    BY <2>1, <2>3, NotGone
  <2>5. (\A n \in Server : ~ GoneBy(w, n)') /\ \A f \in File : ~ Handles(w, f)'
    BY <2>2, NotGone DEF Handles, Busy
  <2> QED
    BY <2>1, <2>2, <2>4, <2>5 DEF Proceeds
<1> QED
  BY <1>3, <1>4, <1>5, <1>6, <1>7, <1>8, <1>9, <1>10, LoginChanges, ExitChanges DEF WorkerStep

\* A thread that does not move.
LEMMA SameThread ==
  ASSUME NEW v \in Worker, worker'[v] = worker[v], NEW n \in Server,
         entering'[n].slot = entering[n].slot
  PROVE  /\ GoneBy(v, n)' <=> GoneBy(v, n)
         /\ LoginGoneBy(v, n)' <=> LoginGoneBy(v, n)
BY DEF GoneBy, LoginGoneBy, Sending, Unsent

LEMMA SameHandler ==
  ASSUME NEW v \in Worker, worker'[v] = worker[v]
  PROVE  \A f : Handles(v, f)' <=> Handles(v, f)
BY DEF Handles, Busy

\* A secondary that does not know all users, and hears of nothing.
LEMMA IncompleteStays ==
  ASSUME NEW n \in Server, ~ Complete(secondary[n], stream[n]), stream'[n] = stream[n],
         secondary'[n].first = secondary[n].first
  PROVE  Served(n)'
BY DEF Served, Complete

LEMMA ProceedsHandlers ==
  ASSUME TypeOK, HandlersKnown, \A f \in File \ unsure : Alone(f), NEW w \in Worker, Proceeds(w)
  PROVE  HandlersKnown' /\ \A f \in File : f \notin unsure' => Alone(f)'
<1>1. ASSUME NEW v \in Worker, NEW f \in File, Handles(v, f)'
      PROVE  Handles(v, f) /\ worker'[v].op = worker[v].op /\ worker'[v].n = worker[v].n
  <2>1. CASE v = w
    BY <1>1, <2>1 DEF Proceeds
  <2>2. CASE v # w
    BY <1>1, <2>2, SameHandler DEF Proceeds
  <2> QED
    BY <2>1, <2>2
<1>2. HandlersKnown'
  <2>1. \A v \in Worker, f \in File : Handles(v, f)' => worker'[v].op.name \in dirs'
    BY <1>1 DEF HandlersKnown, Proceeds
  <2> QED
    BY <2>1 DEF HandlersKnown
<1>3. ASSUME NEW f \in File, f \notin unsure', NEW v \in Worker, Handles(v, f)'
      PROVE  /\ \A u \in Worker : Handles(u, f)' => u = v
             /\ worker'[v].pc # "write" => files'[f] = worker'[v].n
  <2>1. Handles(v, f) /\ worker'[v].n = worker[v].n
    BY <1>1, <1>3
  <2>2. /\ \A u \in Worker : Handles(u, f) => u = v
        /\ worker[v].pc # "write" => files[f] = worker[v].n
    BY <1>3, <2>1 DEF Alone, Proceeds
  <2>3. \A u \in Worker : Handles(u, f)' => u = v
    BY <1>1, <2>2
  <2>4. CASE files' = files /\ (worker[w].pc = "write" => worker'[w].pc = "write")
    BY <2>1, <2>2, <2>3, <2>4 DEF Proceeds
  <2>5. ASSUME NEW g \in File, Handles(w, g), files' = [files EXCEPT ![g] = worker[w].n]
        PROVE  worker'[v].pc # "write" => files'[f] = worker'[v].n
    <3>1. files \in [File -> Content]
      BY DEF TypeOK
    <3>2. CASE f = g
      BY <2>1, <2>2, <2>5, <3>1, <3>2
    <3>3. CASE f # g
      <4>1. v # w
        BY <2>1, <2>5, <3>3 DEF Handles
      <4> QED
        BY <2>1, <2>2, <2>5, <3>1, <3>3, <4>1 DEF Proceeds
    <3> QED
      BY <3>2, <3>3
  <2> QED
    BY <2>3, <2>4, <2>5 DEF Proceeds
<1> QED
  BY <1>2, <1>3 DEF Alone

LEMMA ProceedsServed ==
  ASSUME TypeOK, Locks, Slots, Frames, Changes, Tables, NEW w \in Worker, Proceeds(w),
         NEW n \in Server, Hearing(n), Served(n)
  PROVE  Served(n)'
<1>1. UNCHANGED <<stream, secondary, entering>> /\ \A v \in Worker \ {w} : worker'[v] = worker[v]
  BY DEF Proceeds
<1>2. CASE ~ Complete(secondary[n], stream[n])
  BY <1>1, <1>2, IncompleteStays
<1>3. CASE Complete(secondary[n], stream[n])
  <2>1. Listed(n) /\ entering[n].slot \in Slot
    BY <1>3, CompleteIsListed
  <2>2. /\ GoneBy(w, n)' => GoneBy(w, n) /\ worker'[w].op = worker[w].op
        /\ \A f \in File : Handles(w, f) /\ ~ GoneBy(w, n) => Handles(w, f)' /\ ~ GoneBy(w, n)'
    BY <2>1 DEF Proceeds
  <2>3. \A v \in Worker \ {w} : /\ GoneBy(v, n)' <=> GoneBy(v, n)
                                /\ \A f : Handles(v, f)' <=> Handles(v, f)
    BY <1>1, SameThread, SameHandler
  <2>4. ASSUME NEW v \in Worker, LoginGoneBy(v, n)'
        PROVE  LoginGoneBy(v, n) /\ worker'[v].op = worker[v].op
    BY <1>1, <2>2, <2>3, <2>4 DEF LoginGoneBy
  <2>5. ASSUME NEW f \in File, f \notin unsure', Delivered(f, n)'
        PROVE  f \notin unsure /\ Delivered(f, n) /\ files'[f] = files[f]
    <3>1. f \notin unsure
      BY <2>5 DEF Proceeds
    <3>2. \A v \in Worker : Handles(v, f)' => GoneBy(v, n)'
      BY <2>5 DEF Delivered
    <3>3. Delivered(f, n)
      BY <2>2, <2>3, <3>2 DEF Delivered
    <3>4. \A g \in File : Handles(w, g)' /\ ~ Sending(w)' => g # f
      BY <3>2 DEF GoneBy
    <3>5. files'[f] = files[f]
      BY <3>4 DEF Proceeds, TypeOK
    <3> QED
      BY <3>1, <3>3, <3>5
  <2>6. \A name \in dirs' : name \in dirs
           \/ \E v \in Worker : LoginGoneBy(v, n) /\ name = worker[v].op.name
    BY <2>1 DEF Proceeds, LoginGoneBy
  <2> QED
    BY <1>1, <2>4, <2>5, <2>6, ServedMoved
<1> QED
  BY <1>2, <1>3

\* What the beginning of an operation does.
LEMMA BeginEffect ==
  ASSUME TypeOK, NEW w \in Worker, NEW op \in Workload, Begin(w, op)
  PROVE  /\ UNCHANGED <<stream, secondary, entering, dirs, files, past>>
         /\ \A v \in Worker \ {w} : worker'[v] = worker[v]
         /\ worker'[w].pc \in {"user_wait", "write"} /\ worker'[w].op = op
         /\ op.kind \in FileKinds => worker'[w].pc = "write" /\ op.name \in dirs
         /\ \A f : ~ Handles(w, f)
         /\ \A f : Handles(w, f)' => f = op.file
         /\ op.file \in File => Handles(w, op.file)'
         /\ \A f \in File : f \notin unsure' /\ f = op.file => \A v \in Worker : ~ Handles(v, f)
         /\ \A f \in File : f \notin unsure' /\ f # op.file => f \notin unsure
<1>1. /\ UNCHANGED <<stream, secondary, entering, dirs, files, past>> /\ worker[w].pc = "idle"
      /\ op.kind # "LOGIN" => op.name \in dirs
      /\ unsure' = IF \E v \in Worker : Busy(v) /\ worker[v].op.kind # "none"
                                               /\ worker[v].op.file = op.file
                    THEN unsure \cup ({op.file} \ {NoFile})
                    ELSE unsure \ {op.file}
  BY DEF Begin, tableVars, remoteVars
<1>2. /\ \A v \in Worker \ {w} : worker'[v] = worker[v]
      /\ worker'[w].pc = IF op.file = NoFile THEN "user_wait" ELSE "write"
      /\ worker'[w].op = op
  BY BeginIs DEF Turns, TypeOK, Numbers
<1>3. op.kind \in FileKinds => op.file # NoFile /\ op.kind # "LOGIN"
  BY KindsAre DEF FileKinds
<1>4. ASSUME NEW f \in File, f \notin unsure', f = op.file, NEW v \in Worker, Handles(v, f)
      PROVE  FALSE
  <2>1. Busy(v) /\ worker[v].op.kind # "none" /\ worker[v].op.file = op.file
    BY <1>4 DEF Handles, FileKinds
  <2>2. f \in unsure'
    BY <1>1, <1>4, <2>1, ReplicationAssumption
  <2> QED
    BY <1>4, <2>2
<1>5. \A f \in File : f \notin unsure' /\ f # op.file => f \notin unsure
  BY <1>1
<1>6. op.file \in File => Handles(w, op.file)'
  BY <1>2, KindsAre, ReplicationAssumption DEF Handles, Busy
<1> QED
  BY <1>1, <1>2, <1>3, <1>4, <1>5, <1>6 DEF Handles, Busy

LEMMA BeginHandlers ==
  ASSUME TypeOK, HandlersKnown, \A f \in File \ unsure : Alone(f),
         NEW w \in Worker, NEW op \in Workload, Begin(w, op)
  PROVE  HandlersKnown' /\ \A f \in File : f \notin unsure' => Alone(f)'
<1>1. ASSUME NEW v \in Worker, NEW f \in File, Handles(v, f)', v # w
      PROVE  Handles(v, f) /\ worker'[v] = worker[v]
  BY <1>1, BeginEffect, SameHandler
<1>2. HandlersKnown'
  <2>1. ASSUME NEW v \in Worker, NEW f \in File, Handles(v, f)'
        PROVE  worker'[v].op.name \in dirs'
    <3>1. CASE v = w
      <4>1. worker'[w].op = op /\ op.kind \in FileKinds
        BY <2>1, <3>1, BeginEffect DEF Handles
      <4> QED
        BY <3>1, <4>1, BeginEffect
    <3>2. CASE v # w
      BY <1>1, <2>1, <3>2, BeginEffect DEF HandlersKnown
    <3> QED
      BY <3>1, <3>2
  <2> QED
    BY <2>1 DEF HandlersKnown
<1>3. ASSUME NEW f \in File, f \notin unsure', NEW v \in Worker, Handles(v, f)'
      PROVE  /\ \A u \in Worker : Handles(u, f)' => u = v
             /\ worker'[v].pc # "write" => files'[f] = worker'[v].n
  <2>1. CASE f = op.file
    <3>1. \A u \in Worker : ~ Handles(u, f)
      BY <1>3, <2>1, BeginEffect
    <3>2. \A u \in Worker : Handles(u, f)' => u = w
      BY <1>1, <3>1
    <3>3. worker'[w].op = op /\ op.kind \in FileKinds
      BY <1>3, <3>2, BeginEffect DEF Handles
    <3>4. worker'[w].pc = "write"
      BY <3>3, BeginEffect
    <3> QED
      BY <1>3, <3>2, <3>4
  <2>2. CASE f # op.file
    <3>1. ~ Handles(w, f)' /\ f \notin unsure /\ files' = files
      BY <1>3, <2>2, BeginEffect
    <3>2. Handles(v, f) /\ worker'[v] = worker[v]
      BY <1>1, <1>3, <3>1
    <3>3. /\ \A u \in Worker : Handles(u, f) => u = v
          /\ worker[v].pc # "write" => files[f] = worker[v].n
      BY <3>1, <3>2 DEF Alone
    <3> QED
      BY <1>1, <3>1, <3>2, <3>3
  <2> QED
    BY <2>1, <2>2
<1> QED
  BY <1>2, <1>3 DEF Alone

LEMMA BeginServed ==
  ASSUME TypeOK, NEW w \in Worker, NEW op \in Workload, Begin(w, op),
         NEW n \in Server, Served(n)
  PROVE  Served(n)'
<1>1. /\ UNCHANGED <<stream, secondary, entering, dirs, files>>
      /\ \A v \in Worker \ {w} : worker'[v] = worker[v]
      /\ worker'[w].pc \notin {"slots", "send"} /\ worker'[w].op = op
  BY BeginEffect
<1>2. ~ GoneBy(w, n)'
  BY <1>1, NotGone
<1>3. \A v \in Worker \ {w} : /\ GoneBy(v, n)' <=> GoneBy(v, n)
                              /\ \A f : Handles(v, f)' <=> Handles(v, f)
  BY <1>1, SameThread, SameHandler
<1>4. ASSUME NEW v \in Worker, LoginGoneBy(v, n)'
      PROVE  LoginGoneBy(v, n) /\ worker'[v].op = worker[v].op
  BY <1>1, <1>2, <1>3, <1>4 DEF LoginGoneBy
<1>5. ASSUME NEW f \in File, f \notin unsure', Delivered(f, n)'
      PROVE  f \notin unsure /\ Delivered(f, n)
  <2>1. \A v \in Worker : Handles(v, f)' => GoneBy(v, n)'
    BY <1>5 DEF Delivered
  <2>2. \A v \in Worker \ {w} : Handles(v, f) => GoneBy(v, n)
    BY <1>3, <2>1
  <2>3. Delivered(f, n)
    BY <2>2, BeginEffect DEF Delivered
  <2>4. f # op.file
    BY <1>2, <2>1, BeginEffect
  <2> QED
    BY <1>5, <2>3, <2>4, BeginEffect
<1> QED
  BY <1>1, <1>4, <1>5, ServedMoved

\* What half a frame does: it comes to the stream of the secondary w is at, if that
\* one still reads.
LEMMA SendEffect ==
  ASSUME TypeOK, Locks, Slots, NEW w \in Worker, SendHalf(w)
  PROVE  LET x == worker[w] IN
         /\ x.pc = "send" /\ x.slot \in Slot /\ x.half \in {1, 2} /\ x.op \in Workload
         /\ UNCHANGED <<past, backupServers, entering, secondary, dirs, files, unsure>>
         /\ \A v \in Worker \ {w} : worker'[v] = worker[v]
         /\ worker'[w].op = x.op /\ worker'[w].n = x.n /\ worker'[w].pc \in {"slots", "send"}
         /\ \A n \in Server : n = x.to =>
              /\ Listed(n) /\ entering[n].slot = x.slot
              /\ GoneBy(w, n)'
         /\ \A n \in Server : n # x.to \/ ~ Hearing(n) => stream'[n] = stream[n]
         /\ \A n \in Server : n = x.to /\ Hearing(n) =>
              \E e \in Unit : /\ e.op = x.op /\ e.n = x.n
                              /\ Added(stream[n], e, stream'[n])
<1> DEFINE x == worker[w]
<1>1. /\ x.pc = "send" /\ x.slot \in Slot /\ x.half \in {1, 2} /\ x.op \in Op /\ x.op \in Workload
      /\ x.n \in Numbers /\ x.to \in Server \cup {NoServer}
  BY LocksAre, WorkerFields, ReplicationAssumption DEF SendHalf, Holds, Busy, TypeOK
<1>2. IF x.half = 1 THEN Turns(w, "send", x.op, x.n, x.slot, 2, x.to)
                    ELSE Turns(w, "slots", x.op, x.n, x.slot + 1, 0, NoServer)
  BY <1>1, SendHalfIs DEF TypeOK
<1>3. UNCHANGED <<past, backupServers, entering, secondary, dirs, files, unsure>>
      /\ Write(x.to, [op |-> x.op, n |-> x.n, half |-> x.half])
  BY DEF SendHalf, tableVars, fileVars
<1>4. PICK e \in Unit : e = [op |-> x.op, n |-> x.n, half |-> x.half]
  BY <1>1 DEF Unit, Numbers
<1>5. PICK to \in Server \cup {NoServer} : to = x.to
  BY <1>1
<1>6. /\ \A m \in Server \ {to} : stream'[m] = stream[m]
      /\ to \in Server => stream'[to] = IF Hearing(to) THEN Append(stream[to], e) ELSE stream[to]
  BY <1>3, <1>4, <1>5, WriteIs
<1>7. /\ \A v \in Worker \ {w} : worker'[v] = worker[v]
      /\ worker'[w].op = x.op /\ worker'[w].n = x.n /\ worker'[w].pc \in {"slots", "send"}
  BY <1>2 DEF Turns
<1>8. ASSUME NEW n \in Server, n = x.to
      PROVE  Listed(n) /\ entering[n].slot = x.slot /\ GoneBy(w, n)'
  <2>1. backupServers[x.slot].socket = n
    BY <1>1, <1>8, SlotsAre, ReplicationAssumption DEF Aimed
  <2>2. backupServers[x.slot].id = n
    BY <1>1, <2>1, SlotsAre, ReplicationAssumption DEF Belongs
  <2>3. Listed(n) /\ entering[n].slot = x.slot
    BY <1>1, <2>1, <2>2, SlotsAre, ReplicationAssumption DEF Belongs, Listed
  <2>4. PICK s \in Slot : s = x.slot /\ s \in Int
    BY <1>1 DEF Slot
  <2>5. GoneBy(w, n)'
    BY <1>1, <1>2, <1>3, <2>3, <2>4 DEF Turns, GoneBy, Sending, Unsent
  <2> QED
    BY <2>3, <2>5
<1>9. ASSUME NEW n \in Server, n = x.to, Hearing(n)
      PROVE  Added(stream[n], e, stream'[n])
  <2>1. PICK q \in Stream : q = stream[n]
    BY DEF TypeOK
  <2>2. stream'[n] = Append(q, e)
    BY <1>5, <1>6, <1>9, <2>1
  <2> QED
    BY <2>1, <2>2, AddedIs
<1>10. \A n \in Server : n # x.to \/ ~ Hearing(n) => stream'[n] = stream[n]
  BY <1>5, <1>6
<1>11. e.op = x.op /\ e.n = x.n
  BY <1>4
<1> HIDE DEF x
<1>12. \A n \in Server : n = x.to /\ Hearing(n) =>
         \E u \in Unit : u.op = x.op /\ u.n = x.n /\ Added(stream[n], u, stream'[n])
  BY <1>9, <1>11
<1> QED
  BY <1>1, <1>3, <1>7, <1>8, <1>10, <1>12 DEF x

LEMMA SendHandlers ==
  ASSUME TypeOK, Locks, Slots, HandlersKnown, \A f \in File \ unsure : Alone(f),
         NEW w \in Worker, SendHalf(w)
  PROVE  /\ HandlersKnown' /\ \A f \in File : f \notin unsure' => Alone(f)'
         /\ \A v \in Worker, f \in File : Handles(v, f)' <=> Handles(v, f)
<1>1. /\ worker[w].pc = "send" /\ UNCHANGED <<dirs, files, unsure>>
      /\ \A v \in Worker \ {w} : worker'[v] = worker[v]
      /\ worker'[w].op = worker[w].op /\ worker'[w].n = worker[w].n
      /\ worker'[w].pc \in {"slots", "send"}
  BY SendEffect
<1>2. \A v \in Worker : /\ worker'[v].op = worker[v].op /\ worker'[v].n = worker[v].n
                        /\ worker'[v].pc = "write" <=> worker[v].pc = "write"
                        /\ Busy(v)' <=> Busy(v)
  BY <1>1 DEF Busy
<1>3. \A v \in Worker, f \in File : Handles(v, f)' <=> Handles(v, f)
  BY <1>2 DEF Handles
<1> QED
  BY <1>1, <1>2, <1>3 DEF HandlersKnown, Alone

\* w writes to another secondary than n.
LEMMA SendPast ==
  ASSUME TypeOK, Locks, Slots, Frames, Changes, Tables, HandlersKnown,
         \A f \in File \ unsure : Alone(f), NEW w \in Worker, SendHalf(w),
         NEW n \in Server, Hearing(n), Served(n), n # worker[w].to
  PROVE  Served(n)'
<1>1. /\ UNCHANGED <<entering, secondary, dirs, files, unsure>> /\ stream'[n] = stream[n]
      /\ worker'[w].op = worker[w].op
      /\ \A v \in Worker \ {w} : worker'[v] = worker[v]
  BY SendEffect
<1>2. CASE ~ Complete(secondary[n], stream[n])
  BY <1>1, <1>2, IncompleteStays
<1>3. CASE Complete(secondary[n], stream[n])
  <2>1. ~ Unheard(n) /\ entering[n].slot \in Slot /\ backupServers[entering[n].slot].socket = n
    BY <1>3, CompleteIsListed
  <2>2. worker[w].slot # entering[n].slot
    <3>1. SUFFICES ASSUME worker[w].slot = entering[n].slot
                   PROVE  FALSE
      OBVIOUS
    <3>2. worker[w].pc = "send" /\ worker[w].op \in Workload
      BY SendEffect
    <3>3. worker[w].to = NoServer
      BY <2>1, <3>1, <3>2, SlotsAre DEF Aimed
    <3>4. worker[w].op.kind \in UserKinds
      BY <3>2, <3>3, LocksAre, KindsAre DEF Holds
    <3>5. PassesBy(w, n)
      BY <3>1, <3>2, <3>4 DEF PassesBy
    <3> QED
      BY <2>1, <3>5, ChangesAre, InOrderIs
  <2>3. GoneBy(w, n)' <=> GoneBy(w, n)
    <3>1. Unsent(w, n)' <=> Unsent(w, n)
      BY <2>1, <2>2, SendUnsent
    <3>2. Sending(w)' /\ Sending(w)
      BY SendEffect DEF Sending
    <3> QED
      BY <3>1, <3>2 DEF GoneBy
  <2>4. \A v \in Worker : GoneBy(v, n)' <=> GoneBy(v, n)
    BY <1>1, <2>3, SameThread
  <2>5. \A v \in Worker : LoginGoneBy(v, n)' => LoginGoneBy(v, n) /\ worker'[v].op = worker[v].op
    BY <1>1, <2>4 DEF LoginGoneBy
  <2>6. \A f \in File : Delivered(f, n)' => Delivered(f, n)
    BY <2>4, SendHandlers DEF Delivered
  <2> QED
    BY <1>1, <2>5, <2>6, ServedMoved
<1> QED
  BY <1>2, <1>3

\* w writes half a frame of a file to n.
LEMMA SendFileServed ==
  ASSUME TypeOK, Locks, Slots, Frames, Changes, Tables, HandlersKnown,
         \A f \in File \ unsure : Alone(f), NEW w \in Worker, SendHalf(w),
         NEW n \in Server, Hearing(n), Served(n), n = worker[w].to,
         worker[w].op.kind \in FileKinds
  PROVE  Served(n)'
<1>1. /\ UNCHANGED <<entering, secondary, dirs, files, unsure>>
      /\ worker[w].pc = "send" /\ worker[w].op \in Workload /\ worker'[w].op = worker[w].op
      /\ \A v \in Worker \ {w} : worker'[v] = worker[v]
      /\ \E e \in Unit : e.op = worker[w].op /\ e.n = worker[w].n /\ Added(stream[n], e, stream'[n])
  BY SendEffect
<1>2. PICK e \in Unit : e.op = worker[w].op /\ e.n = worker[w].n /\ Added(stream[n], e, stream'[n])
  BY <1>1
<1>3. PICK s, q, r : s = secondary[n] /\ s = secondary'[n] /\ q = stream[n] /\ r = stream'[n]
  BY <1>1
<1>4. Added(q, e, r)
  BY <1>2, <1>3
<1>5. e.op.kind \in FileKinds /\ e.op.kind \notin UserKinds /\ e.op.kind # "LOGIN"
  BY <1>1, <1>2, KindsAre DEF FileKinds
<1>6. \A f \in File : Handles(w, f) <=> f = e.op.file
  BY <1>1, <1>2 DEF Handles, Busy
<1>7. e.op.file \in File /\ e.op.name \in dirs
  BY <1>1, <1>2, <1>6, KindsAre DEF HandlersKnown
<1>8. SUFFICES ASSUME Complete(s, r)
               PROVE  /\ \A name \in dirs : KnownIn(s, r, name, Len(r) + 1)
                      /\ \A v \in Worker : LoginGoneBy(v, n)' =>
                           KnownIn(s, r, worker'[v].op.name, Len(r) + 1)
                      /\ \A j \in DOMAIN r : IsFile(r, j) => KnownIn(s, r, r[j].op.name, j)
                      /\ \A f \in File : f \notin unsure /\ Delivered(f, n)' => HoldsIn(s, r, f, files[f])
  BY <1>1, <1>3, ServedNext
<1>9. Complete(s, q)
  BY <1>4, <1>5, <1>8, CompleteAdded
<1>10. /\ \A name \in dirs : KnownIn(s, q, name, Len(q) + 1)
       /\ \A v \in Worker : LoginGoneBy(v, n) => KnownIn(s, q, worker[v].op.name, Len(q) + 1)
       /\ \A j \in DOMAIN q : IsFile(q, j) => KnownIn(s, q, q[j].op.name, j)
       /\ \A f \in File \ unsure : Delivered(f, n) => HoldsIn(s, q, f, files[f])
  BY <1>3, <1>9 DEF Served
<1>11. \A name \in dirs : KnownIn(s, r, name, Len(r) + 1)
  BY <1>4, <1>10, KnownAdded
<1>12. ASSUME NEW v \in Worker, LoginGoneBy(v, n)'
       PROVE  KnownIn(s, r, worker'[v].op.name, Len(r) + 1)
  <2>1. v # w
    BY <1>1, <1>2, <1>5, <1>12 DEF LoginGoneBy
  <2>2. LoginGoneBy(v, n) /\ worker'[v] = worker[v]
    BY <1>1, <1>12, <2>1, SameThread
  <2> QED
    BY <1>4, <1>10, <2>2, KnownAdded
<1>13. ASSUME NEW j \in DOMAIN r, IsFile(r, j)
       PROVE  KnownIn(s, r, r[j].op.name, j)
  <2>1. Len(q) \in Nat /\ DOMAIN q = 1 .. Len(q) /\ Len(q) + 1 \in 1 .. Len(q) + 1
        /\ DOMAIN q \subseteq 1 .. Len(q) + 1
    BY <1>4 DEF Added
  <2>2. CASE j = Len(q) + 1
    <3>1. r[j] = e /\ KnownIn(s, q, e.op.name, Len(q) + 1)
      BY <1>4, <1>7, <1>10, <2>2 DEF Added
    <3> QED
      BY <1>4, <2>1, <2>2, <3>1, KnownAdded
  <2>3. CASE j # Len(q) + 1
    <3>1. j \in DOMAIN q /\ r[j] = q[j]
      BY <1>4, <2>3, UserOfAdded
    <3>2. KnownIn(s, q, q[j].op.name, j)
      BY <1>10, <1>13, <3>1 DEF IsFile
    <3> QED
      BY <1>4, <2>1, <3>1, <3>2, KnownAdded
  <2> QED
    BY <2>2, <2>3
<1>14. ASSUME NEW f \in File, f \notin unsure, Delivered(f, n)'
       PROVE  HoldsIn(s, r, f, files[f])
  <2>1. CASE f = e.op.file
    <3>1. files[f] = worker[w].n
      BY <1>1, <1>6, <1>14, <2>1 DEF Alone
    <3> QED
      BY <1>2, <1>4, <1>5, <2>1, <3>1, HoldsAdded
  <2>2. CASE f # e.op.file
    <3>1. \A v \in Worker : Handles(v, f) => v # w /\ GoneBy(v, n)'
      BY <1>6, <1>14, <2>2, SendHandlers DEF Delivered
    <3>2. Delivered(f, n)
      BY <1>1, <3>1, SameThread DEF Delivered
    <3> QED
      BY <1>4, <1>10, <1>14, <2>2, <3>2, HoldsAdded
  <2> QED
    BY <2>1, <2>2
<1> QED
  BY <1>11, <1>12, <1>13, <1>14

\* w writes half a frame of a login or an exit to n.  If it is the first change, there
\* is no file yet.
LEMMA SendUserServed ==
  ASSUME TypeOK, Locks, Slots, Frames, Changes, Tables, NoFilesYet, HandlersKnown,
         \A f \in File \ unsure : Alone(f), NEW w \in Worker, SendHalf(w),
         NEW n \in Server, Hearing(n), Served(n), n = worker[w].to,
         worker[w].op.kind \in UserKinds
  PROVE  Served(n)'
<1>1. /\ UNCHANGED <<entering, secondary, dirs, files, unsure>>
      /\ worker[w].pc = "send" /\ worker[w].op \in Workload /\ worker'[w].op = worker[w].op
      /\ worker'[w].pc \in {"slots", "send"}
      /\ \A v \in Worker \ {w} : worker'[v] = worker[v]
      /\ \E e \in Unit : e.op = worker[w].op /\ e.n = worker[w].n /\ Added(stream[n], e, stream'[n])
  BY SendEffect
<1>2. PICK e \in Unit : e.op = worker[w].op /\ e.n = worker[w].n /\ Added(stream[n], e, stream'[n])
  BY <1>1
<1>3. PICK s, q, r : s = secondary[n] /\ s = secondary'[n] /\ q = stream[n] /\ r = stream'[n]
  BY <1>1
<1>4. Added(q, e, r)
  BY <1>2, <1>3
<1>5. e.op.kind \in UserKinds /\ e.op.kind \notin FileKinds
  BY <1>1, <1>2, KindsAre
<1>6. \A f \in File : ~ Handles(w, f)
  BY <1>2, <1>5 DEF Handles
<1>7. UserSender(w) /\ e.n = Change
  BY <1>1, <1>2, ChangesAre DEF UserSender, Sending
<1>8. SUFFICES ASSUME Complete(s, r)
               PROVE  /\ \A name \in dirs : KnownIn(s, r, name, Len(r) + 1)
                      /\ \A v \in Worker : LoginGoneBy(v, n)' =>
                           KnownIn(s, r, worker'[v].op.name, Len(r) + 1)
                      /\ \A j \in DOMAIN r : IsFile(r, j) => KnownIn(s, r, r[j].op.name, j)
                      /\ \A f \in File : f \notin unsure /\ Delivered(f, n)' => HoldsIn(s, r, f, files[f])
  BY <1>1, <1>3, ServedNext
<1>9. /\ \A name \in dirs : KnownIn(s, q, name, Len(q) + 1)
      /\ \A j \in DOMAIN q : IsFile(q, j) => KnownIn(s, q, q[j].op.name, j)
      /\ \A f \in File \ unsure : Delivered(f, n) => HoldsIn(s, q, f, files[f])
  <2>1. CASE Complete(s, q)
    BY <1>3, <2>1 DEF Served
  <2>2. CASE ~ Complete(s, q)
    <3>1. Change = 1
      BY <1>4, <1>7, <1>8, <2>2, CompleteAdded
    <3>2. dirs = {}
      <4>1. SUFFICES ASSUME dirs # {}
                     PROVE  FALSE
        OBVIOUS
      <4>2. Change > 1
        BY <1>7, <4>1 DEF NoFilesYet, UserSender
      <4> QED
        BY <3>1, <4>2
    <3>3. unsure = File /\ \A i \in DOMAIN q : ~ IsFile(q, i)
      BY <1>3, <3>2 DEF NoFilesYet
    <3> QED
      BY <3>2, <3>3
  <2> QED
    BY <2>1, <2>2
<1>10. \A name \in dirs : KnownIn(s, r, name, Len(r) + 1)
  BY <1>4, <1>9, KnownAdded
<1>11. ASSUME NEW v \in Worker, LoginGoneBy(v, n)'
       PROVE  KnownIn(s, r, worker'[v].op.name, Len(r) + 1)
  <2>1. v = w
    <3>1. SUFFICES ASSUME v # w
                   PROVE  FALSE
      OBVIOUS
    <3>2. LoginGoneBy(v, n)
      BY <1>1, <1>11, <3>1, SameThread
    <3>3. UserSender(v)
      BY <3>2 DEF LoginGoneBy, GoneBy, UserSender, UserKinds
    <3> QED
      BY <1>7, <3>1, <3>3, OneUserSender
  <2>2. e.op.kind = "LOGIN" /\ worker'[v].op.name = e.op.name
    BY <1>1, <1>2, <1>11, <2>1 DEF LoginGoneBy
  <2>3. PICK name : name = e.op.name
    OBVIOUS
  <2>4. e.op.kind = "LOGIN" /\ e.op.name = name => KnownIn(s, r, name, Len(r) + 1)
    BY ONLY <1>4, KnownAdded
  <2> QED
    BY <2>2, <2>3, <2>4
<1>12. ASSUME NEW j \in DOMAIN r, IsFile(r, j)
       PROVE  KnownIn(s, r, r[j].op.name, j)
  <2>1. DOMAIN q \subseteq 1 .. Len(q) + 1
    BY <1>4 DEF Added
  <2>2. j # Len(q) + 1
    BY <1>4, <1>5, <1>12 DEF Added, IsFile
  <2>3. j \in DOMAIN q /\ r[j] = q[j]
    BY <1>4, <2>2, UserOfAdded
  <2>4. KnownIn(s, q, q[j].op.name, j)
    BY <1>9, <1>12, <2>3 DEF IsFile
  <2> QED
    BY <1>4, <2>1, <2>3, <2>4, KnownAdded
<1>13. ASSUME NEW f \in File, f \notin unsure, Delivered(f, n)'
       PROVE  HoldsIn(s, r, f, files[f])
  <2>1. \A v \in Worker : Handles(v, f) => v # w /\ GoneBy(v, n)'
    BY <1>6, <1>13, SendHandlers DEF Delivered
  <2>2. Delivered(f, n)
    BY <1>1, <2>1, SameThread DEF Delivered
  <2> QED
    BY <1>4, <1>5, <1>9, <1>13, <2>2, HoldsAdded
<1> QED
  BY <1>10, <1>11, <1>12, <1>13

LEMMA SendServed ==
  ASSUME TypeOK, Locks, Slots, Frames, Changes, Tables, NoFilesYet, HandlersKnown,
         \A f \in File \ unsure : Alone(f), NEW w \in Worker, SendHalf(w),
         NEW n \in Server, Hearing(n), Served(n)
  PROVE  Served(n)'
<1>1. worker[w].op.kind \in UserKinds \/ worker[w].op.kind \in FileKinds
  BY SendEffect, KindsAre
<1> QED
  BY <1>1, SendPast, SendFileServed, SendUserServed

\* An acknowledgement comes to the stream of n.
LEMMA AckServed ==
  ASSUME NEW n \in Server, Served(n), UNCHANGED <<worker, dirs, files, unsure, secondary>>,
         entering'[n].slot = entering[n].slot, NEW e, e.op.kind = "none",
         Added(stream[n], e, stream'[n])
  PROVE  Served(n)'
<1>1. PICK s, q, r : s = secondary[n] /\ s = secondary'[n] /\ q = stream[n] /\ r = stream'[n]
  OBVIOUS
<1>2. Added(q, e, r) /\ e.op.kind \notin UserKinds /\ e.op.kind \notin FileKinds
  BY <1>1, NoneIsNoKind
<1>3. /\ \A v \in Worker : (GoneBy(v, n)' <=> GoneBy(v, n)) /\ (LoginGoneBy(v, n)' <=> LoginGoneBy(v, n))
      /\ \A v \in Worker, f \in File : Handles(v, f)' <=> Handles(v, f)
  BY SameThread, SameHandler
<1>4. \A f \in File : Delivered(f, n)' => Delivered(f, n)
  BY <1>3 DEF Delivered
<1>5. SUFFICES ASSUME Complete(s, r)
               PROVE  /\ \A name \in dirs : KnownIn(s, r, name, Len(r) + 1)
                      /\ \A v \in Worker : LoginGoneBy(v, n)' =>
                           KnownIn(s, r, worker'[v].op.name, Len(r) + 1)
                      /\ \A j \in DOMAIN r : IsFile(r, j) => KnownIn(s, r, r[j].op.name, j)
                      /\ \A f \in File : f \notin unsure /\ Delivered(f, n)' => HoldsIn(s, r, f, files[f])
  BY <1>1, ServedNext
<1>6. Complete(s, q)
  BY <1>2, <1>5, CompleteAdded
<1>7. /\ \A name \in dirs : KnownIn(s, q, name, Len(q) + 1)
      /\ \A v \in Worker : LoginGoneBy(v, n) => KnownIn(s, q, worker[v].op.name, Len(q) + 1)
      /\ \A j \in DOMAIN q : IsFile(q, j) => KnownIn(s, q, q[j].op.name, j)
      /\ \A f \in File \ unsure : Delivered(f, n) => HoldsIn(s, q, f, files[f])
  BY <1>1, <1>6 DEF Served
<1>8. \A name : /\ \A j \in 1 .. Len(q) + 1 : KnownIn(s, q, name, j) => KnownIn(s, r, name, j)
                /\ KnownIn(s, q, name, Len(q) + 1) => KnownIn(s, r, name, Len(r) + 1)
  BY ONLY <1>2, KnownAdded
<1>9. ASSUME NEW j \in DOMAIN r, IsFile(r, j)
      PROVE  KnownIn(s, r, r[j].op.name, j)
  <2>1. DOMAIN q \subseteq 1 .. Len(q) + 1
    BY <1>2 DEF Added
  <2>2. j # Len(q) + 1
    BY <1>2, <1>9 DEF Added, IsFile
  <2>3. j \in DOMAIN q /\ r[j] = q[j]
    BY <1>2, <2>2, UserOfAdded
  <2>4. KnownIn(s, q, q[j].op.name, j)
    BY <1>7, <1>9, <2>3 DEF IsFile
  <2> QED
    BY <1>8, <2>1, <2>3, <2>4
<1>10. \A f \in File : f \notin unsure /\ Delivered(f, n)' => HoldsIn(s, r, f, files[f])
  BY <1>2, <1>4, <1>7, HoldsAdded
<1> QED
  BY <1>3, <1>7, <1>8, <1>9, <1>10

LEMMA EnterServed ==
  ASSUME TypeOK, Locks, Slots, Frames, Changes, Tables, NEW n \in Server, Connect(n) \/ EnterStep(n),
         NEW m \in Server, Hearing(m)', Hearing(m) => Served(m)
  PROVE  Served(m)'
<1>1. /\ UNCHANGED <<worker, dirs, files, unsure>>
      /\ \A k \in Server \ {n} : /\ secondary'[k] = secondary[k] /\ entering'[k] = entering[k]
                                 /\ stream'[k] = stream[k]
  <2>1. CASE Connect(n)
    BY <2>1 DEF Connect, Enter, fileVars, TypeOK
  <2>2. CASE EnterStep(n)
    <3>1. UNCHANGED <<worker, dirs, files, unsure, secondary>>
      BY <2>2 DEF EnterStep, FindSlot, InsertId, InsertSocket, InsertFails, Acknowledge, fileVars
    <3>2. \A k \in Server \ {n} : entering'[k] = entering[k]
      BY <2>2 DEF EnterStep, FindSlot, InsertId, InsertSocket, InsertFails, Acknowledge, Enter, TypeOK
    <3>3. \A k \in Server \ {n} : stream'[k] = stream[k]
      BY <2>2, WriteIs DEF EnterStep, FindSlot, InsertId, InsertSocket, InsertFails, Acknowledge
    <3> QED
      BY <3>1, <3>2, <3>3
  <2> QED
    BY <2>1, <2>2
<1>2. CASE m # n
  <2>1. secondary'[m] = secondary[m] /\ entering'[m] = entering[m] /\ stream'[m] = stream[m]
    BY <1>1, <1>2
  <2>2. Served(m)
    BY <2>1 DEF Hearing
  <2> QED
    BY <1>1, <2>1, <2>2, ServedSame
<1>3. CASE m = n /\ Connect(n)
  <2>1. secondary[n] \in Off /\ stream[n] = <<>> /\ stream'[n] = stream[n]
    BY <1>3, FramesAre DEF Connect, Tables, FramesOf, Hearing
  <2>2. ~ Complete(secondary[n], stream[n])
    <3>1. \A i \in DOMAIN stream[n] : FALSE
      BY <2>1
    <3>2. secondary[n].first = 0
      BY <2>1 DEF Off
    <3> QED
      BY <3>1, <3>2 DEF Complete
  <2>3. secondary'[n].first = secondary[n].first
    BY <1>3 DEF Connect, TypeOK, SecondaryState
  <2> QED
    BY <1>3, <2>1, <2>2, <2>3, IncompleteStays
<1>4. CASE m = n /\ (FindSlot(n) \/ InsertId(n) \/ InsertSocket(n) \/ InsertFails(n))
  <2>1. /\ entering[n].pc \in {"server_wait", "insert", "socket"}
        /\ stream' = stream /\ secondary' = secondary
    BY <1>4 DEF FindSlot, InsertId, InsertSocket, InsertFails
  <2>2. Hearing(n) /\ ~ Listed(n)
    BY <1>4, <2>1, SlotFacts DEF Hearing
  <2>3. ~ Complete(secondary[n], stream[n])
    BY <2>2, CompleteIsListed
  <2> QED
    BY <1>4, <2>1, <2>3, IncompleteStays
<1>5. CASE m = n /\ Acknowledge(n)
  <2>1. Write(n, Ack) /\ secondary' = secondary /\ entering'[n].slot = entering[n].slot
    BY <1>5 DEF Acknowledge, Enter, TypeOK, EnteringState
  <2>2. Hearing(n)
    BY <1>5, <2>1 DEF Hearing
  <2>3. PICK q \in Stream : q = stream[n]
    BY DEF TypeOK
  <2>4. Added(q, Ack, Append(q, Ack)) /\ stream'[n] = Append(q, Ack)
    BY <2>1, <2>2, <2>3, WriteIs, AddedIs
  <2>5. Ack.op.kind = "none"
    BY DEF Ack, NoOp
  <2>6. PICK e : e = Ack /\ e.op.kind = "none"
    BY <2>5
  <2>7. Added(stream[n], e, stream'[n]) /\ Served(n)
    BY <1>5, <2>2, <2>3, <2>4, <2>6
  <2> QED
    BY <1>1, <1>5, <2>1, <2>6, <2>7, AckServed
<1> QED
  BY <1>2, <1>3, <1>4, <1>5 DEF EnterStep

\* A secondary reads what is at the front of its stream.
LEMMA ReaderServed ==
  ASSUME NEW n \in Server, Served(n), Elsewhere(n),
         NEW d \in {1, 2}, Rest(stream[n], d, stream'[n]), Chunk(stream[n], d),
         NEW s, NEW t, NEW q, NEW r, s = secondary[n], t = secondary'[n], q = stream[n], r = stream'[n],
         t.first = IF q[1].op.kind \in UserKinds /\ s.first = 0 THEN q[1].n ELSE s.first,
         s.dirs \subseteq t.dirs, q[1].op.kind = "LOGIN" => q[1].op.name \in t.dirs,
         \A f \in File : (IsFile(q, 1) => KnownIn(s, q, q[1].op.name, 1)) =>
           t.files[f] = IF q[1].op.kind \in FileKinds /\ q[1].op.file = f THEN q[1].n ELSE s.files[f]
  PROVE  Served(n)'
<1>1. UNCHANGED <<worker, dirs, files, unsure, entering>>
  BY DEF Elsewhere
<1>2. /\ \A v \in Worker : (GoneBy(v, n)' <=> GoneBy(v, n)) /\ (LoginGoneBy(v, n)' <=> LoginGoneBy(v, n))
      /\ \A v \in Worker, f \in File : Handles(v, f)' <=> Handles(v, f)
  BY <1>1, SameThread, SameHandler
<1>3. \A f \in File : Delivered(f, n)' => Delivered(f, n)
  BY <1>2 DEF Delivered
<1>4. SUFFICES ASSUME Complete(t, r)
               PROVE  /\ \A name \in dirs : KnownIn(t, r, name, Len(r) + 1)
                      /\ \A v \in Worker : LoginGoneBy(v, n)' =>
                           KnownIn(t, r, worker'[v].op.name, Len(r) + 1)
                      /\ \A j \in DOMAIN r : IsFile(r, j) => KnownIn(t, r, r[j].op.name, j)
                      /\ \A f \in File : f \notin unsure /\ Delivered(f, n)' => HoldsIn(t, r, f, files[f])
  BY <1>1, ServedNext
<1>5. Rest(q, d, r) /\ Chunk(q, d)
  OBVIOUS
<1>6. Complete(s, q)
  BY <1>4, <1>5, CompleteRest
<1>7. /\ \A name \in dirs : KnownIn(s, q, name, Len(q) + 1)
      /\ \A v \in Worker : LoginGoneBy(v, n) => KnownIn(s, q, worker[v].op.name, Len(q) + 1)
      /\ \A j \in DOMAIN q : IsFile(q, j) => KnownIn(s, q, q[j].op.name, j)
      /\ \A f \in File \ unsure : Delivered(f, n) => HoldsIn(s, q, f, files[f])
  BY <1>6 DEF Served
<1>8. /\ Len(r) \in Nat /\ DOMAIN r = 1 .. Len(r) /\ Len(q) + 1 = (Len(r) + 1) + d
      /\ 1 \in DOMAIN q
      /\ \A j \in DOMAIN r : j + d \in DOMAIN q /\ r[j] = q[j + d]
  BY ONLY <1>5, d \in {1, 2}, RestFacts DEF Rest
<1>9. \A name, j : j \in 1 .. Len(r) + 1 /\ KnownIn(s, q, name, j + d) => KnownIn(t, r, name, j)
  <2>1. ASSUME NEW name, NEW j \in 1 .. Len(r) + 1, KnownIn(s, q, name, j + d)
        PROVE  KnownIn(t, r, name, j)
    BY ONLY <1>5, <2>1, d \in {1, 2}, s.dirs \subseteq t.dirs,
            q[1].op.kind = "LOGIN" => q[1].op.name \in t.dirs, KnownRest
  <2> QED
    BY <2>1
<1>10. Len(r) + 1 \in 1 .. Len(r) + 1 /\ \A j \in DOMAIN r : j \in 1 .. Len(r) + 1
  BY <1>8
<1>11. \A name : KnownIn(s, q, name, Len(q) + 1) => KnownIn(t, r, name, Len(r) + 1)
  BY <1>8, <1>9, <1>10
<1>12. ASSUME NEW j \in DOMAIN r, IsFile(r, j)
       PROVE  KnownIn(t, r, r[j].op.name, j)
  <2>1. KnownIn(s, q, q[j + d].op.name, j + d)
    BY <1>7, <1>8, <1>12 DEF IsFile
  <2> QED
    BY <1>8, <1>9, <1>10, <2>1
<1>13. \A f \in File :
         t.files[f] = IF q[1].op.kind \in FileKinds /\ q[1].op.file = f THEN q[1].n ELSE s.files[f]
  BY <1>7, <1>8
<1>14. ASSUME NEW f \in File, f \notin unsure, Delivered(f, n)'
       PROVE  HoldsIn(t, r, f, files[f])
  <2>1. PICK v : v = files[f]
    OBVIOUS
  <2>2. HoldsIn(s, q, f, v)
    BY <1>3, <1>7, <1>14, <2>1
  <2>3. t.files[f] = IF q[1].op.kind \in FileKinds /\ q[1].op.file = f THEN q[1].n ELSE s.files[f]
    BY <1>13
  <2> QED
    BY <1>5, <2>1, <2>2, <2>3, HoldsRest
<1> QED
  BY <1>1, <1>2, <1>7, <1>11, <1>12, <1>14

LEMMA SecondaryServed ==
  ASSUME TypeOK, NEW n \in Server, SecondaryMoves(n), NEW m \in Server, Hearing(m)',
         Hearing(m) => Served(m)
  PROVE  Served(m)'
<1>1. Elsewhere(n)
  BY DEF SecondaryMoves, StopsAs, ReadsAck, ReadsWhole
<1>2. CASE m # n
  <2>1. /\ secondary'[m] = secondary[m] /\ stream'[m] = stream[m]
        /\ UNCHANGED <<worker, dirs, files, unsure, entering>>
    BY <1>1, <1>2 DEF Elsewhere
  <2>2. Served(m)
    BY <2>1 DEF Hearing
  <2> QED
    BY <2>1, <2>2, ServedSame
<1>3. PICK q \in Stream : q = stream[n]
  BY DEF TypeOK
<1>4. PICK s, t, r : s = secondary[n] /\ t = secondary'[n] /\ r = stream'[n] /\ s \in SecondaryState
  BY DEF TypeOK
<1>5. CASE m = n /\ \E state \in Stopped : StopsAs(n, state)
  BY <1>5 DEF StopsAs, Stopped, Hearing
<1>6. CASE m = n /\ ReadsAck(n)
  <2>1. /\ q # <<>> /\ Head(q) = Ack /\ r = Tail(q) /\ Hearing(n)
        /\ t.first = s.first /\ t.dirs = s.dirs /\ t.files = s.files
    BY <1>3, <1>4, <1>6 DEF ReadsAck, Hearing
  <2>2. Rest(q, 1, Tail(q)) /\ q[1] = Ack
    BY <2>1, RestOfOne DEF Stream
  <2>3. Rest(q, 1, r) /\ Chunk(q, 1) /\ q[1].op.kind \notin UserKinds /\ q[1].op.kind \notin FileKinds
    BY <2>1, <2>2, NoneIsNoKind DEF Chunk
  <2>4. q[1].op.kind # "LOGIN"
    BY <2>3 DEF UserKinds
  <2>5. Rest(stream[n], 1, stream'[n]) /\ Chunk(stream[n], 1) /\ Served(n)
    BY <1>3, <1>4, <1>6, <2>1, <2>3
  <2> QED
    BY <1>1, <1>3, <1>4, <1>6, <2>1, <2>3, <2>4, <2>5, ReaderServed
<1>7. CASE m = n /\ ReadsWhole(n)
  <2>1. /\ Len(q) > 1 /\ WholeFrame(q) /\ r = Tail(Tail(q)) /\ Hearing(n)
        /\ Survives(s, t, q[1].op, q[1].n)
    BY <1>3, <1>4, <1>7 DEF ReadsWhole, Hearing
  <2>2. Rest(q, 2, Tail(Tail(q)))
    BY <2>1, RestOfTwo DEF Stream
  <2>3. /\ q[2].op = q[1].op /\ q[2].n = q[1].n /\ q[1].half = 1 /\ q[2].half = 2
        /\ q[1].op \in Op
    BY <2>1, WholeFrameIs
  <2>4. Rest(stream[n], 2, stream'[n]) /\ Chunk(stream[n], 2) /\ Served(n)
    BY <1>3, <1>4, <1>7, <2>1, <2>2, <2>3 DEF Chunk
  <2>5. t.first = IF q[1].op.kind \in UserKinds /\ s.first = 0 THEN q[1].n ELSE s.first
    BY <2>1, LastIs
  <2>6. s.dirs \subseteq t.dirs /\ (q[1].op.kind = "LOGIN" => q[1].op.name \in t.dirs)
    BY <2>1 DEF Survives, LogsIn, LogsOut, Stores, FileKinds
  <2>7. ASSUME NEW f \in File, IsFile(q, 1) => KnownIn(s, q, q[1].op.name, 1)
        PROVE  t.files[f] = IF q[1].op.kind \in FileKinds /\ q[1].op.file = f THEN q[1].n ELSE s.files[f]
    <3>1. CASE q[1].op.kind \in FileKinds
      <4>1. 1 \in DOMAIN q
        BY <2>2 DEF Rest
      <4>2. q[1].op.name \in s.dirs
        BY <2>7, <3>1, <4>1 DEF IsFile, KnownIn
      <4> QED
        BY <2>1, <3>1, <4>2 DEF Survives, Stores, FileKinds
    <3>2. CASE q[1].op.kind \notin FileKinds
      BY <2>1, <3>2 DEF Survives, LogsIn, LogsOut
    <3> QED
      BY <3>1, <3>2
  <2> QED
    BY <1>1, <1>3, <1>4, <1>7, <2>4, <2>5, <2>6, <2>7, ReaderServed
<1> QED
  BY <1>2, <1>5, <1>6, <1>7 DEF SecondaryMoves, Stopped

\* NoFilesYet, before the first session, and after.
NoFiles ==
  /\ unsure = File
  /\ \A n \in Server : \A i \in DOMAIN stream[n] : ~ IsFile(stream[n], i)

LaterSenders == Change > 0 /\ \A w \in Worker : UserSender(w) => Change > 1

LEMMA NoFilesYetIs == NoFilesYet <=> IF dirs = {} THEN NoFiles ELSE LaterSenders
BY DEF NoFilesYet, NoFiles, LaterSenders, UserSender

LEMMA NoFilesYetNext ==
  ASSUME dirs' = {} => NoFiles', dirs' # {} => LaterSenders'
  PROVE  NoFilesYet'
<1>1. (IF dirs = {} THEN NoFiles ELSE LaterSenders)'
  OBVIOUS
<1> QED
  BY <1>1, NoFilesYetIs, PTL

\* A step of a session thread: a file is touched when there is a session, ...
LEMMA WorkerNoFiles ==
  ASSUME TypeOK, Locks, Counted, Slots, Tables, NoFiles, HandlersKnown, dirs = {},
         NEW w \in Worker, WorkerStep(w) \/ \E op \in Workload : Begin(w, op)
  PROVE  NoFiles'
<1>1. \A f \in File : ~ Handles(w, f)
  BY DEF HandlersKnown
<1>2. CASE Proceeds(w)
  <2>1. UNCHANGED <<stream, unsure>>
    BY <1>2 DEF Proceeds
  <2> QED
    BY <2>1 DEF NoFiles
<1>3. CASE SendHalf(w)
  <2>1. /\ worker[w].pc = "send" /\ worker[w].op \in Workload /\ unsure' = unsure
        /\ \A n \in Server :
             \/ stream'[n] = stream[n]
             \/ \E e \in Unit : e.op = worker[w].op /\ Added(stream[n], e, stream'[n])
    BY <1>3, SendEffect
  <2>2. worker[w].op.kind \notin FileKinds
    BY <1>1, <2>1, KindsAre DEF Handles, Busy
  <2>3. ASSUME NEW n \in Server
        PROVE  \A i \in DOMAIN stream'[n] : ~ IsFile(stream'[n], i)
    <3>1. CASE stream'[n] = stream[n]
      BY <3>1 DEF NoFiles
    <3>2. ASSUME NEW e \in Unit, e.op = worker[w].op, Added(stream[n], e, stream'[n])
          PROVE  \A i \in DOMAIN stream'[n] : ~ IsFile(stream'[n], i)
      <4>1. PICK q, r : q = stream[n] /\ r = stream'[n]
        OBVIOUS
      <4>2. Added(q, e, r) /\ \A i \in DOMAIN q : ~ IsFile(q, i)
        BY <3>2, <4>1 DEF NoFiles
      <4>3. \A i \in DOMAIN r : ~ IsFile(r, i)
        BY <2>2, <3>2, <4>2 DEF Added, IsFile
      <4> QED
        BY <4>1, <4>3
    <3> QED
      BY <2>1, <3>1, <3>2
  <2> QED
    BY <2>1, <2>3 DEF NoFiles
<1>4. ASSUME NEW op \in Workload, Begin(w, op)
      PROVE  NoFiles'
  <2>1. stream' = stream /\ dirs = {} /\ unsure \subseteq File
    BY <1>4, BeginEffect DEF TypeOK
  <2>2. op.file = NoFile
    BY <1>4, <2>1, KindsAre DEF Begin, FileKinds
  <2>3. unsure' = unsure \cup ({op.file} \ {NoFile}) \/ unsure' = unsure \ {op.file}
    BY <1>4 DEF Begin
  <2>4. unsure' = unsure
    BY <2>1, <2>2, <2>3, ReplicationAssumption
  <2> QED
    BY <2>1, <2>4 DEF NoFiles
<1> QED
  BY <1>2, <1>3, <1>4, StepsProceed

\* ... and there is a directory when the first change has been sent to all.
LEMMA WorkerLater ==
  ASSUME TypeOK, Locks, Counted, Slots, Changes, Tables, dirs # {} => LaterSenders,
         NEW w \in Worker, WorkerStep(w) \/ \E op \in Workload : Begin(w, op), dirs' # {}
  PROVE  LaterSenders'
<1>1. CASE ChangesTable(w)
  <2>1. dirs # {} /\ past' = Append(past, View(users')) /\ past \in Seq(SUBSET (UserName \X DeviceId))
    BY <1>1 DEF ChangesTable, TypeOK
  <2>2. PICK p, v : p = past /\ v = View(users') /\ past' = Append(p, v)
    BY <2>1
  <2>3. Len(past') = Len(past) + 1 /\ Len(past) \in Nat
    BY <2>1, LenProperties
  <2>4. Change > 0 /\ Len(past) - 1 > 0
    BY <2>1 DEF LaterSenders, Change
  <2> QED
    BY <2>3, <2>4 DEF LaterSenders, Change
<1>2. CASE Finish(w)
  <2>1. /\ worker[w].pc = "slots" /\ past' = past
        /\ dirs' = dirs \cup {o \in UserName : worker[w].op.kind = "LOGIN" /\ o = worker[w].op.name}
    BY <1>2 DEF Finish, tableVars
  <2>2. worker'[w].pc = "idle" /\ \A v \in Worker \ {w} : worker'[v] = worker[v]
    BY <1>2, FinishIs DEF Turns, TypeOK
  <2>3. \A v \in Worker : UserSender(v)' => UserSender(v) /\ v # w
    BY <2>2 DEF UserSender, Sending
  <2>4. CASE dirs # {}
    BY <2>1, <2>3, <2>4 DEF LaterSenders, Change
  <2>5. CASE dirs = {}
    <3>1. UserSender(w)
      BY <2>1, <2>5 DEF UserSender, Sending, UserKinds
    <3>2. Change \in Nat /\ Change > 0
      BY <3>1, ChangesAre DEF IsChange, Change
    <3>3. \A v \in Worker : ~ UserSender(v)'
      BY <2>3, <3>1, OneUserSender
    <3> QED
      BY <2>1, <3>2, <3>3 DEF LaterSenders, Change
  <2> QED
    BY <2>4, <2>5
<1>3. CASE ~ ChangesTable(w) /\ ~ Finish(w)
  <2>1. VisitSlot(w) \/ SendHalf(w) \/ Leaves(w)
    BY <1>3, Movements
  <2>2. past' = past /\ \A v \in Worker : UserSender(v)' => UserSender(v)
    <3>1. CASE VisitSlot(w)
      <4>1. /\ past' = past /\ worker[w].pc = "slots" /\ worker'[w].op = worker[w].op
            /\ \A v \in Worker \ {w} : worker'[v] = worker[v]
        BY <3>1, VisitSlotIs DEF VisitSlot, tableVars, Turns, TypeOK
      <4> QED
        BY <4>1 DEF UserSender, Sending
    <3>2. CASE SendHalf(w)
      BY <3>2, SendEffect DEF UserSender, Sending
    <3>3. CASE Leaves(w)
      BY <3>3 DEF Leaves, UserSender, Sending
    <3> QED
      BY <2>1, <3>1, <3>2, <3>3
  <2>3. dirs' = dirs
    <3>1. ASSUME NEW op \in Workload, Begin(w, op)
          PROVE  dirs' = dirs
      BY <3>1 DEF Begin
    <3>2. CASE WorkerStep(w)
      BY <1>3, <3>2 DEF WorkerStep, Login, Refuse, Exit, Crash, WriteFile, Notify, LockServers,
         VisitSlot, SendHalf, fileVars
    <3> QED
      BY <3>1, <3>2
  <2> QED
    BY <2>2, <2>3 DEF LaterSenders, Change
<1> QED
  BY <1>1, <1>2, <1>3

\* No other step brings a file.
LEMMA OthersNoFiles ==
  ASSUME TypeOK, Slots, Tables, NoFiles, NEW n \in Server,
         Connect(n) \/ EnterStep(n) \/ SecondaryMoves(n)
  PROVE  NoFiles'
<1>1. CASE Connect(n)
  <2>1. UNCHANGED <<unsure, stream>>
    BY <1>1 DEF Connect, fileVars
  <2> QED
    BY <2>1 DEF NoFiles
<1>2. CASE EnterStep(n)
  <2>1. UNCHANGED <<unsure, secondary>>
    BY <1>2 DEF EnterStep, FindSlot, InsertId, InsertSocket, InsertFails, Acknowledge, fileVars
  <2>2. CASE stream' = stream
    BY <2>1, <2>2 DEF NoFiles
  <2>3. CASE stream' # stream
    <3>1. Write(n, Ack)
      BY <1>2, <2>3 DEF EnterStep, FindSlot, InsertId, InsertSocket, InsertFails, Acknowledge
    <3>2. \A m \in Server \ {n} : stream'[m] = stream[m]
      BY <3>1, WriteIs
    <3>3. \A i \in DOMAIN stream'[n] : ~ IsFile(stream'[n], i)
      <4>1. PICK q \in Stream : q = stream[n]
        BY DEF TypeOK
      <4>2. stream'[n] = q \/ stream'[n] = Append(q, Ack)
        BY <3>1, <4>1, WriteIs
      <4>3. \A i \in DOMAIN q : ~ IsFile(q, i)
        BY <4>1 DEF NoFiles
      <4>4. Added(q, Ack, Append(q, Ack)) /\ Ack.op.kind \notin FileKinds
        BY AddedIs, NoneIsNoKind
      <4>5. \A i \in DOMAIN Append(q, Ack) : ~ IsFile(Append(q, Ack), i)
        BY <4>3, <4>4 DEF Added, IsFile
      <4> QED
        BY <4>2, <4>3, <4>5
    <3> QED
      BY <2>1, <3>2, <3>3 DEF NoFiles
  <2> QED
    BY <2>2, <2>3
<1>3. CASE SecondaryMoves(n)
  <2>1. Elsewhere(n)
    BY <1>3 DEF SecondaryMoves, StopsAs, ReadsAck, ReadsWhole
  <2>2. PICK q \in Stream : q = stream[n]
    BY DEF TypeOK
  <2>3. \A i \in DOMAIN q : ~ IsFile(q, i)
    BY <2>2 DEF NoFiles
  <2>4. ASSUME NEW d \in {1, 2}, Rest(q, d, stream'[n])
        PROVE  \A i \in DOMAIN stream'[n] : ~ IsFile(stream'[n], i)
    <3>1. PICK r : r = stream'[n]
      OBVIOUS
    <3>2. Rest(q, d, r)
      BY <2>4, <3>1
    <3>3. \A i \in DOMAIN r : i + d \in DOMAIN q /\ r[i] = q[i + d]
      BY ONLY d \in {1, 2}, <3>2, RestFacts
    <3> QED
      BY <2>3, <3>1, <3>3 DEF IsFile
  <2>5. \A i \in DOMAIN stream'[n] : ~ IsFile(stream'[n], i)
    <3>1. CASE \E state \in Stopped : StopsAs(n, state)
      BY <3>1 DEF StopsAs
    <3>2. CASE ReadsAck(n)
      BY <2>2, <2>4, <3>2, RestOfOne DEF ReadsAck, Stream
    <3>3. CASE ReadsWhole(n)
      <4>1. Len(q) > 1 /\ stream'[n] = Tail(Tail(q))
        BY <2>2, <3>3 DEF ReadsWhole
      <4>2. Rest(q, 2, stream'[n])
        BY <4>1, RestOfTwo DEF Stream
      <4> QED
        BY <2>4, <4>2
    <3> QED
      BY <1>3, <3>1, <3>2, <3>3 DEF SecondaryMoves, Stopped
  <2> QED
    BY <2>1, <2>5 DEF NoFiles, Elsewhere
<1> QED
  BY <1>1, <1>2, <1>3

\* ... or moves a session thread.
LEMMA OthersCopies ==
  ASSUME Copies, UNCHANGED <<worker, dirs, files, unsure, past>>,
         NoFiles => NoFiles', \A m \in Server : Hearing(m)' => Served(m)'
  PROVE  Copies'
<1>1. /\ NoFilesYet /\ HandlersKnown /\ \A f \in File \ unsure : Alone(f)
  BY CopiesAre
<1>2. \A v \in Worker, f \in File : Handles(v, f)' <=> Handles(v, f)
  BY SameHandler
<1>3. HandlersKnown'
  BY <1>1, <1>2 DEF HandlersKnown
<1>4. \A f \in File : f \notin unsure' => Alone(f)'
  BY <1>1, <1>2 DEF Alone
<1>5. LaterSenders => LaterSenders'
  BY DEF LaterSenders, UserSender, Sending, Change
<1>6. NoFilesYet'
  BY <1>1, <1>5, NoFilesYetIs, NoFilesYetNext
<1> QED
  BY <1>3, <1>4, <1>6, CopiesAreNext

LEMMA WorkerCopies ==
  ASSUME TypeOK, Locks, Counted, Slots, Frames, Changes, Tables, Copies,
         NEW w \in Worker, WorkerStep(w) \/ \E op \in Workload : Begin(w, op)
  PROVE  Copies'
<1>1. /\ NoFilesYet /\ HandlersKnown /\ \A f \in File \ unsure : Alone(f)
      /\ \A n \in Server : Hearing(n) => Served(n)
  BY CopiesAre
<1>2. dirs \subseteq dirs' /\ secondary' = secondary
  BY StepsProceed, SendEffect, BeginEffect DEF Proceeds
<1>3. NoFilesYet'
  BY <1>1, <1>2, WorkerNoFiles, WorkerLater, NoFilesYetIs, NoFilesYetNext
<1>4. HandlersKnown' /\ \A f \in File : f \notin unsure' => Alone(f)'
  BY <1>1, StepsProceed, ProceedsHandlers, SendHandlers, BeginHandlers
<1>5. ASSUME NEW n \in Server, Hearing(n)'
      PROVE  Served(n)'
  <2>1. Hearing(n) /\ Served(n)
    BY <1>1, <1>2, <1>5 DEF Hearing
  <2> QED
    BY <1>1, <2>1, StepsProceed, ProceedsServed, SendServed, BeginServed
<1> QED
  BY <1>3, <1>4, <1>5, CopiesAreNext

LEMMA CopiesKept ==
  ASSUME TypeOK, Locks, Counted, Slots, Frames, Changes, Tables, Copies, [Next]_vars
  PROVE  Copies'
<1>1. CASE PrimaryStep
  <2>1. ASSUME NEW n \in Server, Connect(n) \/ EnterStep(n)
        PROVE  Copies'
    <3>1. UNCHANGED <<worker, dirs, files, unsure, past>>
      BY <2>1 DEF Connect, EnterStep, FindSlot, InsertId, InsertSocket, InsertFails, Acknowledge,
         fileVars, tableVars
    <3>2. \A m \in Server : Hearing(m)' => Served(m)'
      BY <2>1, CopiesAre, EnterServed
    <3> QED
      BY <2>1, <3>1, <3>2, OthersNoFiles, OthersCopies
  <2> QED
    BY <1>1, <2>1, WorkerCopies DEF PrimaryStep
<1>2. ASSUME NEW n \in Server, SecondaryStep(n) \/ KillSecondary(n)
      PROVE  Copies'
  <2>1. SecondaryMoves(n)
    BY <1>2, SecondaryMovesIs
  <2>2. UNCHANGED <<worker, dirs, files, unsure, past>>
    BY <2>1 DEF SecondaryMoves, StopsAs, ReadsAck, ReadsWhole, Elsewhere
  <2>3. \A m \in Server : Hearing(m)' => Served(m)'
    BY <2>1, CopiesAre, SecondaryServed
  <2> QED
    BY <2>1, <2>2, <2>3, OthersNoFiles, OthersCopies
<1>3. CASE KillPrimary \/ UNCHANGED vars
  <2>1. UNCHANGED <<worker, dirs, files, unsure, past, secondary, stream, entering>>
    BY <1>3 DEF KillPrimary, vars, tableVars, fileVars, remoteVars
  <2>2. \A m \in Server : Hearing(m)' => Served(m)'
    BY <2>1, CopiesAre, ServedSame DEF Hearing
  <2>3. NoFiles => NoFiles'
    BY <2>1 DEF NoFiles
  <2> QED
    BY <2>1, <2>2, <2>3, OthersCopies
<1> QED
  BY <1>1, <1>2, <1>3 DEF Next

-----------------------------------------------------------------------------
(* The theorems *)

\* The stream and the history that all begin with.
LEMMA FirstSequences ==
  /\ <<>> \in Stream /\ DOMAIN (<<>>) = {}
  /\ <<{}>> \in Seq(SUBSET (UserName \X DeviceId))
  /\ Len(<<{}>>) = 1 /\ DOMAIN <<{}>> = {1} /\ <<{}>>[1] = {} /\ <<{}>> # <<>>
BY DEF Stream

LEMMA InitTypes ==
  ASSUME Init
  PROVE  TypeOK
<1>1. 0 \in 0 .. MaxOps /\ 0 \in 0 .. MaxKills /\ 0 \in 0 .. MaxServers
  BY ReplicationAssumption
<1>7. Ours \in Content /\ Theirs \in Content
  BY ReplicationAssumption DEF Ours, Theirs, Content
<1>2. backupServers \in [Slot -> [id : Server \cup {NoServer}, socket : Server \cup {NoServer}]]
  BY DEF Init
<1>3. worker \in [Worker -> WorkerState]
  BY IdleIs DEF Init
<1>4. entering \in [Server -> EnteringState]
  BY <1>1 DEF Init, EnteringState
<1>5. secondary \in [Server -> SecondaryState]
  <2>1. Off \subseteq SecondaryState
    BY <1>1, <1>7, EmptyTableWellFormed, ReplicationAssumption DEF Off, SecondaryState
  <2> QED
    BY <2>1 DEF Init
<1>6. stream \in [Server -> Stream] /\ past \in Seq(SUBSET (UserName \X DeviceId))
  BY FirstSequences DEF Init
<1> QED
  BY <1>1, <1>2, <1>3, <1>4, <1>5, <1>6, <1>7, EmptyTableWellFormed DEF Init, TypeOK

LEMMA InitInvariant ==
  ASSUME Init
  PROVE  Invariant
<1>1. TypeOK
  BY InitTypes
<1>2. /\ \A w \in Worker : /\ worker[w] = Idle /\ worker[w].pc = "idle" /\ ~ Sending(w) /\ ~ Busy(w)
                           /\ worker[w].op.kind = "none"
      /\ \A n \in Server : /\ entering[n].pc = "none" /\ entering[n].slot = 0 /\ stream[n] = <<>>
                           /\ secondary[n] \in Off /\ secondary[n].state = "off"
                           /\ ~ Hearing(n)
      /\ \A s \in Slot : backupServers[s] = [id |-> NoServer, socket |-> NoServer]
  BY IdleIs DEF Init, Sending, Busy, Idle, NoOp, Off, Hearing
<1>3. Locks
  BY <1>2 DEF Locks
<1>4. Counted
  <2>1. {w \in Worker : worker[w].pc = "user_wait"} = {}
    BY <1>2
  <2>2. Cardinality({w \in Worker : worker[w].pc = "user_wait"}) = 0
    BY <2>1, FS_EmptySet
  <2> QED
    BY <2>2, FirstSequences DEF Init, Counted
<1>5. Slots
  BY <1>2 DEF Slots, UnlistedOnlyWhenFull
<1>6. Frames
  <2>1. ASSUME NEW n \in Server
        PROVE  FramesOf(n)
    <3>1. stream[n] = <<>> /\ ~ Hearing(n) /\ \A w \in Worker : ~ Halfway(w, n)
      BY <1>2 DEF Halfway
    <3>2. \A i \in DOMAIN stream[n] : FALSE
      BY <3>1, FirstSequences
    <3> QED
      BY <3>1, <3>2 DEF FramesOf, Framed, Unbroken
  <2> QED
    BY <2>1, FramesAre
<1>7. Changes
  BY <1>2 DEF Changes
<1>8. Tables
  <2>1. Fits({})
    <3>1. {x[1] : x \in {}} = {} /\ \A name : {x \in {} : x[1] = name} = {}
      OBVIOUS
    <3>2. IsFiniteSet({}) /\ Cardinality({}) = 0
      BY FS_EmptySet
    <3> QED
      BY <3>1, <3>2, UserTableAssumption DEF Fits
  <2>2. past = <<{}>> /\ users = EmptyTable
    BY DEF Init
  <2>3. past # <<>> /\ past[1] = {} /\ past[Len(past)] = {} /\ DOMAIN past = {1}
    BY <2>2, FirstSequences
  <2>4. WellFormed(users) /\ View(users) = {}
    BY <2>2, EmptyTableWellFormed, ViewOfEmptyTable
  <2> QED
    BY <1>2, <2>1, <2>3, <2>4 DEF Tables
<1>9. SecondaryHasRoom
  BY <1>2 DEF SecondaryHasRoom
<1>10. Copies
  <2>1. NoFiles
    <3>1. \A n \in Server : stream[n] = <<>>
      BY <1>2
    <3>2. \A n \in Server : \A i \in DOMAIN stream[n] : FALSE
      BY <3>1, FirstSequences
    <3> QED
      BY <3>1, <3>2 DEF NoFiles, Init
  <2>2. NoFilesYet
    BY <2>1, NoFilesYetIs DEF Init
  <2>3. \A w \in Worker : \A f : ~ Handles(w, f)
    BY <1>2 DEF Handles
  <2> QED
    BY <1>2, <2>2, <2>3, CopiesAre DEF HandlersKnown, Alone
<1> QED
  BY <1>1, <1>3, <1>4, <1>5, <1>6, <1>7, <1>8, <1>9, <1>10 DEF Invariant

\* A step keeps it: each part from itself and the others.
LEMMA InvariantKept ==
  ASSUME Invariant, [Next]_vars
  PROVE  Invariant'
<1>1. /\ TypeOK /\ Locks /\ Counted /\ Slots /\ Frames /\ Changes /\ Tables /\ SecondaryHasRoom
      /\ Copies
  BY DEF Invariant
<1>2. TypeOK' /\ Locks' /\ Counted' /\ Slots' /\ Frames'
  BY <1>1, TypesKept, LocksKept, CountedKept, SlotsKept, FramesKept
<1>3. Changes' /\ Tables' /\ SecondaryHasRoom' /\ Copies'
  BY <1>1, ChangesKept, TablesKept, RoomKept, CopiesKept
<1> QED
  BY <1>2, <1>3 DEF Invariant

\* What the properties rest on holds for any number of session threads, secondaries,
\* slots, users and operations: the semaphores, the slots of backupServers, whole
\* frames, changes in their order, tables and files (Server.cpp:48-297, 440-454).
THEOREM InvariantHolds == Spec => []Invariant
BY InitInvariant, InvariantKept, PTL DEF Spec

\* Every variable keeps its type: the number of a frame is that of an operation, the
\* slots are those of backupServers, and a login's table is a table (Server.cpp:808-884).
THEOREM TypesCorrect == Spec => []TypeOK
<1>1. Invariant => TypeOK
  BY DEF Invariant
<1> QED
  BY <1>1, InvariantHolds, PTL

\* A secondary keeps the slot insert_server gave it (Server.cpp:440-454), and one
\* that is acknowledged without a slot met a full array.
THEOREM UnlistedOnlyWhenFullHolds == Spec => []UnlistedOnlyWhenFull
<1>1. Invariant => UnlistedOnlyWhenFull
  BY DEF Invariant, Slots
<1> QED
  BY <1>1, InvariantHolds, PTL

\* Frames sent under the same semaphore arrive in one piece each, however the writes
\* of the threads interleave and secondaries register (Server.cpp:571-592, 838-894,
\* 951-964, 1037-1048, 1115-1124).
THEOREM OneLockNeverMixesHolds == Spec => []OneLockNeverMixes
<1>1. Invariant => OneLockNeverMixes
  BY DEF Invariant, Frames, OneLockNeverMixes
<1> QED
  BY <1>1, InvariantHolds, PTL

\* What fits into the primary's table fits into that of a secondary: insert_socket
\* finds the device (Server.cpp:247-261).
THEOREM SecondaryHasRoomHolds == Spec => []SecondaryHasRoom
<1>1. Invariant => SecondaryHasRoom
  BY DEF Invariant
<1> QED
  BY <1>1, InvariantHolds, PTL

\* The table of a secondary that serves is part of the primary's after the same
\* change, and all of it if it heard of the first one (Server.cpp:247-281).
THEOREM FollowsPrimaryHolds == Spec => []FollowsPrimary
<1>1. Invariant => FollowsPrimary
  <2> SUFFICES ASSUME Invariant, NEW n \in Server, Serving(n)
               PROVE  /\ View(secondary[n].users) \subseteq past[secondary[n].last + 1]
                      /\ secondary[n].first = 1 => View(secondary[n].users) = past[secondary[n].last + 1]
    BY DEF FollowsPrimary
  <2>1. Hearing(n) /\ Tables
    BY DEF Serving, Hearing, Invariant
  <2> QED
    BY <2>1, TablesAre DEF Knows
<1> QED
  BY <1>1, InvariantHolds, PTL

\* A secondary that has carried out one change carries out the next one next
\* (Server.cpp:838, 857, 884, 1115), whatever else is read or happens to it.
THEOREM ChangesInOrderHolds == Spec => ChangesInOrder
<1> DEFINE NextOne(n) == LET last == secondary[n].last IN
                         last # 0 => secondary'[n].last \in {last, last + 1}
<1>1. ASSUME Invariant, [Next]_vars, NEW n \in Server
      PROVE  NextOne(n)
  <2>1. TypeOK /\ Changes /\ Tables
    BY <1>1 DEF Invariant
  <2>2. CASE secondary'[n].last = secondary[n].last
    BY <2>2
  <2>3. CASE SecondaryMoves(n)
    <3>1. CASE ReadsWhole(n)
      <4>1. PICK q \in Stream : q = stream[n]
        BY <2>1 DEF TypeOK
      <4>2. /\ Len(q) > 1 /\ Hearing(n)
            /\ Survives(secondary[n], secondary'[n], q[1].op, q[1].n)
        BY <3>1, <4>1 DEF ReadsWhole, Hearing
      <4>3. secondary'[n].last = IF q[1].op.kind \in UserKinds THEN q[1].n ELSE secondary[n].last
        BY <4>2, LastIs
      <4>4. PICK i \in DOMAIN stream[n] : i = 1
        BY <4>1, <4>2, RestOfTwo DEF Stream
      <4>5. InOrder(n) /\ Knows(secondary[n], past) /\ past[1] = {}
        BY <2>1, <4>2, ChangesAre, TablesAre
      <4>6. q[1].op.kind \in UserKinds /\ secondary[n].last # 0 => q[1].n = secondary[n].last + 1
        BY <2>1, <4>1, <4>2, <4>4, <4>5, KnownBeforeChange DEF IsUser
      <4> QED
        BY <4>3, <4>6
    <3>2. CASE ~ ReadsWhole(n)
      BY <2>2, <2>3, <3>2 DEF SecondaryMoves, StopsAs, ReadsAck
    <3> QED
      BY <3>1, <3>2
  <2>4. CASE ~ SecondaryMoves(n) /\ secondary'[n].last # secondary[n].last
    <3>1. ASSUME NEW m \in Server, SecondaryMoves(m)
          PROVE  FALSE
      <4>1. m # n
        BY <2>4, <3>1
      <4> QED
        BY <2>4, <3>1, <4>1 DEF SecondaryMoves, StopsAs, ReadsAck, ReadsWhole, Elsewhere
    <3>2. ASSUME NEW m \in Server, Connect(m)
          PROVE  FALSE
      BY <2>1, <2>4, <3>2 DEF Connect, TypeOK, SecondaryState
    <3>3. secondary' # secondary
      BY <2>4
    <3> QED
      BY <1>1, <2>1, <3>1, <3>2, <3>3, SecondaryMovesIs, SecondarySteps
  <2> QED
    BY <2>2, <2>3, <2>4
<1>2. Invariant /\ [Next]_vars => [\A n \in Server : NextOne(n)]_vars
  BY <1>1
<1> HIDE DEF NextOne
<1>3. Spec => [][\A n \in Server : NextOne(n)]_vars
  BY <1>2, InvariantHolds, PTL DEF Spec
<1> QED
  BY <1>3 DEF ChangesInOrder, NextOne

\* When all is quiet, a secondary that heard of all changes has each file as the
\* primary has it (Server.cpp:220-245, 926-964, 1021-1048), unless the last
\* operations on the file overlapped.
THEOREM FilesMirroredHolds == Spec => []FilesMirrored
<1>1. Invariant => FilesMirrored
  <2> SUFFICES ASSUME Invariant, NEW n \in Server, Settled(n), secondary[n].first = 1,
                      NEW f \in File \ unsure
               PROVE  secondary[n].files[f] = files[f]
    BY DEF FilesMirrored
  <2>1. Hearing(n) /\ Complete(secondary[n], stream[n]) /\ stream[n] = <<>>
    BY DEF Settled, Serving, Hearing, Complete
  <2>2. \A w \in Worker : ~ Handles(w, f)
    BY DEF Settled, Handles, Busy
  <2>3. HoldsIn(secondary[n], stream[n], f, files[f])
    BY <2>1, <2>2, CopiesAre DEF Invariant, Served, Delivered
  <2>4. \A i \in DOMAIN stream[n] : ~ IsWrite(stream[n], f, i)
    BY <2>1, FirstSequences
  <2> QED
    BY <2>3, <2>4 DEF HoldsIn
<1> QED
  BY <1>1, InvariantHolds, PTL
=============================================================================
