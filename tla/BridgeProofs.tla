---------------------------- MODULE BridgeProofs ----------------------------
(***************************************************************************)
(* Proofs about the bridge, for any sets of streams and UUIDs, any labels, *)
(* claims, targets, queue size and bounds.  First the offline queues:      *)
(* messages for one target leave in the order they were sent, each at most *)
(* once.  Then the peer registry, whose lemmas are about the pure          *)
(* operators of PeerRegistry; the theorems cite them, one per handler.     *)
(***************************************************************************)
EXTENDS Bridge, FiniteSetTheorems, SequenceTheorems, TLAPS

-----------------------------------------------------------------------------
(* Increasing sequences of numbers, and the parts they are made of. *)

Increasing(s) == \A i, j \in 1..Len(s) : i < j => s[i] < s[j]

Before(s, t) == \A i \in 1..Len(s), j \in 1..Len(t) : s[i] < t[j]

\* z is the part of s that follows its first k elements, or begins it.
Part(z, s, k) ==
  /\ z \in Seq(Nat) /\ s \in Seq(Nat)
  /\ k \in Nat /\ k + Len(z) <= Len(s)
  /\ \A i \in 1..Len(z) : z[i] = s[k + i]

LEMMA PartIndex ==
  ASSUME NEW z, NEW s, NEW k, Part(z, s, k), NEW i \in 1..Len(z)
  PROVE  k + i \in 1..Len(s) /\ z[i] = s[k + i] /\ k + i \in Nat
  BY LenProperties DEF Part

LEMMA PartIncreasing ==
  ASSUME NEW z, NEW s, NEW k, Part(z, s, k), Increasing(s)
  PROVE  Increasing(z)
<1> SUFFICES ASSUME NEW i \in 1..Len(z), NEW j \in 1..Len(z), i < j PROVE z[i] < z[j]
  BY DEF Increasing
<1>1. /\ k + i \in 1..Len(s) /\ z[i] = s[k + i]
      /\ k + j \in 1..Len(s) /\ z[j] = s[k + j]
  BY PartIndex
<1>2. k + i < k + j
  BY LenProperties DEF Part
<1>3. s[k + i] < s[k + j]
  BY <1>1, <1>2 DEF Increasing
<1> QED
  BY <1>1, <1>3

LEMMA PartBefore ==
  ASSUME NEW z, NEW s, NEW k, Part(z, s, k), NEW t, Before(s, t)
  PROVE  Before(z, t)
<1> SUFFICES ASSUME NEW i \in 1..Len(z), NEW j \in 1..Len(t) PROVE z[i] < t[j]
  BY DEF Before
<1>1. k + i \in 1..Len(s) /\ z[i] = s[k + i]
  BY PartIndex
<1>2. s[k + i] < t[j]
  BY <1>1 DEF Before
<1> QED
  BY <1>1, <1>2

LEMMA BeforePart ==
  ASSUME NEW z, NEW s, NEW k, Part(z, s, k), NEW t, Before(t, s)
  PROVE  Before(t, z)
<1> SUFFICES ASSUME NEW i \in 1..Len(t), NEW j \in 1..Len(z) PROVE t[i] < z[j]
  BY DEF Before
<1>1. k + j \in 1..Len(s) /\ z[j] = s[k + j]
  BY PartIndex
<1>2. t[i] < s[k + j]
  BY <1>1 DEF Before
<1> QED
  BY <1>1, <1>2

LEMMA ConcatIndex ==
  ASSUME NEW s \in Seq(Nat), NEW t \in Seq(Nat), NEW i \in 1..Len(s \o t)
  PROVE  \/ i \in 1..Len(s) /\ (s \o t)[i] = s[i]
         \/ /\ i - Len(s) \in 1..Len(t) /\ (s \o t)[i] = t[i - Len(s)]
            /\ i \notin 1..Len(s)
<1>1. Len(s) \in Nat /\ Len(t) \in Nat /\ Len(s \o t) = Len(s) + Len(t)
  BY LenProperties, ConcatProperties
<1>2. (s \o t)[i] = IF i <= Len(s) THEN s[i] ELSE t[i - Len(s)]
  BY <1>1, ConcatProperties
<1> QED
  BY <1>1, <1>2

LEMMA ConcatIncreasing ==
  ASSUME NEW s \in Seq(Nat), NEW t \in Seq(Nat), Increasing(s), Increasing(t), Before(s, t)
  PROVE  Increasing(s \o t)
<1> DEFINE x == s \o t
<1> SUFFICES ASSUME NEW i \in 1..Len(x), NEW j \in 1..Len(x), i < j PROVE x[i] < x[j]
  BY DEF Increasing
<1>1. Len(s) \in Nat /\ Len(t) \in Nat /\ Len(x) \in Nat
  BY LenProperties, ConcatProperties
<1>2. CASE i \in 1..Len(s) /\ x[i] = s[i] /\ j \in 1..Len(s) /\ x[j] = s[j]
  BY <1>2 DEF Increasing
<1>3. CASE i \in 1..Len(s) /\ x[i] = s[i] /\ j - Len(s) \in 1..Len(t) /\ x[j] = t[j - Len(s)]
  BY <1>3 DEF Before
<1>4. CASE /\ i - Len(s) \in 1..Len(t) /\ x[i] = t[i - Len(s)]
           /\ j - Len(s) \in 1..Len(t) /\ x[j] = t[j - Len(s)]
  <2>1. i - Len(s) < j - Len(s)
    BY <1>1
  <2>2. t[i - Len(s)] < t[j - Len(s)]
    BY <1>4, <2>1 DEF Increasing
  <2> QED
    BY <1>4, <2>2
<1>5. ~(i \notin 1..Len(s) /\ j \in 1..Len(s))
  BY <1>1
<1> HIDE DEF x
<1>6. \/ i \in 1..Len(s) /\ x[i] = s[i]
      \/ i - Len(s) \in 1..Len(t) /\ x[i] = t[i - Len(s)] /\ i \notin 1..Len(s)
  BY ConcatIndex DEF x
<1>7. \/ j \in 1..Len(s) /\ x[j] = s[j]
      \/ j - Len(s) \in 1..Len(t) /\ x[j] = t[j - Len(s)] /\ j \notin 1..Len(s)
  BY ConcatIndex DEF x
<1> QED
  BY <1>2, <1>3, <1>4, <1>5, <1>6, <1>7, Zenon

LEMMA ConcatBefore ==
  ASSUME NEW s \in Seq(Nat), NEW t \in Seq(Nat), NEW x, Before(s, x), Before(t, x)
  PROVE  Before(s \o t, x)
<1> SUFFICES ASSUME NEW i \in 1..Len(s \o t), NEW j \in 1..Len(x) PROVE (s \o t)[i] < x[j]
  BY DEF Before
<1>1. CASE i \in 1..Len(s) /\ (s \o t)[i] = s[i]
  BY <1>1 DEF Before
<1>2. CASE i - Len(s) \in 1..Len(t) /\ (s \o t)[i] = t[i - Len(s)]
  BY <1>2 DEF Before
<1> QED
  BY <1>1, <1>2, ConcatIndex

LEMMA BeforeConcat ==
  ASSUME NEW s \in Seq(Nat), NEW t \in Seq(Nat), NEW x, Before(x, s), Before(x, t)
  PROVE  Before(x, s \o t)
<1> SUFFICES ASSUME NEW i \in 1..Len(x), NEW j \in 1..Len(s \o t) PROVE x[i] < (s \o t)[j]
  BY DEF Before
<1>1. CASE j \in 1..Len(s) /\ (s \o t)[j] = s[j]
  BY <1>1 DEF Before
<1>2. CASE j - Len(s) \in 1..Len(t) /\ (s \o t)[j] = t[j - Len(s)]
  BY <1>2 DEF Before
<1> QED
  BY <1>1, <1>2, ConcatIndex

-----------------------------------------------------------------------------
(* The queue operations, on the messages w the transport took for a target *)
(* and the messages q that wait for it, when m is the next one to be sent.  *)

Ordered(w, q, m) ==
  /\ w \in Seq(Nat) /\ q \in Seq(Nat)
  /\ Increasing(w) /\ Increasing(q) /\ Before(w, q)
  /\ Before(w, <<m>>) /\ Before(q, <<m>>)

LEMMA Prefix ==
  ASSUME NEW q \in Seq(Nat), NEW k \in 0..Len(q)
  PROVE  Part(SubSeq(q, 1, k), q, 0)
<1>1. Len(q) \in Nat /\ \A i \in 1..k : q[i] \in Nat
  BY ElementOfSeq, LenProperties
<1>2. /\ SubSeq(q, 1, k) \in Seq(Nat) /\ Len(SubSeq(q, 1, k)) = k
      /\ \A i \in 1..k : SubSeq(q, 1, k)[i] = q[i]
  BY <1>1, SubSeqProperties, Z3
<1> QED
  BY <1>1, <1>2 DEF Part

LEMMA Suffix ==
  ASSUME NEW q \in Seq(Nat), NEW k \in 0..Len(q)
  PROVE  Part(Unsent(q, k), q, k) /\ Len(Unsent(q, k)) = Len(q) - k
<1>1. Len(q) \in Nat /\ \A i \in (k + 1)..Len(q) : q[i] \in Nat
  BY ElementOfSeq, LenProperties
<1>2. /\ Unsent(q, k) \in Seq(Nat) /\ Len(Unsent(q, k)) = Len(q) - k
      /\ \A i \in 1..(Len(q) - k) : Unsent(q, k)[i] = q[k + i]
  BY <1>1, SubSeqProperties, Z3 DEF Unsent
<1> QED
  BY <1>1, <1>2 DEF Part

\* A flush moves the head of the queue behind what the transport has.
LEMMA FlushOrdered ==
  ASSUME NEW w, NEW q, NEW m, Ordered(w, q, m), NEW k \in 0..Len(q)
  PROVE  Ordered(w \o SubSeq(q, 1, k), Unsent(q, k), m)
<1> DEFINE p == SubSeq(q, 1, k)
           z == Unsent(q, k)
<1>1. w \in Seq(Nat) /\ q \in Seq(Nat) /\ Increasing(w) /\ Increasing(q)
  BY DEF Ordered
<1>2. Part(p, q, 0) /\ Part(z, q, k) /\ Len(p) = k /\ k \in Nat
  BY <1>1, Prefix, Suffix, SubSeqProperties, LenProperties, ElementOfSeq
<1>3. p \in Seq(Nat) /\ z \in Seq(Nat)
  BY <1>2 DEF Part
<1> HIDE DEF p, z
<1>4. Increasing(p) /\ Increasing(z)
  BY <1>1, <1>2, PartIncreasing
<1>5. Before(w, p) /\ Before(w, z)
  BY <1>2, BeforePart DEF Ordered
<1>6. Before(p, z)
  <2> SUFFICES ASSUME NEW i \in 1..Len(p), NEW j \in 1..Len(z) PROVE p[i] < z[j]
    BY DEF Before
  <2>1. i \in 1..Len(q) /\ p[i] = q[i]
    <3>1. i \in Nat /\ i \in 1..Len(q) /\ 0 + i = i
      BY <1>1, <1>2, LenProperties
    <3> QED
      BY <1>2, <3>1 DEF Part
  <2>2. k + j \in 1..Len(q) /\ z[j] = q[k + j]
    BY <1>2, PartIndex
  <2>3. i < k + j
    BY <1>2, <1>3, LenProperties
  <2>4. q[i] < q[k + j]
    BY <1>1, <2>1, <2>2, <2>3 DEF Increasing
  <2> QED
    BY <2>1, <2>2, <2>4
<1>7. Before(p, <<m>>) /\ Before(z, <<m>>)
  BY <1>2, PartBefore DEF Ordered
<1>8. Increasing(w \o p) /\ Before(w \o p, z) /\ Before(w \o p, <<m>>) /\ w \o p \in Seq(Nat)
  BY <1>1, <1>3, <1>4, <1>5, <1>6, <1>7, ConcatIncreasing, ConcatBefore, ConcatProperties
     DEF Ordered
<1> QED
  BY <1>3, <1>4, <1>7, <1>8 DEF Ordered, p, z

LEMMA Later ==
  ASSUME NEW s \in Seq(Nat), NEW m \in Nat, Before(s, <<m>>)
  PROVE  Before(s, <<m + 1>>)
<1> SUFFICES ASSUME NEW i \in 1..Len(s), NEW j \in 1..Len(<<m + 1>>) PROVE s[i] < <<m + 1>>[j]
  BY DEF Before
<1>1. s[i] \in Nat
  BY ElementOfSeq
<1>2. 1 \in 1..Len(<<m>>) /\ <<m>>[1] = m
  OBVIOUS
<1>3. s[i] < m
  BY <1>2 DEF Before
<1>4. <<m + 1>>[j] = m + 1
  OBVIOUS
<1> QED
  BY <1>1, <1>3, <1>4

LEMMA Alone ==
  ASSUME NEW m \in Nat
  PROVE  <<m>> \in Seq(Nat) /\ Increasing(<<m>>) /\ Before(<<m>>, <<m + 1>>)
  BY DEF Increasing, Before

\* The next message joins a sequence at its end.
LEMMA Joined ==
  ASSUME NEW w, NEW q, NEW m \in Nat, Ordered(w, q, m)
  PROVE  Ordered(w, q \o <<m>>, m + 1)
<1>1. Increasing(q \o <<m>>) /\ q \o <<m>> \in Seq(Nat)
  BY Alone, ConcatIncreasing, ConcatProperties DEF Ordered
<1>2. Before(w, q \o <<m>>)
  BY Alone, BeforeConcat DEF Ordered
<1>3. Before(w, <<m + 1>>) /\ Before(q, <<m + 1>>)
  BY Later DEF Ordered
<1>4. Before(q \o <<m>>, <<m + 1>>)
  BY <1>3, Alone, ConcatBefore DEF Ordered
<1> QED
  BY <1>1, <1>2, <1>3, <1>4 DEF Ordered

\* A later message may join the queue; dropping the oldest keeps the order.
LEMMA EnqueueOrdered ==
  ASSUME NEW w, NEW q, NEW m \in Nat, Ordered(w, q, m)
  PROVE  /\ Ordered(w, Enqueue(q, m), m + 1)
         /\ Len(Enqueue(q, m)) <= QueueSize
<1> DEFINE a == Append(q, m)
<1>1. Ordered(w, a, m + 1)
  <2>1. a = q \o <<m>>
    BY AppendIsConcat DEF Ordered
  <2> QED
    BY <2>1, Joined
<1>2. a \in Seq(Nat) /\ Len(a) \in Nat
  BY <1>1, LenProperties DEF Ordered
<1> HIDE DEF a
<1>3. CASE Len(a) <= QueueSize
  BY <1>1, <1>3 DEF Enqueue, a
<1>4. CASE ~(Len(a) <= QueueSize)
  <2>1. Len(a) - QueueSize \in 0..Len(a) /\ Len(a) - (Len(a) - QueueSize) = QueueSize
    BY <1>2, <1>4, QueueAssumption
  <2> DEFINE e == Unsent(a, Len(a) - QueueSize)
  <2>2. Enqueue(q, m) = e
    BY <1>4 DEF Enqueue, Unsent, a
  <2>3. Part(e, a, Len(a) - QueueSize) /\ Len(e) = QueueSize
    BY <1>2, <2>1, Suffix
  <2> HIDE DEF e
  <2>4. e \in Seq(Nat) /\ Increasing(e) /\ Before(w, e) /\ Before(e, <<m + 1>>)
    BY <1>1, <2>3, PartIncreasing, BeforePart, PartBefore DEF Ordered, Part
  <2> QED
    BY <1>1, <2>2, <2>3, <2>4, QueueAssumption DEF Ordered
<1> QED
  BY <1>3, <1>4

\* A message goes out at once only behind an emptied queue.
LEMMA DirectOrdered ==
  ASSUME NEW w, NEW q, NEW m \in Nat, Ordered(w, q, m)
  PROVE  Ordered(w \o (SubSeq(q, 1, Len(q)) \o <<m>>), Unsent(q, Len(q)), m + 1)
<1>1. w \in Seq(Nat) /\ q \in Seq(Nat) /\ Len(q) \in Nat
  BY LenProperties DEF Ordered
<1>2. SubSeq(q, 1, Len(q)) = q
  BY <1>1, SubSeqFull
<1>3. Unsent(q, Len(q)) = <<>>
  BY <1>1, SubSeqEmpty DEF Unsent
<1>4. Ordered(w, q \o <<m>>, m + 1)
  BY Joined
<1>5. /\ w \o (q \o <<m>>) \in Seq(Nat) /\ Increasing(w \o (q \o <<m>>))
      /\ Before(w \o (q \o <<m>>), <<m + 1>>)
  BY <1>4, ConcatIncreasing, ConcatBefore, ConcatProperties DEF Ordered
<1>6. \A x : Increasing(<<>>) /\ Before(x, <<>>) /\ Before(<<>>, x) /\ <<>> \in Seq(Nat)
  BY DEF Increasing, Before
<1> QED
  BY <1>2, <1>3, <1>5, <1>6 DEF Ordered

-----------------------------------------------------------------------------
(* The handlers. *)

\* What holds of the messages of one target.
Sound(t) == Ordered(wire[t], queue[t], Len(sentTo) + 1) /\ Len(queue[t]) <= QueueSize

QueueInv ==
  /\ queue \in [Ids -> Seq(Nat)] /\ wire \in [Ids -> Seq(Nat)]
  /\ sentTo \in Seq(Ids)
  /\ \A t \in Ids : Sound(t)

\* The messages of one target after it was flushed, and of the others.
LEMMA FlushSound ==
  ASSUME QueueInv, NEW r, NEW rdy, NEW ch, NEW t, Flush(r, rdy, ch, t), UNCHANGED sentTo
  PROVE  QueueInv'
<1>1. PICK k \in Accepted(r, rdy, ch, t) :
        /\ queue' = [queue EXCEPT ![t] = Unsent(@, k)]
        /\ wire'  = [wire EXCEPT ![t] = @ \o SubSeq(queue[t], 1, k)]
  BY DEF Flush
<1>2. CASE t \notin Ids
  <2>1. queue' = queue /\ wire' = wire
    BY <1>1, <1>2 DEF QueueInv
  <2> QED
    BY <2>1 DEF QueueInv, Sound
<1>3. CASE t \in Ids
  <2>1. queue[t] \in Seq(Nat) /\ Len(queue[t]) \in Nat /\ k \in 0..Len(queue[t])
    BY <1>1, <1>3, LenProperties DEF QueueInv, Accepted
  <2>2. Ordered(wire'[t], queue'[t], Len(sentTo) + 1)
    <3>1. queue'[t] = Unsent(queue[t], k) /\ wire'[t] = wire[t] \o SubSeq(queue[t], 1, k)
      BY <1>1, <1>3 DEF QueueInv
    <3>2. Ordered(wire[t], queue[t], Len(sentTo) + 1)
      BY <1>3 DEF QueueInv, Sound
    <3> QED
      BY <2>1, <3>1, <3>2, FlushOrdered
  <2>3. Len(queue'[t]) <= QueueSize
    <3>1. Len(Unsent(queue[t], k)) = Len(queue[t]) - k
      BY <2>1, Suffix
    <3>2. Len(queue[t]) <= QueueSize
      BY <1>3 DEF QueueInv, Sound
    <3>3. queue'[t] = Unsent(queue[t], k)
      BY <1>1, <1>3 DEF QueueInv
    <3> QED
      BY <2>1, <3>1, <3>2, <3>3, QueueAssumption
  <2>4. \A x \in Ids \ {t} : queue'[x] = queue[x] /\ wire'[x] = wire[x]
    BY <1>1 DEF QueueInv
  <2>5. queue' \in [Ids -> Seq(Nat)] /\ wire' \in [Ids -> Seq(Nat)]
    BY <1>1, <2>2 DEF QueueInv, Ordered
  <2> QED
    BY <2>2, <2>3, <2>4, <2>5 DEF QueueInv, Sound
<1> QED
  BY <1>2, <1>3

\* The messages of the target of a send(), and of the others.
LEMMA SendSound ==
  ASSUME QueueInv, NEW t \in Targets, Send(t)
  PROVE  QueueInv'
<1> DEFINE m == Len(sentTo) + 1
<1>1. t \in Ids /\ Len(sentTo) \in Nat /\ m \in Nat
  BY BridgeAssumption, LenProperties DEF QueueInv
<1>2. sentTo' \in Seq(Ids) /\ Len(sentTo') = m
  BY <1>1, AppendProperties DEF Send, QueueInv
<1>3. PICK k \in 0..Len(queue[t]), direct \in BOOLEAN :
        /\ direct => k = Len(queue[t])
        /\ queue' = [queue EXCEPT ![t] = AfterSend(@, k, m, direct)]
        /\ wire'  = [wire EXCEPT ![t] = @ \o SentNow(queue[t], k, m, direct)]
  <2>1. queue[t] \in Seq(Nat) /\ Len(queue[t]) \in Nat
    BY <1>1, LenProperties DEF QueueInv
  <2>2. (IF IsConnected(reg, t) THEN Accepted(reg, ready, chan, t) ELSE {0})
          \subseteq 0..Len(queue[t])
    BY <2>1 DEF Accepted
  <2> QED
    BY <1>2, <2>2, Zenon DEF Send
<1>4. queue[t] \in Seq(Nat) /\ wire[t] \in Seq(Nat) /\ Ordered(wire[t], queue[t], m)
  BY <1>1 DEF QueueInv, Sound
<1>5. /\ queue'[t] = AfterSend(queue[t], k, m, direct)
      /\ wire'[t] = wire[t] \o SentNow(queue[t], k, m, direct)
  BY <1>1, <1>3 DEF QueueInv
<1>6. Ordered(wire'[t], queue'[t], m + 1) /\ Len(queue'[t]) <= QueueSize
  <2>1. CASE direct
    <3>1. k = Len(queue[t])
      BY <1>3, <2>1
    <3>2. /\ queue'[t] = Unsent(queue[t], Len(queue[t]))
          /\ wire'[t] = wire[t] \o (SubSeq(queue[t], 1, Len(queue[t])) \o <<m>>)
      BY <1>5, <2>1, <3>1 DEF AfterSend, SentNow
    <3>3. Len(queue'[t]) = 0
      <4>1. Len(queue[t]) \in Nat /\ Len(queue[t]) \in 0..Len(queue[t])
        BY <1>4, LenProperties
      <4>2. Len(Unsent(queue[t], Len(queue[t]))) = Len(queue[t]) - Len(queue[t])
        BY <1>4, <4>1, Suffix
      <4> QED
        BY <3>2, <4>1, <4>2
    <3> QED
      BY <1>1, <1>4, <3>2, <3>3, DirectOrdered, QueueAssumption
  <2>2. CASE ~direct
    <3>1. Ordered(wire[t] \o SubSeq(queue[t], 1, k), Unsent(queue[t], k), m)
      BY <1>4, FlushOrdered
    <3>2. queue'[t] = Enqueue(Unsent(queue[t], k), m)
      BY <1>5, <2>2 DEF AfterSend
    <3>3. wire'[t] = wire[t] \o SubSeq(queue[t], 1, k)
      <4>1. SubSeq(queue[t], 1, k) \in Seq(Nat)
        BY <1>4, Prefix DEF Part
      <4>2. SubSeq(queue[t], 1, k) \o <<>> = SubSeq(queue[t], 1, k)
        BY <4>1, ConcatEmptySeq
      <4> QED
        BY <1>5, <2>2, <4>2 DEF SentNow
    <3> QED
      BY <1>1, <3>1, <3>2, <3>3, EnqueueOrdered
  <2> QED
    BY <2>1, <2>2
<1>7. \A x \in Ids \ {t} : Sound(x)'
  <2> SUFFICES ASSUME NEW x \in Ids \ {t} PROVE Sound(x)'
    OBVIOUS
  <2>1. queue'[x] = queue[x] /\ wire'[x] = wire[x]
    BY <1>3 DEF QueueInv
  <2>2. Ordered(wire[x], queue[x], m) /\ Len(queue[x]) <= QueueSize
    BY DEF QueueInv, Sound
  <2>3. Ordered(wire[x], queue[x], m + 1)
    BY <1>1, <2>2, Later DEF Ordered
  <2> QED
    BY <1>2, <2>1, <2>2, <2>3 DEF Sound
<1>8. queue' \in [Ids -> Seq(Nat)] /\ wire' \in [Ids -> Seq(Nat)]
  BY <1>3, <1>6 DEF QueueInv, Ordered
<1>9. Sound(t)'
  BY <1>2, <1>6 DEF Sound
<1> QED
  BY <1>2, <1>7, <1>8, <1>9 DEF QueueInv

LEMMA QueueInvInit == Init => QueueInv
<1> SUFFICES ASSUME Init PROVE QueueInv
  OBVIOUS
<1>1. sentTo = <<>> /\ Len(sentTo) + 1 = 1 /\ sentTo \in Seq(Ids)
  BY DEF Init
<1>2. \A t \in Ids : queue[t] = <<>> /\ wire[t] = <<>>
  BY DEF Init
<1>3. \A x : Increasing(<<>>) /\ Before(x, <<>>) /\ Before(<<>>, x) /\ <<>> \in Seq(Nat)
  BY DEF Increasing, Before
<1> QED
  BY <1>1, <1>2, <1>3, QueueAssumption DEF Init, QueueInv, Sound, Ordered

LEMMA QueueInvStep == QueueInv /\ [Next]_vars => QueueInv'
<1> SUFFICES ASSUME QueueInv, [Next]_vars PROVE QueueInv'
  OBVIOUS
<1> USE DEF history
<1>0. ASSUME UNCHANGED <<queue, wire, sentTo>> PROVE QueueInv'
  BY <1>0 DEF QueueInv, Sound
<1>1. ASSUME NEW t \in Targets, Send(t) PROVE QueueInv'
  BY <1>1, SendSound
<1>2. ASSUME NEW u \in Uuids, ConnectionEvent(u) PROVE QueueInv'
  <2>1. ASSUME NEW label, PeerConnected(u, label) PROVE QueueInv'
    BY <2>1, <1>0 DEF PeerConnected
  <2>2. ASSUME NEW label, DataChannelOpen(u, label) PROVE QueueInv'
    BY <2>2, FlushSound DEF DataChannelOpen
  <2>3. ASSUME NEW label, PeerDisconnected(u, label) PROVE QueueInv'
    BY <2>3, <1>0 DEF PeerDisconnected
  <2>4. ASSUME NEW from, AnnounceReceived(u, from) PROVE QueueInv'
    <3>1. CASE Rejected(reg, u, from)
      BY <2>4, <3>1, <1>0 DEF AnnounceReceived
    <3>2. CASE ~Rejected(reg, u, from)
      BY <2>4, <3>2, FlushSound DEF AnnounceReceived
    <3> QED
      BY <3>1, <3>2
  <2>5. ASSUME NEW from, EnvelopeReceived(u, from) PROVE QueueInv'
    BY <2>5, <1>0 DEF EnvelopeReceived
  <2>6. ASSUME ConnectionLost(u) PROVE QueueInv'
    BY <2>6, <1>0 DEF ConnectionLost, bridgeVars
  <2> QED
    BY <1>2, <2>1, <2>2, <2>3, <2>4, <2>5, <2>6 DEF ConnectionEvent
<1>3. ASSUME NEW s \in Streams, ViewEvent(s) PROVE QueueInv'
  BY <1>3, <1>0 DEF ViewEvent, StreamListed, Revive, ViewSucceeds, ViewFails, bridgeVars
<1>4. CASE Lifecycle
  BY <1>4, <1>0 DEF Lifecycle, Reconnecting, Reconnected, GraceEnds,
                    DisconnectBegins, DisconnectEnds, Connect
<1>5. CASE UNCHANGED vars
  BY <1>5, <1>0 DEF vars, bridgeVars
<1> QED
  BY <1>1, <1>2, <1>3, <1>4, <1>5 DEF Next

\* Messages for one target reach the transport in the order of their send()
\* calls, none of them twice, through flushes cut short by a refusal, lost and
\* replaced connections and restarts of the SDK.
THEOREM DeliveryInOrder == Spec => []PerTargetFifo
<1>1. QueueInv => PerTargetFifo
  <2> SUFFICES ASSUME QueueInv, NEW t \in Ids PROVE Increasing(wire[t] \o queue[t])
    <3>1. \A t \in Ids : Len(wire[t] \o queue[t]) = Len(wire[t]) + Len(queue[t])
      BY ConcatProperties DEF QueueInv
    <3> QED
      BY <3>1 DEF PerTargetFifo, Increasing
  <2> QED
    BY ConcatIncreasing DEF QueueInv, Sound, Ordered
<1> QED
  BY <1>1, QueueInvInit, QueueInvStep, PTL DEF Spec

-----------------------------------------------------------------------------
(* Loss.  The messages sent are s, the transport took w for target t, and  *)
(* q waits for it.                                                         *)

Member(q, m) == \E i \in 1..Len(q) : q[i] = m

After(s, m, t) == {n \in (m + 1)..Len(s) : s[n] = t}

\* What waits for t was sent to t; what was sent to t was taken, waits, or
\* was followed by enough messages to t to push it out.
Kept(s, t, w, q) ==
  /\ \A i \in 1..Len(q) : q[i] \in 1..Len(s) /\ s[q[i]] = t
  /\ \A m \in 1..Len(s) : s[m] = t =>
       Member(w, m) \/ Member(q, m) \/ Cardinality(After(s, m, t)) >= QueueSize

LEMMA MemberConcat ==
  ASSUME NEW p \in Seq(Nat), NEW q \in Seq(Nat), NEW m
  PROVE  Member(p \o q, m) <=> Member(p, m) \/ Member(q, m)
<1>1. /\ Len(p) \in Nat /\ Len(q) \in Nat /\ Len(p \o q) = Len(p) + Len(q)
      /\ \A i \in 1..(Len(p) + Len(q)) :
           (p \o q)[i] = IF i <= Len(p) THEN p[i] ELSE q[i - Len(p)]
  BY LenProperties, ConcatProperties
<1>2. ASSUME Member(p \o q, m) PROVE Member(p, m) \/ Member(q, m)
  <2>1. PICK i \in 1..Len(p \o q) : (p \o q)[i] = m
    BY <1>2 DEF Member
  <2> QED
    BY <2>1, ConcatIndex DEF Member
<1>3. ASSUME Member(p, m) PROVE Member(p \o q, m)
  <2>1. PICK i \in 1..Len(p) : p[i] = m
    BY <1>3 DEF Member
  <2>2. i \in 1..Len(p \o q) /\ (p \o q)[i] = m
    BY <1>1, <2>1
  <2> QED
    BY <2>2 DEF Member
<1>4. ASSUME Member(q, m) PROVE Member(p \o q, m)
  <2>1. PICK i \in 1..Len(q) : q[i] = m
    BY <1>4 DEF Member
  <2>2. Len(p) + i \in 1..Len(p \o q) /\ (p \o q)[Len(p) + i] = m
    BY <1>1, <2>1
  <2> QED
    BY <2>2 DEF Member
<1> QED
  BY <1>2, <1>3, <1>4

LEMMA MemberOne == ASSUME NEW m PROVE Member(<<m>>, m)
  BY DEF Member

\* Where a queue is cut in two, no message is lost.
LEMMA MemberSplit ==
  ASSUME NEW q \in Seq(Nat), NEW k \in 0..Len(q), NEW m, Member(q, m)
  PROVE  Member(SubSeq(q, 1, k), m) \/ Member(Unsent(q, k), m)
<1>1. PICK i \in 1..Len(q) : q[i] = m
  BY DEF Member
<1>2. /\ Part(SubSeq(q, 1, k), q, 0) /\ Part(Unsent(q, k), q, k)
      /\ Len(Unsent(q, k)) = Len(q) - k /\ Len(q) \in Nat
  BY Prefix, Suffix, LenProperties
<1>3. CASE i <= k
  <2>1. Len(SubSeq(q, 1, k)) = k /\ \A j \in 1..k : SubSeq(q, 1, k)[j] = q[j]
    BY <1>2, SubSeqProperties, ElementOfSeq, Z3
  <2> QED
    BY <1>1, <1>3, <2>1 DEF Member
<1>4. CASE ~(i <= k)
  <2>1. i - k \in 1..Len(Unsent(q, k)) /\ k + (i - k) = i
    BY <1>2, <1>4
  <2>2. Unsent(q, k)[i - k] = q[i]
    BY <1>2, <2>1 DEF Part
  <2> QED
    BY <1>1, <2>1, <2>2 DEF Member
<1> QED
  BY <1>3, <1>4

LEMMA AfterGrows ==
  ASSUME NEW s \in Seq(Ids), NEW x \in Ids, NEW m \in Nat, NEW t,
         Cardinality(After(s, m, t)) >= QueueSize
  PROVE  Cardinality(After(Append(s, x), m, t)) >= QueueSize
<1>1. /\ Len(s) \in Nat /\ Len(Append(s, x)) = Len(s) + 1
      /\ \A i \in 1..Len(s) : Append(s, x)[i] = s[i]
  BY LenProperties, AppendProperties
<1>2. After(s, m, t) \subseteq After(Append(s, x), m, t)
  BY <1>1 DEF After
<1>3. IsFiniteSet((m + 1)..Len(Append(s, x)))
  BY <1>1, FS_Interval
<1>4. IsFiniteSet(After(Append(s, x), m, t))
  BY <1>3, FS_Subset DEF After
<1>5. Cardinality(After(s, m, t)) <= Cardinality(After(Append(s, x), m, t))
  BY <1>2, <1>4, FS_Subset
<1>6. IsFiniteSet(After(s, m, t))
  BY <1>2, <1>4, FS_Subset
<1> QED
  BY <1>4, <1>5, <1>6, FS_CardinalityType, QueueAssumption

LEMMA FlushKept ==
  ASSUME NEW s, NEW t, NEW w \in Seq(Nat), NEW q \in Seq(Nat), Kept(s, t, w, q),
         NEW k \in 0..Len(q)
  PROVE  Kept(s, t, w \o SubSeq(q, 1, k), Unsent(q, k))
<1>1. SubSeq(q, 1, k) \in Seq(Nat) /\ Part(Unsent(q, k), q, k)
  BY Prefix, Suffix DEF Part
<1>2. ASSUME NEW i \in 1..Len(Unsent(q, k))
      PROVE  Unsent(q, k)[i] \in 1..Len(s) /\ s[Unsent(q, k)[i]] = t
  <2>1. k + i \in 1..Len(q) /\ Unsent(q, k)[i] = q[k + i]
    BY <1>1, PartIndex
  <2> QED
    BY <2>1 DEF Kept
<1>3. ASSUME NEW m \in 1..Len(s), s[m] = t
      PROVE  \/ Member(w \o SubSeq(q, 1, k), m) \/ Member(Unsent(q, k), m)
             \/ Cardinality(After(s, m, t)) >= QueueSize
  <2>1. Member(w, m) \/ Member(q, m) \/ Cardinality(After(s, m, t)) >= QueueSize
    BY <1>3 DEF Kept
  <2>2. Member(w, m) \/ Member(SubSeq(q, 1, k), m) => Member(w \o SubSeq(q, 1, k), m)
    BY <1>1, MemberConcat
  <2> QED
    BY <2>1, <2>2, MemberSplit
<1> QED
  BY <1>2, <1>3 DEF Kept

\* Another message was sent: nothing sent before it gets lost.
LEMMA SentKept ==
  ASSUME NEW s \in Seq(Ids), NEW x \in Ids, NEW t, NEW w, NEW q, Kept(s, t, w, q)
  PROVE  /\ \A i \in 1..Len(q) : q[i] \in 1..Len(Append(s, x)) /\ Append(s, x)[q[i]] = t
         /\ \A m \in 1..Len(s) : Append(s, x)[m] = t =>
              \/ Member(w, m) \/ Member(q, m)
              \/ Cardinality(After(Append(s, x), m, t)) >= QueueSize
<1>1. /\ Len(s) \in Nat /\ Len(Append(s, x)) = Len(s) + 1
      /\ \A i \in 1..Len(s) : Append(s, x)[i] = s[i]
  BY LenProperties, AppendProperties
<1>2. \A i \in 1..Len(q) : q[i] \in 1..Len(Append(s, x)) /\ Append(s, x)[q[i]] = t
  BY <1>1 DEF Kept
<1>3. ASSUME NEW m \in 1..Len(s), Append(s, x)[m] = t
      PROVE  \/ Member(w, m) \/ Member(q, m)
             \/ Cardinality(After(Append(s, x), m, t)) >= QueueSize
  <2>1. s[m] = t /\ m \in Nat
    BY <1>1, <1>3
  <2>2. Member(w, m) \/ Member(q, m) \/ Cardinality(After(s, m, t)) >= QueueSize
    BY <2>1 DEF Kept
  <2> QED
    BY <2>1, <2>2, AfterGrows
<1> QED
  BY <1>2, <1>3

LEMMA OthersKept ==
  ASSUME NEW s \in Seq(Ids), NEW x \in Ids, NEW t, t # x, NEW w, NEW q, Kept(s, t, w, q)
  PROVE  Kept(Append(s, x), t, w, q)
<1>1. Len(s) \in Nat /\ Len(Append(s, x)) = Len(s) + 1 /\ Append(s, x)[Len(s) + 1] = x
  BY LenProperties, AppendProperties
<1>2. \A m \in 1..Len(Append(s, x)) : Append(s, x)[m] = t => m \in 1..Len(s)
  BY <1>1
<1> QED
  BY <1>2, SentKept DEF Kept

\* The new message left at once.
LEMMA DirectKept ==
  ASSUME NEW s \in Seq(Ids), NEW t \in Ids, NEW w, NEW q, Kept(s, t, w, q), NEW now,
         \A m : Member(w, m) \/ m = Len(s) + 1 => Member(now, m)
  PROVE  Kept(Append(s, t), t, now, q)
<1>1. Len(s) \in Nat /\ Len(Append(s, t)) = Len(s) + 1
  BY LenProperties, AppendProperties
<1>2. \A m \in 1..Len(Append(s, t)) : m \in 1..Len(s) \/ m = Len(s) + 1
  BY <1>1
<1>3. /\ \A i \in 1..Len(q) : q[i] \in 1..Len(Append(s, t)) /\ Append(s, t)[q[i]] = t
      /\ \A m \in 1..Len(s) : Append(s, t)[m] = t =>
           \/ Member(w, m) \/ Member(q, m)
           \/ Cardinality(After(Append(s, t), m, t)) >= QueueSize
  BY SentKept
<1> QED
  BY <1>2, <1>3 DEF Kept

\* The first of a sequence of messages to one target: the rest came after it.
LEMMA FirstFollowed ==
  ASSUME NEW s \in Seq(Ids), NEW t, NEW a \in Seq(Nat), Increasing(a), Len(a) = QueueSize + 1,
         \A i \in 1..Len(a) : a[i] \in 1..Len(s) /\ s[a[i]] = t
  PROVE  Cardinality(After(s, a[1], t)) >= QueueSize
<1> DEFINE f == [i \in 1..QueueSize |-> a[i + 1]]
<1>1. QueueSize \in Nat /\ Len(s) \in Nat /\ 1 \in 1..Len(a)
  BY LenProperties, QueueAssumption
<1>2. a[1] \in Nat /\ \A i \in 1..QueueSize : i + 1 \in 1..Len(a) /\ 1 < i + 1
  BY <1>1, ElementOfSeq
<1>3. ASSUME NEW i \in 1..QueueSize PROVE a[i + 1] \in After(s, a[1], t)
  <2>1. a[1] < a[i + 1] /\ a[i + 1] \in 1..Len(s) /\ s[a[i + 1]] = t
    BY <1>1, <1>2 DEF Increasing
  <2> QED
    BY <1>1, <1>2, <2>1 DEF After
<1>4. ASSUME NEW i \in 1..QueueSize, NEW j \in 1..QueueSize, a[i + 1] = a[j + 1] PROVE i = j
  <2>1. a[i + 1] \in Nat /\ a[j + 1] \in Nat
    BY <1>1, <1>2
  <2>2. ~(i + 1 < j + 1) /\ ~(j + 1 < i + 1)
    BY <1>2, <1>4, <2>1 DEF Increasing
  <2> QED
    BY <1>1, <2>2
<1>5. f \in Injection(1..QueueSize, After(s, a[1], t))
  BY <1>3, <1>4 DEF Injection, IsInjective
<1>6. IsFiniteSet(After(s, a[1], t))
  <2>1. IsFiniteSet((a[1] + 1)..Len(s))
    BY <1>1, <1>2, FS_Interval
  <2> QED
    BY <2>1, FS_Subset DEF After
<1>7. Cardinality(1..QueueSize) = QueueSize
  BY <1>1, FS_Interval
<1> HIDE DEF f
<1>8. Cardinality(1..QueueSize) <= Cardinality(After(s, a[1], t))
  BY <1>5, <1>6, FS_Injection
<1> QED
  BY <1>1, <1>6, <1>7, <1>8, FS_CardinalityType

\* The new message waits; the oldest one may have to go.
LEMMA EnqueueKept ==
  ASSUME NEW s \in Seq(Ids), NEW t \in Ids, NEW w, NEW q, Kept(s, t, w, q),
         Ordered(w, q, Len(s) + 1), Len(q) <= QueueSize
  PROVE  Kept(Append(s, t), t, w, Enqueue(q, Len(s) + 1))
<1> DEFINE m == Len(s) + 1
           a == Append(q, m)
           s1 == Append(s, t)
<1>1. /\ Len(s) \in Nat /\ m \in Nat /\ Len(s1) = m /\ s1[m] = t /\ s1 \in Seq(Ids)
      /\ q \in Seq(Nat) /\ Len(q) \in Nat /\ QueueSize \in Nat
  BY LenProperties, AppendProperties, QueueAssumption DEF Ordered
<1>2. /\ a \in Seq(Nat) /\ Len(a) = Len(q) + 1 /\ a[Len(q) + 1] = m
      /\ \A i \in 1..Len(q) : a[i] = q[i]
  BY <1>1, AppendProperties
<1>3. Increasing(a)
  <2>1. a = q \o <<m>>
    BY <1>1, AppendIsConcat
  <2> QED
    BY <1>1, <2>1, Joined DEF Ordered
<1>4. \A i \in 1..Len(a) : a[i] \in 1..Len(s1) /\ s1[a[i]] = t
  <2>1. \A i \in 1..Len(q) : q[i] \in 1..Len(s1) /\ s1[q[i]] = t
    BY SentKept
  <2> QED
    BY <1>1, <1>2, <2>1
<1>5. \A n : Member(q, n) \/ n = m => Member(a, n)
  <2>1. \A i \in 1..Len(q) : i \in 1..Len(a)
    BY <1>1, <1>2
  <2>2. Len(q) + 1 \in 1..Len(a)
    BY <1>1, <1>2
  <2> QED
    BY <1>2, <2>1, <2>2 DEF Member
<1>6. \A n \in 1..Len(s1) : s1[n] = t =>
        Member(w, n) \/ Member(a, n) \/ Cardinality(After(s1, n, t)) >= QueueSize
  <2>1. \A n \in 1..Len(s1) : n \in 1..Len(s) \/ n = m
    BY <1>1
  <2>2. \A n \in 1..Len(s) : s1[n] = t =>
          Member(w, n) \/ Member(q, n) \/ Cardinality(After(s1, n, t)) >= QueueSize
    BY SentKept
  <2> QED
    BY <1>5, <2>1, <2>2
<1> HIDE DEF a, s1
<1>7. CASE Len(a) <= QueueSize
  <2>1. Enqueue(q, m) = a
    BY <1>7 DEF Enqueue, a
  <2> QED
    BY <1>4, <1>6, <2>1 DEF Kept, s1
<1>8. CASE ~(Len(a) <= QueueSize)
  <2>1. Len(a) = QueueSize + 1
    BY <1>1, <1>2, <1>8
  <2>2. Enqueue(q, m) = Unsent(a, 1)
    <3>1. Len(a) - QueueSize = 1
      BY <1>1, <2>1
    <3> QED
      BY <1>8, <3>1 DEF Enqueue, Unsent, a
  <2>3. 1 \in 0..Len(a) /\ Part(Unsent(a, 1), a, 1) /\ Len(Unsent(a, 1)) = Len(a) - 1
    BY <1>1, <1>2, <2>1, Suffix
  <2>4. Cardinality(After(s1, a[1], t)) >= QueueSize
    BY <1>1, <1>2, <1>3, <1>4, <2>1, FirstFollowed, AppendProperties DEF s1
  <2>5. \A n : Member(a, n) => n = a[1] \/ Member(Unsent(a, 1), n)
    <3> SUFFICES ASSUME NEW i \in 1..Len(a) PROVE a[i] = a[1] \/ Member(Unsent(a, 1), a[i])
      BY DEF Member
    <3>1. CASE i = 1
      BY <3>1
    <3>2. CASE i # 1
      <4>1. i - 1 \in 1..Len(Unsent(a, 1)) /\ 1 + (i - 1) = i
        BY <1>1, <1>2, <2>3, <3>2
      <4>2. Unsent(a, 1)[i - 1] = a[i]
        BY <2>3, <4>1 DEF Part
      <4> QED
        BY <4>1, <4>2 DEF Member
    <3> QED
      BY <3>1, <3>2
  <2>6. \A i \in 1..Len(Unsent(a, 1)) :
          Unsent(a, 1)[i] \in 1..Len(s1) /\ s1[Unsent(a, 1)[i]] = t
    BY <1>4, <2>3, PartIndex
  <2> QED
    BY <1>6, <2>2, <2>4, <2>5, <2>6 DEF Kept, s1
<1> QED
  BY <1>7, <1>8

LossInv == \A t \in Ids : Kept(sentTo, t, wire[t], queue[t])

LEMMA FlushLoses ==
  ASSUME QueueInv, LossInv, NEW r, NEW rdy, NEW ch, NEW t, Flush(r, rdy, ch, t), UNCHANGED sentTo
  PROVE  LossInv'
<1>1. PICK k \in Accepted(r, rdy, ch, t) :
        /\ queue' = [queue EXCEPT ![t] = Unsent(@, k)]
        /\ wire'  = [wire EXCEPT ![t] = @ \o SubSeq(queue[t], 1, k)]
  BY DEF Flush
<1>2. SUFFICES ASSUME NEW x \in Ids PROVE Kept(sentTo', x, wire'[x], queue'[x])
  BY DEF LossInv
<1>3. Kept(sentTo, x, wire[x], queue[x]) /\ wire[x] \in Seq(Nat) /\ queue[x] \in Seq(Nat)
  BY DEF LossInv, QueueInv
<1>4. CASE x # t
  <2>1. queue'[x] = queue[x] /\ wire'[x] = wire[x]
    BY <1>1, <1>4 DEF QueueInv
  <2> QED
    BY <1>3, <2>1
<1>5. CASE x = t
  <2>1. k \in 0..Len(queue[x])
    BY <1>1, <1>3, <1>5, LenProperties DEF Accepted
  <2>2. queue'[x] = Unsent(queue[x], k) /\ wire'[x] = wire[x] \o SubSeq(queue[x], 1, k)
    BY <1>1, <1>5 DEF QueueInv
  <2> QED
    BY <1>3, <2>1, <2>2, FlushKept
<1> QED
  BY <1>4, <1>5

LEMMA SendLoses ==
  ASSUME QueueInv, LossInv, NEW t \in Targets, Send(t)
  PROVE  LossInv'
<1> DEFINE m == Len(sentTo) + 1
<1>1. t \in Ids /\ sentTo \in Seq(Ids) /\ sentTo' = Append(sentTo, t) /\ m \in Nat
  BY BridgeAssumption, LenProperties DEF QueueInv, Send
<1>2. Len(sentTo') = m
  BY <1>1, AppendProperties
<1>3. PICK k \in 0..Len(queue[t]), direct \in BOOLEAN :
        /\ queue' = [queue EXCEPT ![t] = AfterSend(@, k, m, direct)]
        /\ wire'  = [wire EXCEPT ![t] = @ \o SentNow(queue[t], k, m, direct)]
  <2>1. queue[t] \in Seq(Nat) /\ Len(queue[t]) \in Nat
    BY <1>1, LenProperties DEF QueueInv
  <2>2. (IF IsConnected(reg, t) THEN Accepted(reg, ready, chan, t) ELSE {0})
          \subseteq 0..Len(queue[t])
    BY <2>1 DEF Accepted
  <2> QED
    BY <1>2, <2>2, Zenon DEF Send
<1>4. SUFFICES ASSUME NEW x \in Ids PROVE Kept(sentTo', x, wire'[x], queue'[x])
  BY DEF LossInv
<1>5. /\ Kept(sentTo, x, wire[x], queue[x]) /\ wire[x] \in Seq(Nat) /\ queue[x] \in Seq(Nat)
      /\ Ordered(wire[x], queue[x], m) /\ Len(queue[x]) <= QueueSize /\ Len(queue[x]) \in Nat
  BY LenProperties DEF LossInv, QueueInv, Sound
<1>6. CASE x # t
  <2>1. queue'[x] = queue[x] /\ wire'[x] = wire[x]
    BY <1>3, <1>6 DEF QueueInv
  <2> QED
    BY <1>1, <1>5, <1>6, <2>1, OthersKept
<1>7. CASE x = t
  <2> DEFINE p == SubSeq(queue[t], 1, k)
             z == Unsent(queue[t], k)
  <2>1. /\ queue'[t] = AfterSend(queue[t], k, m, direct)
        /\ wire'[t] = wire[t] \o SentNow(queue[t], k, m, direct)
    BY <1>1, <1>3 DEF QueueInv
  <2>2. Kept(sentTo, t, wire[t] \o p, z)
    BY <1>5, <1>7, FlushKept
  <2>3. Ordered(wire[t] \o p, z, m) /\ p \in Seq(Nat) /\ Len(z) <= QueueSize
    <3>1. Ordered(wire[t] \o p, z, m)
      BY <1>5, <1>7, FlushOrdered
    <3>2. Part(p, queue[t], 0) /\ Len(z) = Len(queue[t]) - k
      BY <1>5, <1>7, Prefix, Suffix
    <3> QED
      BY <1>5, <1>7, <3>1, <3>2, QueueAssumption DEF Part
  <2>4. CASE direct
    <3>1. queue'[t] = z /\ wire'[t] = wire[t] \o (p \o <<m>>)
      BY <2>1, <2>4 DEF AfterSend, SentNow
    <3>2. \A n : Member(wire[t] \o p, n) \/ n = m => Member(wire'[t], n)
      <4> SUFFICES ASSUME NEW n, Member(wire[t] \o p, n) \/ n = m
                   PROVE  Member(wire[t] \o (p \o <<m>>), n)
        BY <3>1
      <4>1. <<m>> \in Seq(Nat) /\ p \o <<m>> \in Seq(Nat)
        BY <1>1, <2>3, Alone, ConcatProperties
      <4>2. Member(wire[t], n) \/ Member(p, n) \/ Member(<<m>>, n)
        BY <1>5, <1>7, <2>3, MemberConcat, MemberOne
      <4>3. Member(wire[t], n) \/ Member(p \o <<m>>, n)
        BY <2>3, <4>1, <4>2, MemberConcat
      <4> QED
        BY <1>5, <1>7, <4>1, <4>3, MemberConcat
    <3> HIDE DEF p, z
    <3> QED
      BY <1>1, <1>7, <2>2, <3>1, <3>2, DirectKept
  <2>5. CASE ~direct
    <3>1. queue'[t] = Enqueue(z, m) /\ wire'[t] = wire[t] \o p
      <4>1. p \o <<>> = p
        BY <2>3, ConcatEmptySeq
      <4> QED
        BY <2>1, <2>5, <4>1 DEF AfterSend, SentNow
    <3> HIDE DEF p, z
    <3> QED
      BY <1>1, <1>7, <2>2, <2>3, <3>1, EnqueueKept
  <2> QED
    BY <2>4, <2>5
<1> QED
  BY <1>6, <1>7

LEMMA LossInvStep == QueueInv /\ LossInv /\ [Next]_vars => LossInv'
<1> SUFFICES ASSUME QueueInv, LossInv, [Next]_vars PROVE LossInv'
  OBVIOUS
<1> USE DEF history
<1>0. ASSUME UNCHANGED <<queue, wire, sentTo>> PROVE LossInv'
  BY <1>0 DEF LossInv
<1>1. ASSUME NEW t \in Targets, Send(t) PROVE LossInv'
  BY <1>1, SendLoses
<1>2. ASSUME NEW u \in Uuids, ConnectionEvent(u) PROVE LossInv'
  <2>1. ASSUME NEW label, PeerConnected(u, label) \/ PeerDisconnected(u, label) PROVE LossInv'
    BY <2>1, <1>0 DEF PeerConnected, PeerDisconnected
  <2>2. ASSUME NEW label, DataChannelOpen(u, label) PROVE LossInv'
    BY <2>2, FlushLoses DEF DataChannelOpen
  <2>3. ASSUME NEW from, AnnounceReceived(u, from) PROVE LossInv'
    <3>1. CASE Rejected(reg, u, from)
      BY <2>3, <3>1, <1>0 DEF AnnounceReceived
    <3>2. CASE ~Rejected(reg, u, from)
      BY <2>3, <3>2, FlushLoses DEF AnnounceReceived
    <3> QED
      BY <3>1, <3>2
  <2>4. ASSUME NEW from, EnvelopeReceived(u, from) PROVE LossInv'
    BY <2>4, <1>0 DEF EnvelopeReceived
  <2>5. ASSUME ConnectionLost(u) PROVE LossInv'
    BY <2>5, <1>0 DEF ConnectionLost, bridgeVars
  <2> QED
    BY <1>2, <2>1, <2>2, <2>3, <2>4, <2>5 DEF ConnectionEvent
<1>3. ASSUME NEW s \in Streams, ViewEvent(s) PROVE LossInv'
  BY <1>3, <1>0 DEF ViewEvent, StreamListed, Revive, ViewSucceeds, ViewFails, bridgeVars
<1>4. CASE Lifecycle
  BY <1>4, <1>0 DEF Lifecycle, Reconnecting, Reconnected, GraceEnds,
                    DisconnectBegins, DisconnectEnds, Connect
<1>5. CASE UNCHANGED vars
  BY <1>5, <1>0 DEF vars, bridgeVars
<1> QED
  BY <1>1, <1>2, <1>3, <1>4, <1>5 DEF Next

\* A message neither sent nor waiting was pushed out by QueueSize later ones for
\* its target: whatever connects, closes, refuses or is torn down, nothing else
\* loses one, for any queue size and any number of messages.
THEOREM NothingElseLoses == Spec => []LossOnlyByEviction
<1>1. Init => LossInv
  <2> SUFFICES ASSUME Init, NEW t \in Ids PROVE Kept(sentTo, t, wire[t], queue[t])
    BY DEF LossInv
  <2>1. sentTo = <<>> /\ queue[t] = <<>> /\ Len(<<>>) = 0
    BY DEF Init
  <2> QED
    BY <2>1 DEF Kept
<1>2. QueueInv /\ LossInv => LossOnlyByEviction
  <2> SUFFICES ASSUME QueueInv, LossInv, NEW m \in 1..Len(sentTo)
               PROVE  \/ Member(wire[sentTo[m]], m) \/ Member(queue[sentTo[m]], m)
                      \/ Cardinality(After(sentTo, m, sentTo[m])) >= QueueSize
    BY DEF LossOnlyByEviction, Member, After
  <2>1. sentTo[m] \in Ids
    BY ElementOfSeq DEF QueueInv
  <2> QED
    BY <2>1 DEF LossInv, Kept
<1> QED
  BY <1>1, <1>2, LossInvStep, QueueInvInit, QueueInvStep, PTL DEF Spec

-----------------------------------------------------------------------------
(* The registry's operations keep its two maps inverse to each other. *)

\* What every registry operation is given and gives back.
Good(r) == r \in Registry /\ Consistent(r)

LEMMA EmptyGood == Good(EmptyRegistry)
  BY IdAssumption DEF Good, Registry, Consistent, EmptyRegistry, HasRecord, Ids

LEMMA ResolveFacts ==
  ASSUME NEW r, Good(r), NEW id \in Ids
  PROVE  /\ Resolve(r, id) \in Ids \cup {None}
         /\ Resolve(r, id) # None => HasRecord(r, Resolve(r, id))
  BY IdAssumption DEF Good, Registry, Resolve, RecordOfUuid, HasRecord, Ids

\* A consistent registry finds the record of a UUID, or maps it nowhere.
LEMMA RecordOfUuidFacts ==
  ASSUME NEW r, Good(r), NEW u \in Uuids
  PROVE  /\ RecordOfUuid(r, u) = r.stream[u]
         /\ RecordOfUuid(r, u) \in Ids \cup {None}
         /\ RecordOfUuid(r, u) # None => r.uuid[RecordOfUuid(r, u)] = u
  BY IdAssumption DEF Good, Registry, Consistent, RecordOfUuid, HasRecord, Ids

LEMMA ReattachGood ==
  ASSUME NEW r, Good(r), NEW s \in Ids, NEW u \in Uuids, HasRecord(r, s)
  PROVE  Good(Reattach(r, s, u))
<1> DEFINE new == Reattach(r, s, u)
           old == r.stream[u]
<1>1. /\ RecordOfUuid(r, u) = old /\ old \in Ids \cup {None} /\ (old # None => r.uuid[old] = u)
      /\ None \notin Ids /\ None \notin Uuids
  BY RecordOfUuidFacts, IdAssumption DEF Ids
<1>2. /\ r \in Registry
      /\ \A id \in Ids : r.uuid[id] # None => r.stream[r.uuid[id]] = id
      /\ \A v \in Uuids : r.stream[v] # None => r.uuid[r.stream[v]] = v
      /\ \A id \in r.connected \cup r.announced : r.uuid[id] # None
  BY DEF Good, Consistent, HasRecord
<1>3. r.uuid[s] \in Uuids /\ r.stream[r.uuid[s]] = s
  BY <1>2 DEF HasRecord, Registry
<1>4. /\ \A id \in Ids : new.uuid[id] = IF id = s THEN u ELSE IF id = old THEN None ELSE r.uuid[id]
      /\ \A v \in Uuids : new.stream[v] = IF v = u THEN s ELSE IF v = r.uuid[s] THEN None ELSE r.stream[v]
  BY <1>1 DEF Reattach
<1>5. new.connected \cup new.announced \subseteq ((r.connected \cup r.announced) \ ({old} \ {s})) \cup {s}
  BY <1>1, <1>2 DEF Reattach, Registry
<1>6. new \in Registry
  BY <1>1, <1>2 DEF Registry, Reattach, Ids
<1> HIDE DEF new, old
<1>7. ASSUME NEW id \in Ids, new.uuid[id] # None PROVE new.stream[new.uuid[id]] = id
  <2>1. CASE id = s
    BY <1>4, <2>1
  <2>2. CASE id # s
    <3>1. id # old /\ new.uuid[id] = r.uuid[id] /\ r.uuid[id] \in Uuids /\ r.stream[r.uuid[id]] = id
      BY <1>2, <1>4, <1>7, <2>2 DEF Registry
    <3>2. r.uuid[id] # u /\ r.uuid[id] # r.uuid[s]
      BY <1>3, <2>2, <3>1 DEF old
    <3> QED
      BY <1>4, <3>1, <3>2
  <2> QED
    BY <2>1, <2>2
<1>8. ASSUME NEW v \in Uuids, new.stream[v] # None PROVE new.uuid[new.stream[v]] = v
  <2>1. CASE v = u
    BY <1>4, <2>1
  <2>2. CASE v # u
    <3>1. v # r.uuid[s] /\ new.stream[v] = r.stream[v] /\ r.stream[v] \in Ids /\ r.uuid[r.stream[v]] = v
      BY <1>2, <1>4, <1>8, <2>2 DEF Registry
    <3>2. r.stream[v] # s /\ r.stream[v] # old
      BY <1>1, <2>2, <3>1
    <3> QED
      BY <1>4, <3>1, <3>2
  <2> QED
    BY <2>1, <2>2
<1>9. ASSUME NEW id \in new.connected \cup new.announced PROVE new.uuid[id] # None
  <2>1. id \in Ids
    BY <1>6 DEF Registry
  <2>2. id = s \/ (id # old /\ r.uuid[id] # None)
    BY <1>2, <1>5
  <2> QED
    BY <1>1, <1>4, <2>1, <2>2
<1> QED
  BY <1>6, <1>7, <1>8, <1>9 DEF Good, Consistent, HasRecord, new

LEMMA MoveRecordGood ==
  ASSUME NEW r, Good(r), NEW id \in Ids, NEW s \in Ids,
         HasRecord(r, id), ~HasRecord(r, s)
  PROVE  Good(MoveRecord(r, id, s))
  BY IdAssumption DEF Good, Registry, Consistent, MoveRecord, HasRecord, Ids

LEMMA RekeyPeerGood ==
  ASSUME NEW r, Good(r), NEW id \in Ids, NEW s \in Ids
  PROVE  Good(RekeyPeer(r, id, s))
  BY MoveRecordGood, ResolveFacts DEF RekeyPeer

LEMMA NewRecordGood ==
  ASSUME NEW r, Good(r), NEW s \in Ids, NEW u \in Uuids,
         ~HasRecord(r, s), RecordOfUuid(r, u) = None
  PROVE  Good(NewRecord(r, s, u))
  BY IdAssumption, RecordOfUuidFacts DEF Good, Registry, Consistent, NewRecord, HasRecord, Ids

LEMMA MarkDisconnectedGood ==
  ASSUME NEW r, Good(r), NEW id
  PROVE  Good(MarkDisconnected(r, id))
  BY DEF Good, Registry, Consistent, MarkDisconnected, HasRecord

LEMMA UpdateFromAnnounceGood ==
  ASSUME NEW r, Good(r), NEW id \in Ids
  PROVE  Good(UpdateFromAnnounce(r, id))
  BY ResolveFacts DEF Good, Registry, Consistent, UpdateFromAnnounce, HasRecord

\* A promoted placeholder takes the stream id, a named record keeps its own.
LEMMA ReactivateGood ==
  ASSUME NEW r, Good(r), NEW s \in Ids, NEW u \in Uuids,
         ~HasRecord(r, s), RecordOfUuid(r, u) # None
  PROVE  Good(Reactivate(r, s, u))
<1> DEFINE old == RecordOfUuid(r, u)
           r1  == IF old = u /\ s # u THEN RekeyPeer(r, u, s) ELSE r
           now == IF old = u /\ s # u THEN s ELSE old
<1>1. u \in Ids /\ old \in Ids /\ r.uuid[old] = u /\ r.stream[u] = old
  BY RecordOfUuidFacts DEF Ids
<1>2. Good(r1)
  BY <1>1, RekeyPeerGood
<1>3. r1.uuid[now] = u /\ r1.stream[u] = now /\ now \in Ids
  <2>1. CASE old = u /\ s # u
    <3>1. Resolve(r, u) = u
      BY <1>1, <2>1, IdAssumption DEF Resolve, HasRecord, Ids
    <3>2. r1 = MoveRecord(r, u, s)
      BY <2>1, <3>1, IdAssumption DEF RekeyPeer, Ids
    <3> QED
      BY <1>1, <2>1, <3>2 DEF MoveRecord, Good, Registry
  <2>2. CASE ~(old = u /\ s # u)
    BY <1>1, <2>2
  <2> QED
    BY <2>1, <2>2
<1>4. Reactivate(r, s, u) =
        [uuid |-> r1.uuid, stream |-> r1.stream, connected |-> r1.connected \cup {now},
         announced |-> IF now \in r1.connected THEN r1.announced ELSE r1.announced \ {now}]
  <2>1. [r1.stream EXCEPT ![u] = now] = r1.stream
    BY <1>2, <1>3 DEF Good, Registry
  <2> QED
    BY <2>1 DEF Reactivate
<1>5. HasRecord(r1, now)
  BY <1>3, IdAssumption DEF HasRecord, Ids
<1> HIDE DEF r1, now
<1> QED
  BY <1>2, <1>3, <1>4, <1>5 DEF Good, Registry, Consistent, HasRecord

LEMMA AddPeerGood ==
  ASSUME NEW r, Good(r), NEW s \in Ids, NEW u \in Uuids
  PROVE  Good(AddPeer(r, s, u))
  BY ReattachGood, ReactivateGood, NewRecordGood DEF AddPeer

LEMMA AdoptGood ==
  ASSUME NEW r, Good(r), NEW u \in Uuids, NEW from \in Ids
  PROVE  Good(Adopt(r, u, from))
  BY AddPeerGood, RekeyPeerGood DEF Adopt, Ids

-----------------------------------------------------------------------------
(* Every handler of the bridge changes the registry through them only. *)

LEMMA RegistryGood == Spec => []Good(reg)
<1>1. Init => Good(reg)
  BY EmptyGood DEF Init
<1>2. Good(reg) /\ [Next]_vars => Good(reg)'
  <2> SUFFICES ASSUME Good(reg), [Next]_vars PROVE Good(reg')
    BY DEF Good, Registry, Consistent, HasRecord
  <2>1. ASSUME NEW t \in Targets, Send(t) PROVE Good(reg')
    BY <2>1 DEF Send
  <2>2. ASSUME NEW u \in Uuids, ConnectionEvent(u) PROVE Good(reg')
    <3>1. ASSUME NEW label \in Labels[u] \cup {None}, PeerConnected(u, label) PROVE Good(reg')
      <4>1. (IF label = None THEN u ELSE label) \in Ids
        BY BridgeAssumption DEF Ids
      <4> QED
        BY <3>1, <4>1, AddPeerGood DEF PeerConnected
    <3>2. ASSUME NEW label, DataChannelOpen(u, label) PROVE Good(reg')
      BY <3>2 DEF DataChannelOpen
    <3>3. ASSUME NEW label, PeerDisconnected(u, label) PROVE Good(reg')
      BY <3>3, MarkDisconnectedGood DEF PeerDisconnected
    <3>4. ASSUME NEW from \in Claims[u], AnnounceReceived(u, from) PROVE Good(reg')
      <4>1. from \in Ids
        BY BridgeAssumption DEF Ids
      <4> QED
        BY <3>4, <4>1, AdoptGood, UpdateFromAnnounceGood DEF AnnounceReceived
    <3>5. ASSUME NEW from \in Claims[u], EnvelopeReceived(u, from) PROVE Good(reg')
      <4>1. from \in Ids
        BY BridgeAssumption DEF Ids
      <4> QED
        BY <3>5, <4>1, AdoptGood DEF EnvelopeReceived
    <3>6. ASSUME ConnectionLost(u) PROVE Good(reg')
      BY <3>6 DEF ConnectionLost, bridgeVars
    <3> QED
      BY <2>2, <3>1, <3>2, <3>3, <3>4, <3>5, <3>6 DEF ConnectionEvent
  <2>3. ASSUME NEW s \in Streams, ViewEvent(s) PROVE Good(reg')
    <3>1. ASSUME StreamListed(s) PROVE Good(reg')
      BY <3>1 DEF StreamListed
    <3>2. ASSUME Revive(s) PROVE Good(reg')
      BY <3>2, MarkDisconnectedGood DEF Revive
    <3>3. ASSUME NEW a, ViewSucceeds(s, a) \/ ViewFails(s, a) PROVE Good(reg')
      BY <3>3 DEF ViewSucceeds, ViewFails, bridgeVars
    <3> QED
      BY <2>3, <3>1, <3>2, <3>3 DEF ViewEvent
  <2>4. CASE Lifecycle
    BY <2>4, EmptyGood DEF Lifecycle, Reconnecting, Reconnected, GraceEnds,
                           DisconnectBegins, DisconnectEnds, Connect
  <2>5. CASE UNCHANGED vars
    BY <2>5 DEF vars, bridgeVars
  <2> QED
    BY <2>1, <2>2, <2>3, <2>4, <2>5 DEF Next
<1> QED
  BY <1>1, <1>2, PTL DEF Spec

\* peers and uuidToStream stay inverse to each other in every reachable state,
\* whatever the SDK reports, in whatever order, for any number of connections.
THEOREM RegistryAlwaysConsistent == Spec => []RegistryConsistent
<1>1. Good(reg) => RegistryConsistent
  BY DEF Good, RegistryConsistent
<1> QED
  BY <1>1, RegistryGood, PTL

-----------------------------------------------------------------------------
(* Types. *)

\* The variables the lemmas about the registry and the queues say nothing of.
OtherTypes ==
  /\ ready \subseteq Uuids
  /\ viewed \in [Streams -> Nat]
  /\ restoring \in {"no", "down", "grace"}
  /\ sdk \in {"up", "closing", "none"}
  /\ attempts \in [Streams -> Nat]
  /\ unsettled \subseteq Streams \X Nat
  /\ chan \in [Uuids -> ChanStates]
  /\ heard \subseteq Uuids
  /\ flaky \in BOOLEAN

LEMMA OtherTypesStep == OtherTypes /\ [Next]_vars => OtherTypes'
<1> SUFFICES ASSUME OtherTypes, [Next]_vars PROVE OtherTypes'
  OBVIOUS
<1> USE DEF OtherTypes, ChanStates, sdkVars, bridgeVars
<1>1. ASSUME NEW t \in Targets, Send(t) PROVE OtherTypes'
  BY <1>1 DEF Send
<1>2. ASSUME NEW u \in Uuids, ConnectionEvent(u) PROVE OtherTypes'
  <2>1. ASSUME NEW label, PeerConnected(u, label) PROVE OtherTypes'
    BY <2>1 DEF PeerConnected
  <2>2. ASSUME NEW label, DataChannelOpen(u, label) PROVE OtherTypes'
    BY <2>2 DEF DataChannelOpen
  <2>3. ASSUME NEW label, PeerDisconnected(u, label) PROVE OtherTypes'
    BY <2>3 DEF PeerDisconnected
  <2>4. ASSUME NEW from, AnnounceReceived(u, from) PROVE OtherTypes'
    BY <2>4 DEF AnnounceReceived
  <2>5. ASSUME NEW from, EnvelopeReceived(u, from) PROVE OtherTypes'
    BY <2>5 DEF EnvelopeReceived
  <2>6. ASSUME ConnectionLost(u) PROVE OtherTypes'
    BY <2>6 DEF ConnectionLost
  <2> QED
    BY <1>2, <2>1, <2>2, <2>3, <2>4, <2>5, <2>6 DEF ConnectionEvent
<1>3. ASSUME NEW s \in Streams, ViewEvent(s) PROVE OtherTypes'
  <2>1. ASSUME NEW kept, ViewPeer(s, kept)
        PROVE  /\ viewed' \in [Streams -> Nat] /\ attempts' \in [Streams -> Nat]
               /\ unsettled' \subseteq Streams \X Nat
    BY <2>1 DEF ViewPeer
  <2>2. ASSUME StreamListed(s) PROVE OtherTypes'
    BY <2>1, <2>2 DEF StreamListed
  <2>3. ASSUME Revive(s) PROVE OtherTypes'
    <3>1. chan' \in [Uuids -> ChanStates] /\ heard' \subseteq Uuids /\ ready' \subseteq Uuids
      BY <2>3 DEF Revive
    <3> QED
      BY <2>1, <2>3, <3>1 DEF Revive
  <2>4. ASSUME NEW a, ViewSucceeds(s, a) PROVE OtherTypes'
    BY <2>4 DEF ViewSucceeds
  <2>5. ASSUME NEW a, ViewFails(s, a) PROVE OtherTypes'
    BY <2>5 DEF ViewFails
  <2> QED
    BY <1>3, <2>2, <2>3, <2>4, <2>5 DEF ViewEvent
<1>4. CASE Lifecycle
  BY <1>4 DEF Lifecycle, Reconnecting, Reconnected, GraceEnds,
              DisconnectBegins, DisconnectEnds, Connect
<1>5. CASE UNCHANGED vars
  BY <1>5 DEF vars
<1> QED
  BY <1>1, <1>2, <1>3, <1>4, <1>5 DEF Next

\* Every variable keeps its type, and no offline queue outgrows QueueSize.
THEOREM TypeCorrect == Spec => []TypeOK
<1>1. Init => OtherTypes
  BY BridgeAssumption DEF Init, OtherTypes, ChanStates
<1>2. Good(reg) /\ QueueInv /\ OtherTypes => TypeOK
  BY DEF Good, QueueInv, Sound, OtherTypes, TypeOK
<1> QED
  BY <1>1, <1>2, OtherTypesStep, RegistryGood, QueueInvInit, QueueInvStep, PTL DEF Spec

-----------------------------------------------------------------------------
(* What follows the connection of a record.  A placeholder is the record   *)
(* of its own UUID, and a connection speaks for a stream it named.         *)

Rebuilt(u) == (Labels[u] \cup Claims[u]) \cap Revived # {}

Named(r) ==
  /\ \A u \in Uuids : HasRecord(r, u) => r.uuid[u] = u
  /\ \A u \in Uuids : r.stream[u] \in Streams => r.stream[u] \in Labels[u] \cup Claims[u]

\* The flags of one record, with the SDK's state of its connection.
Flags(r, id, ch, hd, rdy) ==
  LET u == r.uuid[id]
  IN u # None =>
       /\ ch[u] \in {"connected", "open"} => id \in r.connected
       /\ id \in r.connected => ch[u] # "idle"
       /\ id \in r.announced \cap r.connected => u \in hd \/ ch[u] = "closing"
       /\ id \notin r.connected /\ u \in rdy => Rebuilt(u)

Follows(r, ch, hd, rdy) ==
  /\ Good(r) /\ Named(r)
  /\ \A id \in Ids : Flags(r, id, ch, hd, rdy)
  /\ \A u \in rdy : ch[u] \in {"open", "closing"} \/ Rebuilt(u)

\* n is r after u has come to speak for a record: the one of s, or its own.
Takes(r, n, u, s) ==
  \E p \in Ids :
    /\ p = s \/ p = r.stream[u]
    /\ p \in Uuids => p = u /\ r.stream[u] \in {None, u}
    /\ n.uuid[p] = u /\ n.stream[u] = p /\ p \in n.connected
    /\ p \in n.announced => \E q \in r.announced \cap r.connected : r.uuid[q] = u
    /\ \A id \in Ids \ {p} :
         /\ n.uuid[id] \in {None, r.uuid[id]}
         /\ n.uuid[id] # None => (id \in n.connected <=> id \in r.connected)
         /\ id \in n.announced => id \in r.announced
    /\ \A v \in Uuids \ {u} : n.stream[v] \in {None, r.stream[v]}

LEMMA ReattachTakes ==
  ASSUME NEW r, Good(r), Named(r), NEW s \in Ids, NEW u \in Uuids, HasRecord(r, s),
         s \in Uuids => s = u
  PROVE  Takes(r, Reattach(r, s, u), u, s)
<1>0. PICK n : n = Reattach(r, s, u)
  OBVIOUS
<1>1. /\ n.uuid[s] = u /\ n.stream[u] = s /\ s \in n.connected
      /\ \A v \in Uuids \ {u} : n.stream[v] \in {None, r.stream[v]}
  BY <1>0 DEF Reattach
<1>2. \A id \in Ids \ {s} :
        /\ n.uuid[id] \in {None, r.uuid[id]}
        /\ n.uuid[id] # None => (id \in n.connected <=> id \in r.connected)
        /\ id \in n.announced => id \in r.announced
  BY IdAssumption, <1>0 DEF Reattach
<1>3. s \in n.announced => s \in r.announced \cap r.connected /\ r.uuid[s] = u
  BY <1>0 DEF Reattach
<1>4. s \in Uuids => s = u /\ r.stream[u] \in {None, u}
  BY DEF Good, Consistent, Named, HasRecord, Ids
<1> QED
  BY <1>0, <1>1, <1>2, <1>3, <1>4 DEF Takes

LEMMA NewRecordTakes ==
  ASSUME NEW r, Good(r), NEW s \in Ids, NEW u \in Uuids, ~HasRecord(r, s),
         RecordOfUuid(r, u) = None, s \in Uuids => s = u
  PROVE  Takes(r, NewRecord(r, s, u), u, s)
<1>0. PICK n : n = NewRecord(r, s, u)
  OBVIOUS
<1>1. r.stream[u] = None
  BY RecordOfUuidFacts
<1>2. /\ n.uuid[s] = u /\ n.stream[u] = s /\ s \in n.connected /\ s \notin n.announced
      /\ \A v \in Uuids \ {u} : n.stream[v] \in {None, r.stream[v]}
      /\ \A id \in Ids \ {s} :
           /\ n.uuid[id] = r.uuid[id]
           /\ id \in n.connected <=> id \in r.connected
           /\ id \in n.announced => id \in r.announced
  BY <1>0 DEF NewRecord, Good, Registry
<1> QED
  BY <1>0, <1>1, <1>2 DEF Takes

\* A placeholder that is connected gets its stream id.
LEMMA MoveTakes ==
  ASSUME NEW r, Good(r), Named(r), NEW s \in Ids, NEW u \in Uuids, HasRecord(r, u),
         ~HasRecord(r, s), s \notin Uuids, u \in r.connected
  PROVE  Takes(r, MoveRecord(r, u, s), u, s)
<1>0. PICK n : n = MoveRecord(r, u, s)
  OBVIOUS
<1>1. r.uuid[u] = u /\ r.stream[u] = u /\ u \in Ids /\ u # s
  BY DEF Named, Good, Consistent, HasRecord, Ids
<1>2. s \notin r.announced /\ s \notin r.connected
  BY DEF Good, Consistent
<1>3. /\ n.uuid[s] = u /\ n.stream[u] = s /\ s \in n.connected
      /\ s \in n.announced => u \in r.announced
      /\ \A v \in Uuids \ {u} : n.stream[v] \in {None, r.stream[v]}
  BY <1>1, <1>2, <1>0 DEF MoveRecord, Good, Registry
<1>4. \A id \in Ids \ {s} :
        /\ n.uuid[id] \in {None, r.uuid[id]}
        /\ n.uuid[id] # None => (id \in n.connected <=> id \in r.connected)
        /\ id \in n.announced => id \in r.announced
  BY <1>1, <1>2, <1>0 DEF MoveRecord, Good, Registry
<1> QED
  BY <1>0, <1>1, <1>3, <1>4 DEF Takes

LEMMA ReactivateTakes ==
  ASSUME NEW r, Good(r), Named(r), NEW s \in Ids, NEW u \in Uuids, ~HasRecord(r, s),
         RecordOfUuid(r, u) # None, s \in Uuids => s = u
  PROVE  Takes(r, Reactivate(r, s, u), u, s)
<1>0. PICK n : n = Reactivate(r, s, u)
  OBVIOUS
<1>1. PICK old \in Ids : old = RecordOfUuid(r, u) /\ r.stream[u] = old /\ r.uuid[old] = u
  BY RecordOfUuidFacts
<1>2. old \in Uuids => old = u
  BY <1>1, IdAssumption DEF Named, HasRecord, Ids
<1>3. CASE old = u /\ s # u
  <2>1. Resolve(r, u) = u /\ s \notin Uuids
    BY <1>1, <1>3, IdAssumption DEF Resolve, HasRecord, Ids
  <2>2. PICK r1 : r1 = MoveRecord(r, u, s)
    OBVIOUS
  <2>3. n = [uuid |-> r1.uuid, stream |-> [r1.stream EXCEPT ![u] = s],
             connected |-> r1.connected \cup {s},
             announced |-> IF s \in r1.connected THEN r1.announced ELSE r1.announced \ {s}]
    BY <1>0, <1>1, <1>3, <2>1, <2>2, IdAssumption DEF Reactivate, RekeyPeer, Ids
  <2>4. s \notin r.announced /\ s \notin r.connected
    BY DEF Good, Consistent
  <2>5. /\ r1.uuid = [r.uuid EXCEPT ![u] = None, ![s] = u]
        /\ r1.stream = [r.stream EXCEPT ![u] = s]
        /\ s \in r1.connected <=> u \in r.connected
        /\ s \in r1.announced <=> u \in r.announced
        /\ \A id \in Ids \ {s, u} : /\ id \in r1.connected <=> id \in r.connected
                                    /\ id \in r1.announced <=> id \in r.announced
        /\ u \notin r1.connected /\ u \notin r1.announced
    BY <1>1, <1>3, <2>2, <2>4 DEF MoveRecord
  <2>6. /\ n.uuid[s] = u /\ n.stream[u] = s /\ s \in n.connected
        /\ s \in n.announced => u \in r.announced \cap r.connected
        /\ \A v \in Uuids \ {u} : n.stream[v] \in {None, r.stream[v]}
    BY <2>3, <2>5 DEF Good, Registry
  <2>7. \A id \in Ids \ {s} :
          /\ n.uuid[id] \in {None, r.uuid[id]}
          /\ n.uuid[id] # None => (id \in n.connected <=> id \in r.connected)
          /\ id \in n.announced => id \in r.announced
    BY <2>3, <2>5 DEF Good, Registry
  <2> QED
    BY <1>0, <1>1, <1>3, <2>1, <2>6, <2>7 DEF Takes
<1>4. CASE ~(old = u /\ s # u)
  <2>1. n = [uuid |-> r.uuid, stream |-> [r.stream EXCEPT ![u] = old],
             connected |-> r.connected \cup {old},
             announced |-> IF old \in r.connected THEN r.announced ELSE r.announced \ {old}]
    BY <1>0, <1>1, <1>4 DEF Reactivate
  <2>2. /\ n.uuid[old] = u /\ n.stream[u] = old /\ old \in n.connected
        /\ old \in n.announced => old \in r.announced \cap r.connected
        /\ \A v \in Uuids \ {u} : n.stream[v] \in {None, r.stream[v]}
    BY <1>1, <2>1 DEF Good, Registry
  <2>3. \A id \in Ids \ {old} :
          /\ n.uuid[id] \in {None, r.uuid[id]}
          /\ n.uuid[id] # None => (id \in n.connected <=> id \in r.connected)
          /\ id \in n.announced => id \in r.announced
    BY <2>1 DEF Good, Registry
  <2> QED
    BY <1>0, <1>1, <1>2, <2>2, <2>3 DEF Takes
<1> QED
  BY <1>3, <1>4

LEMMA AddPeerTakes ==
  ASSUME NEW r, Good(r), Named(r), NEW s \in Ids, NEW u \in Uuids, s \in Uuids => s = u
  PROVE  Takes(r, AddPeer(r, s, u), u, s)
  BY ReattachTakes, ReactivateTakes, NewRecordTakes DEF AddPeer

\* An envelope over a connection whose record, if there is one, is connected.
LEMMA AdoptTakes ==
  ASSUME NEW r, Good(r), Named(r), NEW u \in Uuids, NEW from \in Streams,
         ~Rejected(r, u, from), \A id \in Ids : r.uuid[id] = u => id \in r.connected
  PROVE  /\ Takes(r, Adopt(r, u, from), u, from)
         /\ Adopt(r, u, from).uuid[from] = u
<1>1. from \in Ids /\ from \notin Uuids /\ u \in Ids /\ from # None /\ u # None
  BY IdAssumption DEF Ids
<1>2. CASE r.uuid[from] = u
  <2>1. Adopt(r, u, from) = r
    BY <1>1, <1>2 DEF Adopt, HasRecord
  <2>2. r.stream[u] = from /\ from \in r.connected
    BY <1>1, <1>2 DEF Good, Consistent, HasRecord
  <2> QED
    BY <1>1, <1>2, <2>1, <2>2 DEF Takes, Good, Registry
<1>3. CASE HasRecord(r, from) /\ r.uuid[from] # u
  <2>1. Adopt(r, u, from) = AddPeer(r, from, u) /\ AddPeer(r, from, u) = Reattach(r, from, u)
    BY <1>3 DEF Adopt, AddPeer, Rejected
  <2>2. Reattach(r, from, u).uuid[from] = u
    BY <1>1 DEF Reattach
  <2> QED
    BY <1>1, <2>1, <2>2, AddPeerTakes
<1>4. CASE ~HasRecord(r, from) /\ Resolve(r, u) = u
  <2>1. HasRecord(r, u)
    BY <1>1, <1>4, ResolveFacts
  <2>2. r.uuid[u] = u /\ u \in r.connected
    BY <1>1, <2>1 DEF Named
  <2>3. Adopt(r, u, from) = MoveRecord(r, u, from)
    BY <1>1, <1>4 DEF Adopt, RekeyPeer
  <2>4. MoveRecord(r, u, from).uuid[from] = u
    BY <1>1, <2>2 DEF MoveRecord, Good, Registry
  <2> QED
    BY <1>1, <1>4, <2>1, <2>2, <2>3, <2>4, MoveTakes
<1>5. CASE ~HasRecord(r, from) /\ Resolve(r, u) # u
  <2>1. RecordOfUuid(r, u) = None
    <3>1. ~HasRecord(r, u)
      BY <1>1, <1>5 DEF Resolve
    <3> QED
      BY <1>1, <1>5, <3>1 DEF RecordOfUuid, Rejected
  <2>2. Adopt(r, u, from) = AddPeer(r, from, u) /\ AddPeer(r, from, u) = NewRecord(r, from, u)
    BY <1>5, <2>1 DEF Adopt, AddPeer
  <2>3. NewRecord(r, from, u).uuid[from] = u
    BY <1>1 DEF NewRecord, Good, Registry
  <2> QED
    BY <1>1, <2>2, <2>3, AddPeerTakes
<1> QED
  BY <1>1, <1>2, <1>3, <1>4, <1>5 DEF HasRecord

\* The connection that has come to speak for a record is up, or comes up now.
LEMMA TakesFollows ==
  ASSUME NEW r, NEW n, NEW u \in Uuids, NEW s \in Ids, NEW hd, NEW rdy, rdy \subseteq Uuids,
         NEW ch \in [Uuids -> ChanStates], NEW up \in [Uuids -> ChanStates],
         Follows(r, ch, hd, rdy), Good(n), Takes(r, n, u, s),
         s \in Streams => s \in Labels[u] \cup Claims[u],
         \/ up = ch /\ ch[u] \in {"connected", "open"}
         \/ up = [ch EXCEPT ![u] = "connected"] /\ ch[u] = "idle"
  PROVE  Follows(n, up, hd, rdy)
<1>1. PICK p \in Ids :
        /\ p = s \/ p = r.stream[u]
        /\ p \in Uuids => p = u /\ r.stream[u] \in {None, u}
        /\ n.uuid[p] = u /\ n.stream[u] = p /\ p \in n.connected
        /\ p \in n.announced => \E q \in r.announced \cap r.connected : r.uuid[q] = u
        /\ \A id \in Ids \ {p} :
             /\ n.uuid[id] \in {None, r.uuid[id]}
             /\ n.uuid[id] # None => (id \in n.connected <=> id \in r.connected)
             /\ id \in n.announced => id \in r.announced
        /\ \A v \in Uuids \ {u} : n.stream[v] \in {None, r.stream[v]}
  BY DEF Takes
<1>2. Named(n)
  <2>1. ASSUME NEW v \in Uuids, HasRecord(n, v) PROVE n.uuid[v] = v
    BY <1>1, <2>1 DEF Follows, Named, HasRecord, Ids
  <2>2. ASSUME NEW v \in Uuids, n.stream[v] \in Streams PROVE n.stream[v] \in Labels[v] \cup Claims[v]
    <3>1. CASE v = u
      BY <1>1, <2>2, <3>1 DEF Follows, Named
    <3>2. CASE v # u
      BY <1>1, <2>2, <3>2, IdAssumption DEF Follows, Named, Ids
    <3> QED
      BY <3>1, <3>2
  <2> QED
    BY <2>1, <2>2 DEF Named
<1>3. Flags(n, p, up, hd, rdy)
  <2>1. up[u] \in {"connected", "open"}
    OBVIOUS
  <2>2. p \in n.announced => u \in hd
    <3>1. SUFFICES ASSUME p \in n.announced PROVE u \in hd
      OBVIOUS
    <3>2. PICK q \in r.announced \cap r.connected : r.uuid[q] = u
      BY <1>1, <3>1
    <3>3. q \in Ids /\ u # None
      BY IdAssumption DEF Follows, Good, Registry, Ids
    <3> QED
      BY <3>2, <3>3 DEF Follows, Flags
  <2> QED
    BY <1>1, <2>1, <2>2 DEF Flags
<1>4. ASSUME NEW id \in Ids \ {p} PROVE Flags(n, id, up, hd, rdy)
  <2>1. SUFFICES ASSUME n.uuid[id] # None PROVE Flags(n, id, up, hd, rdy)
    BY DEF Flags
  <2>2. n.uuid[id] = r.uuid[id] /\ n.uuid[id] \in Uuids
    BY <1>1, <2>1, IdAssumption DEF Good, Registry, Ids
  <2>3. n.uuid[id] # u
    BY <1>1, <2>1 DEF Good, Consistent, HasRecord
  <2>4. up[n.uuid[id]] = ch[r.uuid[id]]
    BY <2>2, <2>3
  <2>5. /\ id \in n.connected <=> id \in r.connected
        /\ id \in n.announced => id \in r.announced
    BY <1>1, <2>1
  <2>6. Flags(r, id, ch, hd, rdy)
    BY DEF Follows
  <2> QED
    BY <2>1, <2>2, <2>4, <2>5, <2>6 DEF Flags
<1>5. \A v \in rdy : up[v] \in {"open", "closing"} \/ Rebuilt(v)
  BY DEF Follows
<1> QED
  BY <1>2, <1>3, <1>4, <1>5 DEF Follows

\* An announce heard on the connection of the record.
LEMMA AnnounceFollows ==
  ASSUME NEW r, NEW ch, NEW hd, NEW rdy, Follows(r, ch, hd, rdy),
         NEW u \in Uuids, NEW from \in Ids, r.uuid[from] = u
  PROVE  Follows(UpdateFromAnnounce(r, from), ch, hd \cup {u}, rdy)
<1>0. PICK n : n = UpdateFromAnnounce(r, from)
  OBVIOUS
<1>1. Resolve(r, from) = from /\ from # None
  BY IdAssumption DEF Resolve, HasRecord, Ids
<1>2. /\ n.uuid = r.uuid /\ n.stream = r.stream /\ n.connected = r.connected
      /\ n.announced = r.announced \cup {from}
  BY <1>0, <1>1 DEF UpdateFromAnnounce, Follows, Good, Registry
<1>3. Good(n)
  BY <1>0, UpdateFromAnnounceGood DEF Follows
<1>4. Named(n)
  BY <1>2 DEF Follows, Named, HasRecord
<1>5. ASSUME NEW id \in Ids PROVE Flags(n, id, ch, hd \cup {u}, rdy)
  BY <1>2 DEF Follows, Flags
<1> QED
  BY <1>0, <1>2, <1>3, <1>4, <1>5 DEF Follows

\* What marking a record disconnected leaves.
LEMMA MarkFollows ==
  ASSUME NEW r, NEW id \in Ids, NEW ch, NEW hd, NEW rdy, NEW ch2, NEW hd2, NEW rdy2,
         Follows(r, ch, hd, rdy), rdy2 \subseteq rdy,
         \A k \in Ids : HasRecord(r, k) /\ k # Resolve(r, id) =>
           ch2[r.uuid[k]] = ch[r.uuid[k]] /\ (r.uuid[k] \in hd => r.uuid[k] \in hd2),
         Resolve(r, id) # None =>
           LET u == r.uuid[Resolve(r, id)]
           IN ch2[u] \notin {"connected", "open"} /\ (u \in rdy2 => Rebuilt(u)),
         \A u \in rdy2 : ch2[u] \in {"open", "closing"} \/ Rebuilt(u)
  PROVE  Follows(MarkDisconnected(r, id), ch2, hd2, rdy2)
<1>0. PICK n : n = MarkDisconnected(r, id)
  OBVIOUS
<1>1. PICK p : p = Resolve(r, id)
  OBVIOUS
<1>2. /\ n.uuid = r.uuid /\ n.stream = r.stream /\ n.announced = r.announced
      /\ n.connected = r.connected \ {p}
  BY <1>0, <1>1 DEF MarkDisconnected, Follows, Good, Registry
<1>3. Good(n) /\ Named(n)
  <2>1. Good(n)
    BY <1>0, MarkDisconnectedGood DEF Follows
  <2> QED
    BY <1>2, <2>1 DEF Follows, Named, HasRecord
<1>4. ASSUME NEW k \in Ids, n.uuid[k] # None, k # p PROVE Flags(n, k, ch2, hd2, rdy2)
  <2>1. /\ ch2[r.uuid[k]] = ch[r.uuid[k]]
        /\ r.uuid[k] \in hd => r.uuid[k] \in hd2
    BY <1>1, <1>2, <1>4 DEF HasRecord
  <2>2. Flags(r, k, ch, hd, rdy) /\ (k \in n.connected <=> k \in r.connected)
    BY <1>2, <1>4 DEF Follows
  <2> QED
    BY <1>2, <2>1, <2>2 DEF Flags
<1>5. ASSUME NEW k \in Ids, n.uuid[k] # None, k = p PROVE Flags(n, k, ch2, hd2, rdy2)
  <2>1. p # None /\ p \notin n.connected
    BY <1>2, <1>5, IdAssumption DEF Ids
  <2> QED
    BY <1>1, <1>2, <1>5, <2>1 DEF Flags
<1>6. \A k \in Ids : Flags(n, k, ch2, hd2, rdy2)
  BY <1>4, <1>5 DEF Flags
<1> QED
  BY <1>0, <1>3, <1>6 DEF Follows

FollowInv == OtherTypes /\ Follows(reg, chan, heard, ready)

LEMMA ConnectedKeeps ==
  ASSUME FollowInv, NEW u \in Uuids, NEW label \in Labels[u] \cup {None}, PeerConnected(u, label)
  PROVE  Follows(reg', chan', heard', ready')
<1>1. PICK s \in Ids : /\ s = IF label = None THEN u ELSE label
                       /\ s \in Uuids => s = u
                       /\ s \in Streams => s \in Labels[u] \cup Claims[u]
  BY BridgeAssumption, IdAssumption DEF Ids
<1>2. reg' = AddPeer(reg, s, u) /\ UNCHANGED <<heard, ready>>
  BY <1>1 DEF PeerConnected
<1>3. Good(reg) /\ Named(reg) /\ Good(reg')
  BY <1>2, AddPeerGood DEF FollowInv, Follows
<1>4. Takes(reg, reg', u, s)
  BY <1>1, <1>2, <1>3, AddPeerTakes
<1>5. /\ \/ chan' = chan /\ chan[u] \in {"connected", "open"}
         \/ chan' = [chan EXCEPT ![u] = "connected"] /\ chan[u] = "idle"
      /\ chan \in [Uuids -> ChanStates] /\ chan' \in [Uuids -> ChanStates] /\ ready \subseteq Uuids
  BY DEF PeerConnected, FollowInv, OtherTypes, ChanStates
<1>6. Follows(reg, chan, heard, ready)
  BY DEF FollowInv
<1> QED
  BY <1>1, <1>2, <1>3, <1>4, <1>5, <1>6, TakesFollows

LEMMA OpenKeeps ==
  ASSUME FollowInv, NEW u \in Uuids, NEW label, DataChannelOpen(u, label)
  PROVE  Follows(reg', chan', heard', ready')
<1>1. /\ chan[u] = "connected" /\ chan' = [chan EXCEPT ![u] = "open"]
      /\ ready' = ready \cup {u} /\ reg' = reg /\ heard' = heard
      /\ chan \in [Uuids -> ChanStates] /\ ready \subseteq Uuids
  BY DEF DataChannelOpen, FollowInv, OtherTypes
<1>2. ASSUME NEW id \in Ids PROVE Flags(reg, id, chan', heard, ready')
  <2>1. Flags(reg, id, chan, heard, ready) /\ reg.uuid[id] \in Uuids \cup {None}
    BY DEF FollowInv, Follows, Good, Registry
  <2>2. CASE reg.uuid[id] = u
    BY <1>1, <2>1, <2>2 DEF Flags
  <2>3. CASE reg.uuid[id] # u
    BY <1>1, <2>1, <2>3 DEF Flags
  <2> QED
    BY <2>2, <2>3
<1>3. \A v \in ready' : chan'[v] \in {"open", "closing"} \/ Rebuilt(v)
  BY <1>1 DEF FollowInv, Follows
<1> QED
  BY <1>1, <1>2, <1>3 DEF FollowInv, Follows

LEMMA EnvelopeFollows ==
  ASSUME FollowInv, NEW u \in Uuids, NEW from \in Claims[u], chan[u] = "open",
         ~Rejected(reg, u, from)
  PROVE  Follows(Adopt(reg, u, from), chan, heard, ready) /\ Adopt(reg, u, from).uuid[from] = u
<1>1. from \in Streams /\ from \in Ids
  BY BridgeAssumption DEF Ids
<1>2. \A id \in Ids : reg.uuid[id] = u => id \in reg.connected
  BY IdAssumption DEF FollowInv, Follows, Flags, Ids
<1>3. Takes(reg, Adopt(reg, u, from), u, from) /\ Adopt(reg, u, from).uuid[from] = u
  BY <1>1, <1>2, AdoptTakes DEF FollowInv, Follows
<1>4. Good(Adopt(reg, u, from))
  BY <1>1, AdoptGood DEF FollowInv, Follows
<1>5. chan \in [Uuids -> ChanStates] /\ ready \subseteq Uuids /\ Follows(reg, chan, heard, ready)
  BY DEF FollowInv, OtherTypes
<1> QED
  BY <1>1, <1>3, <1>4, <1>5, TakesFollows

LEMMA HeardKeeps ==
  ASSUME FollowInv, NEW u \in Uuids, NEW from \in Claims[u],
         AnnounceReceived(u, from) \/ EnvelopeReceived(u, from)
  PROVE  Follows(reg', chan', heard', ready')
<1>1. CASE EnvelopeReceived(u, from)
  BY <1>1, EnvelopeFollows DEF EnvelopeReceived, sdkVars
<1>2. CASE AnnounceReceived(u, from) /\ Rejected(reg, u, from)
  <2>1. reg' = reg /\ chan' = chan /\ ready' = ready /\ heard' = heard \cup {u}
    BY <1>2 DEF AnnounceReceived
  <2> QED
    BY <2>1 DEF FollowInv, Follows, Flags
<1>3. CASE AnnounceReceived(u, from) /\ ~Rejected(reg, u, from)
  <2>1. /\ reg' = UpdateFromAnnounce(Adopt(reg, u, from), from)
        /\ chan[u] = "open" /\ chan' = chan /\ ready' = ready /\ heard' = heard \cup {u}
    BY <1>3 DEF AnnounceReceived
  <2>2. from \in Ids
    BY BridgeAssumption DEF Ids
  <2> QED
    BY <1>3, <2>1, <2>2, EnvelopeFollows, AnnounceFollows
<1> QED
  BY <1>1, <1>2, <1>3

LEMMA LostKeeps ==
  ASSUME FollowInv, NEW u \in Uuids, ConnectionLost(u)
  PROVE  Follows(reg', chan', heard', ready')
<1>1. /\ chan[u] \in {"connected", "open"} /\ chan' = [chan EXCEPT ![u] = "closing"]
      /\ heard' = heard \ {u} /\ reg' = reg /\ ready' = ready
      /\ chan \in [Uuids -> ChanStates] /\ ready \subseteq Uuids
  BY DEF ConnectionLost, bridgeVars, FollowInv, OtherTypes
<1>2. ASSUME NEW id \in Ids PROVE Flags(reg, id, chan', heard', ready)
  <2>1. Flags(reg, id, chan, heard, ready) /\ reg.uuid[id] \in Uuids \cup {None}
    BY DEF FollowInv, Follows, Good, Registry
  <2>2. CASE reg.uuid[id] = u
    BY <1>1, <2>1, <2>2 DEF Flags
  <2>3. CASE reg.uuid[id] # u
    BY <1>1, <2>1, <2>3 DEF Flags
  <2> QED
    BY <2>2, <2>3
<1> QED
  BY <1>1, <1>2 DEF FollowInv, Follows

\* The record of a connection is the one its UUID resolves to.
LEMMA ResolveConnection ==
  ASSUME NEW r, Good(r), Named(r), NEW u \in Uuids
  PROVE  /\ \A k \in Ids : r.uuid[k] = u => Resolve(r, u) = k
         /\ Resolve(r, u) # None => Resolve(r, u) \in Ids /\ r.uuid[Resolve(r, u)] = u
<1>1. u \in Ids /\ u # None
  BY IdAssumption DEF Ids
<1>2. CASE HasRecord(r, u)
  <2>1. Resolve(r, u) = u /\ r.uuid[u] = u /\ r.stream[u] = u
    BY <1>1, <1>2 DEF Resolve, Named, Good, Consistent, HasRecord
  <2> QED
    BY <1>1, <2>1 DEF Good, Consistent, HasRecord
<1>3. CASE ~HasRecord(r, u)
  <2>1. Resolve(r, u) = r.stream[u] /\ r.stream[u] \in Ids \cup {None}
    BY <1>3, RecordOfUuidFacts DEF Resolve
  <2> QED
    BY <1>1, <2>1 DEF Good, Consistent, HasRecord
<1> QED
  BY <1>2, <1>3

LEMMA DisconnectedKeeps ==
  ASSUME FollowInv, NEW u \in Uuids, NEW label \in Labels[u] \cup {None},
         PeerDisconnected(u, label)
  PROVE  Follows(reg', chan', heard', ready')
<1> DEFINE known == IF Resolve(reg, u) # None THEN Resolve(reg, u)
                    ELSE IF label # None THEN Resolve(reg, label) ELSE None
           id    == IF known # None THEN known ELSE IF label # None THEN label ELSE u
<1>1. /\ chan' = [chan EXCEPT ![u] = "idle"] /\ heard' = heard
      /\ chan \in [Uuids -> ChanStates] /\ ready \subseteq Uuids
      /\ Follows(reg, chan, heard, ready) /\ Good(reg) /\ Named(reg)
  BY DEF PeerDisconnected, FollowInv, OtherTypes, Follows
<1>2. /\ \A k \in Ids : reg.uuid[k] = u => Resolve(reg, u) = k
      /\ Resolve(reg, u) # None => Resolve(reg, u) \in Ids /\ reg.uuid[Resolve(reg, u)] = u
  BY <1>1, ResolveConnection
<1>3. \A v \in Uuids \ {u} : chan'[v] = chan[v]
  BY <1>1
<1>4. \A k \in Ids : HasRecord(reg, k) => reg.uuid[k] \in Uuids
  BY <1>1 DEF Good, Registry, HasRecord
<1>5. label \in Ids \cup {None} /\ u \in Ids /\ u # None /\ None \notin Ids
  BY BridgeAssumption, IdAssumption DEF Ids
<1>6. CASE known # None /\ reg.uuid[known] # u /\ ready' = ready \ {u} /\ reg' = reg
  <2>1. \A k \in Ids : reg.uuid[k] # u
    BY <1>2, <1>5, <1>6
  <2>2. ASSUME NEW k \in Ids PROVE Flags(reg, k, chan', heard, ready \ {u})
    <3>1. Flags(reg, k, chan, heard, ready)
      BY <1>1 DEF Follows
    <3> QED
      BY <1>3, <1>4, <2>1, <3>1 DEF Flags, HasRecord
  <2>3. \A v \in ready \ {u} : chan'[v] \in {"open", "closing"} \/ Rebuilt(v)
    BY <1>1, <1>3 DEF Follows
  <2> QED
    BY <1>1, <1>6, <2>2, <2>3 DEF Follows
<1>7. CASE known # None /\ reg.uuid[known] = u /\ known \notin reg.connected /\ ready' = ready /\ reg' = reg
  <2>1. known \in Ids
    BY <1>1, <1>2, <1>5, <1>7, ResolveFacts
  <2>2. Resolve(reg, u) = known
    BY <1>2, <1>7, <2>1
  <2>3. ASSUME NEW k \in Ids PROVE Flags(reg, k, chan', heard, ready)
    <3>1. Flags(reg, k, chan, heard, ready)
      BY <1>1 DEF Follows
    <3>2. CASE reg.uuid[k] = u
      <4>1. k = known
        BY <1>2, <2>2, <3>2
      <4> QED
        BY <1>1, <1>7, <3>1, <3>2, <4>1 DEF Flags
    <3>3. CASE reg.uuid[k] # u
      BY <1>3, <1>4, <3>1, <3>3 DEF Flags, HasRecord
    <3> QED
      BY <3>2, <3>3
  <2>4. u \in ready => Rebuilt(u)
    BY <1>1, <1>5, <1>7, <2>1 DEF Follows, Flags
  <2>5. \A v \in ready : chan'[v] \in {"open", "closing"} \/ Rebuilt(v)
    BY <1>1, <1>3, <2>4 DEF Follows
  <2> QED
    BY <1>1, <1>7, <2>3, <2>5 DEF Follows
<1>8. CASE /\ known # None => reg.uuid[known] = u /\ known \in reg.connected
           /\ ready' = ready \ {u} /\ reg' = MarkDisconnected(reg, id)
  <2>1. known \in Ids \cup {None}
    BY <1>1, <1>2, <1>5, ResolveFacts
  <2>2. id \in Ids
    BY <1>5, <2>1
  <2>3. Resolve(reg, id) = known
    <3>1. CASE known # None
      BY <1>1, <1>5, <2>1, <3>1, ResolveFacts, <1>8, IdAssumption DEF Resolve, HasRecord
    <3>2. CASE known = None
      BY <1>2, <1>5, <3>2
    <3> QED
      BY <3>1, <3>2
  <2>4. \A k \in Ids : HasRecord(reg, k) /\ k # known => reg.uuid[k] # u
    <3>1. CASE known # None
      BY <1>2, <1>8, <2>1, <3>1
    <3>2. CASE known = None
      BY <1>2, <1>5, <3>2
    <3> QED
      BY <3>1, <3>2
  <2>5. \A k \in Ids : HasRecord(reg, k) /\ k # known =>
          chan'[reg.uuid[k]] = chan[reg.uuid[k]] /\ (reg.uuid[k] \in heard => reg.uuid[k] \in heard')
    BY <1>1, <1>3, <1>4, <2>4
  <2>6. known # None => chan'[reg.uuid[known]] = "idle" /\ reg.uuid[known] \notin ready'
    BY <1>1, <1>8
  <2>7. \A v \in ready' : chan'[v] \in {"open", "closing"} \/ Rebuilt(v)
    BY <1>1, <1>3, <1>8 DEF Follows
  <2>8. PICK gone \in Ids :
          /\ reg' = MarkDisconnected(reg, gone)
          /\ Resolve(reg, gone) # None =>
               LET v == reg.uuid[Resolve(reg, gone)]
               IN chan'[v] \notin {"connected", "open"} /\ (v \in ready' => Rebuilt(v))
          /\ \A k \in Ids : HasRecord(reg, k) /\ k # Resolve(reg, gone) =>
               /\ chan'[reg.uuid[k]] = chan[reg.uuid[k]]
               /\ reg.uuid[k] \in heard => reg.uuid[k] \in heard'
    <3> HIDE DEF known, id
    <3> QED
      BY <1>8, <2>2, <2>3, <2>5, <2>6
  <2>9. ready' \subseteq ready
    BY <1>8
  <2>10. Follows(reg, chan, heard, ready)
    BY <1>1
  <2> QED
    BY <2>7, <2>8, <2>9, <2>10, MarkFollows
<1> QED
  BY <1>6, <1>7, <1>8 DEF PeerDisconnected

LEMMA ReviveKeeps ==
  ASSUME FollowInv, NEW s \in Streams, s \in Revived, Revive(s)
  PROVE  Follows(reg', chan', heard', ready')
<1>1. PICK u : u = reg.uuid[s]
  OBVIOUS
<1>2. /\ chan \in [Uuids -> ChanStates] /\ ready \subseteq Uuids
      /\ Follows(reg, chan, heard, ready) /\ Good(reg) /\ Named(reg)
      /\ s \in Ids /\ s # None /\ u \in Uuids \cup {None} /\ None \notin Uuids
  BY <1>1, IdAssumption DEF FollowInv, OtherTypes, Follows, Good, Registry, Ids
<1>3. /\ reg' = MarkDisconnected(reg, s) /\ heard' = heard \ {u}
      /\ chan' = chan \/ chan' = [chan EXCEPT ![u] = "idle"] \/ chan' = [chan EXCEPT ![u] = "closing"]
      /\ u # None => chan'[u] \notin {"connected", "open"}
      /\ ready' \subseteq ready
  BY <1>1, <1>2 DEF Revive, ChanStates
<1>4. u # None => Rebuilt(u)
  BY <1>1, <1>2 DEF Good, Consistent, Named, HasRecord, Rebuilt
<1>5. \A v \in Uuids \ {u} : chan'[v] = chan[v]
  BY <1>2, <1>3
<1>6. \A k \in Ids : HasRecord(reg, k) => reg.uuid[k] \in Uuids /\ (reg.uuid[k] = u => k = s)
  BY <1>1, <1>2 DEF Good, Consistent, Registry, HasRecord
<1>7. \A v \in ready' : chan'[v] \in {"open", "closing"} \/ Rebuilt(v)
  BY <1>2, <1>3, <1>4, <1>5 DEF Follows
<1>8. CASE u = None
  <2>1. Resolve(reg, s) = None
    BY <1>1, <1>2, <1>8, IdAssumption DEF Resolve, HasRecord
  <2>2. \A k \in Ids : HasRecord(reg, k) =>
          chan'[reg.uuid[k]] = chan[reg.uuid[k]] /\ (reg.uuid[k] \in heard => reg.uuid[k] \in heard')
    BY <1>2, <1>3, <1>5, <1>6, <1>8
  <2> QED
    BY <1>2, <1>3, <1>7, <2>1, <2>2, MarkFollows
<1>9. CASE u # None
  <2>1. Resolve(reg, s) = s
    BY <1>1, <1>9 DEF Resolve, HasRecord
  <2>2. \A k \in Ids : HasRecord(reg, k) /\ k # s =>
          chan'[reg.uuid[k]] = chan[reg.uuid[k]] /\ (reg.uuid[k] \in heard => reg.uuid[k] \in heard')
    BY <1>2, <1>3, <1>5, <1>6
  <2> QED
    BY <1>1, <1>2, <1>3, <1>4, <1>7, <1>9, <2>1, <2>2, MarkFollows
<1> QED
  BY <1>8, <1>9

LEMMA EmptyFollows ==
  ASSUME NEW ch \in [Uuids -> ChanStates], NEW hd
  PROVE  Follows(EmptyRegistry, ch, hd, {})
<1>1. Good(EmptyRegistry) /\ Named(EmptyRegistry)
  BY EmptyGood, IdAssumption DEF EmptyRegistry, Named, HasRecord, Ids
<1> QED
  BY <1>1 DEF Follows, Flags, EmptyRegistry

LEMMA FollowInit == Init => FollowInv
<1>1. Init => OtherTypes
  BY BridgeAssumption DEF Init, OtherTypes, ChanStates
<1> QED
  BY <1>1, EmptyFollows DEF Init, FollowInv, OtherTypes

LEMMA FollowStep == FollowInv /\ [Next]_vars => FollowInv'
<1> SUFFICES ASSUME FollowInv, [Next]_vars PROVE FollowInv'
  OBVIOUS
<1>1. OtherTypes'
  BY OtherTypesStep DEF FollowInv
<1>2. Follows(reg', chan', heard', ready')
  <2>1. ASSUME reg' = reg, chan' = chan, heard' = heard, ready' = ready
        PROVE  Follows(reg', chan', heard', ready')
    BY <2>1 DEF FollowInv
  <2>2. ASSUME NEW t \in Targets, Send(t) PROVE Follows(reg', chan', heard', ready')
    BY <2>1, <2>2 DEF Send, sdkVars
  <2>3. ASSUME NEW u \in Uuids, ConnectionEvent(u) PROVE Follows(reg', chan', heard', ready')
    BY <2>3, ConnectedKeeps, OpenKeeps, DisconnectedKeeps, HeardKeeps, LostKeeps DEF ConnectionEvent
  <2>4. ASSUME NEW s \in Streams, ViewEvent(s) PROVE Follows(reg', chan', heard', ready')
    <3>1. CASE StreamListed(s)
      BY <2>1, <3>1 DEF StreamListed
    <3>2. CASE s \in Revived /\ Revive(s)
      BY <3>2, ReviveKeeps
    <3>3. ASSUME NEW a, ViewSucceeds(s, a) \/ ViewFails(s, a) PROVE Follows(reg', chan', heard', ready')
      BY <2>1, <3>3 DEF ViewSucceeds, ViewFails, bridgeVars
    <3> QED
      BY <2>4, <3>1, <3>2, <3>3 DEF ViewEvent
  <2>5. CASE DisconnectEnds
    <3>1. chan' \in [Uuids -> ChanStates]
      BY <1>1 DEF OtherTypes
    <3> QED
      BY <2>5, <3>1, EmptyFollows DEF DisconnectEnds
  <2>6. CASE Lifecycle /\ ~DisconnectEnds
    BY <2>1, <2>6 DEF Lifecycle, Reconnecting, Reconnected, GraceEnds, DisconnectBegins, Connect, sdkVars
  <2>7. CASE UNCHANGED vars
    BY <2>1, <2>7 DEF vars, bridgeVars, sdkVars
  <2> QED
    BY <2>2, <2>3, <2>4, <2>5, <2>6, <2>7 DEF Next
<1>3. Follows(reg, chan, heard, ready)'
  BY <1>2 DEF Follows, Flags, Good, Named, Registry, Consistent, HasRecord, Rebuilt
<1> QED
  BY <1>1, <1>3 DEF FollowInv

\* connected, announced and the set that gates sendData follow the connection a
\* record leads to, whatever the order of closes, replacements, renames,
\* rebuilds and teardowns, for any number of peers and connections.
THEOREM FlagsFollow == Spec => []FlagsFollowConnection
<1>1. FollowInv => ConnectedTracksChannel
  BY DEF FollowInv, Follows, Flags, ConnectedTracksChannel, HasRecord
<1>2. FollowInv => AnnouncedOnThisConnection
  <2> SUFFICES ASSUME FollowInv, NEW id \in reg.announced \cap reg.connected
               PROVE  reg.uuid[id] \in heard \/ chan[reg.uuid[id]] = "closing"
    BY DEF AnnouncedOnThisConnection
  <2>1. id \in Ids /\ reg.uuid[id] # None
    BY DEF FollowInv, Follows, Good, Registry, Consistent, HasRecord
  <2> QED
    BY <2>1 DEF FollowInv, Follows, Flags
<1>3. FollowInv => ReadyChannelsOpened
  BY DEF FollowInv, Follows, Rebuilt, ReadyChannelsOpened
<1>4. FollowInv => FlagsFollowConnection
  BY <1>1, <1>2, <1>3 DEF FlagsFollowConnection
<1> QED
  BY <1>4, FollowInit, FollowStep, PTL DEF Spec

-----------------------------------------------------------------------------
(* Names.  Where the SDK names a stream for a connection, it is the one    *)
(* its endpoint signs with; an endpoint it names none for may lie.         *)

OneName == \A u \in Uuids : Labels[u] # {} => \E s : Labels[u] = {s} /\ Claims[u] \subseteq {s}

\* No connection leads to another stream in n than in r.
Keeps(r, n) == \A v \in Uuids : (r.stream[v] \in Streams /\ n.stream[v] # None)
                                   => n.stream[v] = r.stream[v]

LEMMA TakesKeeps ==
  ASSUME NEW r, NEW n, NEW u \in Uuids, NEW s \in Ids, Takes(r, n, u, s),
         s \in Uuids => s = u,
         s \in Streams /\ r.stream[u] \in Streams => s = r.stream[u]
  PROVE  Keeps(r, n)
  BY IdAssumption DEF Takes, Keeps, Ids

LEMMA ConnectedKeepsName ==
  ASSUME FollowInv, OneName, NEW u \in Uuids, NEW label \in Labels[u] \cup {None},
         PeerConnected(u, label)
  PROVE  Keeps(reg, reg')
<1>1. PICK s \in Ids : /\ s = IF label = None THEN u ELSE label
                       /\ s \in Uuids => s = u
                       /\ s \in Streams => s \in Labels[u]
  BY BridgeAssumption, IdAssumption DEF Ids
<1>2. reg' = AddPeer(reg, s, u) /\ Good(reg) /\ Named(reg)
  BY <1>1 DEF PeerConnected, FollowInv, Follows
<1>3. s \in Streams /\ reg.stream[u] \in Streams => s = reg.stream[u]
  BY <1>1, <1>2 DEF OneName, Named
<1> QED
  BY <1>1, <1>2, <1>3, AddPeerTakes, TakesKeeps

LEMMA AdoptKeepsName ==
  ASSUME FollowInv, NEW u \in Uuids, NEW from \in Claims[u], chan[u] = "open",
         ~Rejected(reg, u, from)
  PROVE  Keeps(reg, Adopt(reg, u, from))
<1>1. from \in Streams /\ from \in Ids /\ from \notin Uuids
  BY BridgeAssumption, IdAssumption DEF Ids
<1>2. \A id \in Ids : reg.uuid[id] = u => id \in reg.connected
  BY IdAssumption DEF FollowInv, Follows, Flags, Ids
<1>3. Takes(reg, Adopt(reg, u, from), u, from)
  BY <1>1, <1>2, AdoptTakes DEF FollowInv, Follows
<1>4. reg.stream[u] \in Streams => from = reg.stream[u]
  BY IdAssumption DEF Rejected, Ids
<1> QED
  BY <1>1, <1>3, <1>4, TakesKeeps

LEMMA NamesStep == FollowInv /\ OneName /\ [Next]_vars => Keeps(reg, reg')
<1> SUFFICES ASSUME FollowInv, OneName, [Next]_vars PROVE Keeps(reg, reg')
  OBVIOUS
<1>1. ASSUME reg'.stream = reg.stream PROVE Keeps(reg, reg')
  BY <1>1 DEF Keeps
<1>2. \A id : MarkDisconnected(reg, id).stream = reg.stream
  BY DEF MarkDisconnected, FollowInv, Follows, Good, Registry
<1>3. ASSUME NEW t \in Targets, Send(t) PROVE Keeps(reg, reg')
  BY <1>1, <1>3 DEF Send
<1>4. ASSUME NEW u \in Uuids, ConnectionEvent(u) PROVE Keeps(reg, reg')
  <2>1. ASSUME NEW label, DataChannelOpen(u, label) \/ PeerDisconnected(u, label)
        PROVE  Keeps(reg, reg')
    BY <1>1, <1>2, <2>1 DEF DataChannelOpen, PeerDisconnected
  <2>2. CASE ConnectionLost(u)
    BY <1>1, <2>2 DEF ConnectionLost, bridgeVars
  <2>3. ASSUME NEW from \in Claims[u], EnvelopeReceived(u, from) PROVE Keeps(reg, reg')
    BY <2>3, AdoptKeepsName DEF EnvelopeReceived
  <2>4. ASSUME NEW from \in Claims[u], AnnounceReceived(u, from) PROVE Keeps(reg, reg')
    <3>1. CASE Rejected(reg, u, from)
      BY <1>1, <2>4, <3>1 DEF AnnounceReceived
    <3>2. CASE ~Rejected(reg, u, from)
      <4>1. PICK n : n = Adopt(reg, u, from)
        OBVIOUS
      <4>2. Keeps(reg, n) /\ Good(n)
        BY <2>4, <3>2, <4>1, AdoptKeepsName, AdoptGood, BridgeAssumption
        DEF AnnounceReceived, FollowInv, Follows, Ids
      <4>3. reg'.stream = n.stream
        BY <2>4, <3>2, <4>1, <4>2 DEF AnnounceReceived, UpdateFromAnnounce, Good, Registry
      <4> QED
        BY <4>2, <4>3 DEF Keeps
    <3> QED
      BY <3>1, <3>2
  <2> QED
    BY <1>4, <2>1, <2>2, <2>3, <2>4, ConnectedKeepsName DEF ConnectionEvent
<1>5. ASSUME NEW s \in Streams, ViewEvent(s) PROVE Keeps(reg, reg')
  <2>1. ASSUME NEW a, ViewSucceeds(s, a) \/ ViewFails(s, a) PROVE Keeps(reg, reg')
    BY <1>1, <2>1 DEF ViewSucceeds, ViewFails, bridgeVars
  <2>2. CASE StreamListed(s)
    BY <1>1, <2>2 DEF StreamListed
  <2>3. CASE Revive(s)
    BY <1>1, <1>2, <2>3 DEF Revive
  <2> QED
    BY <1>5, <2>1, <2>2, <2>3 DEF ViewEvent
<1>6. CASE DisconnectEnds
  BY <1>6 DEF DisconnectEnds, EmptyRegistry, Keeps
<1>7. CASE Lifecycle /\ ~DisconnectEnds
  BY <1>1, <1>7 DEF Lifecycle, Reconnecting, Reconnected, GraceEnds, DisconnectBegins, Connect
<1>8. CASE UNCHANGED vars
  BY <1>1, <1>8 DEF vars, bridgeVars
<1> QED
  BY <1>3, <1>4, <1>5, <1>6, <1>7, <1>8 DEF Next

\* A connection that spoke for a stream keeps that name while it is mapped: an
\* envelope signed otherwise never switches it, and metadata that arrives late
\* does not rename it, as long as what the SDK says of a connection is the name
\* its endpoint publishes.
THEOREM NamesStay == OneName => (Spec => IdentityPinned)
<1> SUFFICES ASSUME OneName PROVE Spec => IdentityPinned
  OBVIOUS
<1>1. FollowInv /\ [Next]_vars =>
        [\A u \in Uuids : (reg.stream[u] \in Streams /\ reg'.stream[u] # None)
                             => reg'.stream[u] = reg.stream[u]]_vars
  BY NamesStep DEF Keeps
<1> QED
  BY <1>1, FollowInit, FollowStep, PTL DEF Spec, IdentityPinned
=============================================================================
