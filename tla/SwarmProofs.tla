---------------------------- MODULE SwarmProofs ----------------------------
(***************************************************************************)
(* Proofs about the swarm, for any sets of chunks and participants, any    *)
(* pairs that can connect, any limits and any number of mishaps: what is   *)
(* known of a peer is what it holds, and every request holds one slot.     *)
(***************************************************************************)
EXTENDS Swarm, ListFacts, FiniteSetTheorems, TLAPS

\* An order of a finite set names each of its elements once.
LEMMA OrderReaches ==
  ASSUME NEW S, IsFiniteSet(S), NEW order \in SetToSeqs(S)
  PROVE  /\ Len(order) = Cardinality(S) /\ Len(order) \in Nat
         /\ \A i \in 1 .. Len(order) : order[i] \in S
         /\ \A c \in S : \E i \in 1 .. Len(order) : order[i] = c
<1>1. Cardinality(S) \in Nat
  BY FS_CardinalityType
<1>2. order \in [1 .. Cardinality(S) -> S]
  BY DEF SetToSeqs
<1>3. Len(order) = Cardinality(S)
  BY <1>1, <1>2
<1>4. order \in Injection(1 .. Cardinality(S), S)
  BY <1>2 DEF SetToSeqs, Injection, IsInjective
<1>5. Cardinality(1 .. Cardinality(S)) = Cardinality(S)
  BY <1>1, FS_Interval
<1>6. order \in Surjection(1 .. Cardinality(S), S)
  BY <1>4, <1>5, FS_Injection
<1> QED
  BY <1>1, <1>2, <1>3, <1>6 DEF Surjection

(***************************************************************************)
(* The plan of a pump.  Bounded: a table of requests keeps both limits and *)
(* asks only those who are known.                                          *)
(***************************************************************************)
Outstanding(table) == {c \in Chunks : table[c] # None}

Bounded(table, known) ==
  /\ table \in Tables
  /\ \A c \in Chunks : table[c] \in known \cup {None}
  /\ \A m \in Nodes : Cardinality(AskedOf(table, m)) <= PerPeer
  /\ Cardinality(Outstanding(table)) <= Total

LEMMA SomeChunks ==
  ASSUME NEW some \in SUBSET Chunks
  PROVE  IsFiniteSet(some) /\ Cardinality(some) \in Nat
<1>1. IsFiniteSet(some)
  BY PlanAssumption, FS_Subset
<1> QED
  BY <1>1, FS_CardinalityType

\* To give requests up keeps the limits.
LEMMA FewerBounded ==
  ASSUME NEW table, NEW known, Bounded(table, known), NEW fewer \in Tables, NEW others,
         \A c \in Chunks : fewer[c] \in {table[c], None} /\ fewer[c] \in others \cup {None}
  PROVE  Bounded(fewer, others)
<1>1. ASSUME NEW m \in Nodes
      PROVE  Cardinality(AskedOf(fewer, m)) <= PerPeer
  <2>1. AskedOf(fewer, m) \in SUBSET AskedOf(table, m) /\ AskedOf(table, m) \in SUBSET Chunks
    BY PlanAssumption DEF AskedOf
  <2>2. Cardinality(AskedOf(fewer, m)) <= Cardinality(AskedOf(table, m))
    BY <2>1, SomeChunks, FS_Subset
  <2>3. Cardinality(AskedOf(table, m)) <= PerPeer
    BY DEF Bounded
  <2>4. AskedOf(fewer, m) \in SUBSET Chunks
    BY <2>1
  <2> QED
    BY <2>1, <2>2, <2>3, <2>4, SomeChunks, PlanAssumption
<1>2. Cardinality(Outstanding(fewer)) <= Total
  <2>1. Outstanding(fewer) \in SUBSET Outstanding(table) /\ Outstanding(table) \in SUBSET Chunks
    BY DEF Outstanding
  <2>2. Cardinality(Outstanding(fewer)) <= Cardinality(Outstanding(table))
    BY <2>1, SomeChunks, FS_Subset
  <2>3. Outstanding(fewer) \in SUBSET Chunks
    BY <2>1
  <2> QED
    BY <2>1, <2>2, <2>3, SomeChunks, PlanAssumption DEF Bounded
<1> QED
  BY <1>1, <1>2 DEF Bounded

\* A set of chunks that is another with one chunk more.
LEMMA OneMore ==
  ASSUME NEW before \in SUBSET Chunks, NEW after \in SUBSET Chunks, NEW c,
         after \subseteq before \cup {c}, NEW limit \in Nat, Cardinality(before) < limit
  PROVE  Cardinality(after) <= limit
<1>1. IsFiniteSet(before) /\ Cardinality(before) \in Nat /\ Cardinality(after) \in Nat
  BY SomeChunks
<1>2. IsFiniteSet(before \cup {c}) /\ Cardinality(before \cup {c}) <= Cardinality(before) + 1
  <2>1. IsFiniteSet(before)
    BY <1>1
  <2>2. /\ IsFiniteSet(before \cup {c})
        /\ Cardinality(before \cup {c}) =
             IF c \in before THEN Cardinality(before) ELSE Cardinality(before) + 1
    BY <2>1, FS_AddElement
  <2> QED
    BY <1>1, <2>2
<1>3. Cardinality(before \cup {c}) \in Nat
  BY <1>2, FS_CardinalityType
<1>4. Cardinality(after) <= Cardinality(before \cup {c})
  BY <1>2, FS_Subset
<1> QED
  BY <1>1, <1>2, <1>3, <1>4

\* A pass over the candidates: every choice finds both limits not reached.
Earlier(table, ask, order, k) == Asking(table, ask, {order[i] : i \in 1 .. k - 1})

Busy(table, held) == UNION {AskedOf(table, p) : p \in DOMAIN held}

LEMMA ChoiceHasRoom ==
  ASSUME NEW ask, NEW table, NEW order, NEW held, NEW fails,
         Follows(ask, table, order, held, fails),
         NEW k \in 1 .. Len(order), ask[order[k]] # None
  PROVE  /\ Cardinality(Busy(Earlier(table, ask, order, k), held)) < Total
         /\ Cardinality(AskedOf(Earlier(table, ask, order, k), ask[order[k]])) < PerPeer
<1> DEFINE before == Earlier(table, ask, order, k)
           choices == Askable(order[k], before, held, fails)
<1>1. IF Cardinality(Busy(before, held)) < Total /\ choices # {}
      THEN ask[order[k]] \in choices ELSE ask[order[k]] = None
  BY DEF Follows, Earlier, Busy
<1>2. Cardinality(Busy(before, held)) < Total /\ ask[order[k]] \in choices
  BY <1>1
<1> QED
  BY <1>2 DEF Askable

LEMMA PlanBounded ==
  ASSUME NEW mine, NEW held, DOMAIN held \subseteq Nodes, NEW table,
         Bounded(table, DOMAIN held), NEW fails, NEW plan \in Plans(mine, held, table, fails)
  PROVE  /\ Bounded(plan, DOMAIN held)
         /\ \A c \in Chunks : plan[c] = table[c] \/ (table[c] = None /\ c \notin mine)
<1> DEFINE new == Candidates(mine, held, table)
<1>1. PICK order \in SetToSeqs(new), ask \in [new -> DOMAIN held \cup {None}] :
        Follows(ask, table, order, held, fails) /\ plan = Asking(table, ask, new)
  BY DEF Plans
<1>2. /\ new \in SUBSET Chunks
      /\ \A c \in new : table[c] = None /\ c \notin mine
  BY DEF Candidates
<1> HIDE DEF new
<1>3. IsFiniteSet(new)
  BY <1>2, SomeChunks
<1>4. /\ Len(order) \in Nat
      /\ \A i \in 1 .. Len(order) : order[i] \in new
      /\ \A c \in new : \E i \in 1 .. Len(order) : order[i] = c
  BY <1>1, <1>3, OrderReaches
<1>5. /\ plan \in Tables
      /\ \A c \in Chunks : plan[c] = IF c \in new THEN ask[c] ELSE table[c]
      /\ \A c \in Chunks : plan[c] \in DOMAIN held \cup {None}
  BY <1>1, <1>2 DEF Asking, Tables, Bounded
<1>6. ASSUME NEW k \in 1 .. Len(order), NEW c \in Chunks
      PROVE  LET before == Earlier(table, ask, order, k)
             IN  /\ before[c] = IF \E i \in 1 .. k - 1 : order[i] = c THEN ask[c] ELSE table[c]
                 /\ before \in Tables /\ before[c] \in DOMAIN held \cup {None}
  <2>1. {order[i] : i \in 1 .. k - 1} \subseteq new
    BY <1>4
  <2> QED
    BY <1>1, <1>2, <2>1 DEF Earlier, Asking, Tables, Bounded
<1>7. ASSUME NEW k \in 1 .. Len(order), NEW c \in Chunks, c # order[k],
             \A j \in 1 .. Len(order) : ask[order[j]] = plan[c] => j <= k
      PROVE  Earlier(table, ask, order, k)[c] = plan[c]
  <2>1. CASE c \in new
    <3>1. PICK j \in 1 .. Len(order) : order[j] = c
      BY <1>4, <2>1
    <3>2. j \in 1 .. k - 1
      BY <1>4, <1>5, <1>7, <2>1, <3>1
    <3> QED
      BY <1>5, <1>6, <2>1, <3>1, <3>2
  <2>2. CASE c \notin new
    <3>1. ~ \E i \in 1 .. k - 1 : order[i] = c
      BY <1>4, <2>2
    <3> QED
      BY <1>5, <1>6, <2>2, <3>1
  <2> QED
    BY <2>1, <2>2
<1>8. ASSUME NEW m \in Nodes
      PROVE  Cardinality(AskedOf(plan, m)) <= PerPeer
  <2> DEFINE Mine == {k \in 1 .. Len(order) : ask[order[k]] = m}
  <2>1. AskedOf(plan, m) \in SUBSET Chunks /\ AskedOf(table, m) \in SUBSET Chunks
    BY DEF AskedOf
  <2>2. CASE Mine = {}
    <3>1. AskedOf(plan, m) \in SUBSET AskedOf(table, m)
      BY <1>4, <1>5, <2>2 DEF AskedOf
    <3>2. Cardinality(AskedOf(plan, m)) <= Cardinality(AskedOf(table, m))
      BY <2>1, <3>1, SomeChunks, FS_Subset
    <3>3. Cardinality(AskedOf(table, m)) <= PerPeer
      BY DEF Bounded
    <3> QED
      BY <2>1, <3>2, <3>3, SomeChunks, PlanAssumption
  <2>3. CASE Mine # {}
    <3>1. PICK k \in Mine : \A j \in Mine : j <= k
      BY <1>4, <2>3, SomeLast
    <3> DEFINE before == AskedOf(Earlier(table, ask, order, k), m)
    <3>2. before \in SUBSET Chunks
      BY DEF AskedOf
    <3>3. Cardinality(before) < PerPeer
      BY <1>1, <3>1, ChoiceHasRoom, PlanAssumption
    <3>4. AskedOf(plan, m) \subseteq before \cup {order[k]}
      BY <1>7, <3>1 DEF AskedOf
    <3> HIDE DEF before
    <3> QED
      BY <2>1, <3>2, <3>3, <3>4, OneMore, PlanAssumption
  <2> QED
    BY <2>2, <2>3
<1>9. Cardinality(Outstanding(plan)) <= Total
  <2> DEFINE Chosen == {k \in 1 .. Len(order) : ask[order[k]] # None}
  <2>1. Outstanding(plan) \in SUBSET Chunks /\ Outstanding(table) \in SUBSET Chunks
    BY DEF Outstanding
  <2>2. CASE Chosen = {}
    <3>1. Outstanding(plan) \in SUBSET Outstanding(table)
      BY <1>4, <1>5, <2>2 DEF Outstanding
    <3>2. Cardinality(Outstanding(plan)) <= Cardinality(Outstanding(table))
      BY <2>1, <3>1, SomeChunks, FS_Subset
    <3>3. Cardinality(Outstanding(table)) <= Total
      BY DEF Bounded
    <3> QED
      BY <2>1, <3>2, <3>3, SomeChunks, PlanAssumption
  <2>3. CASE Chosen # {}
    <3>1. PICK k \in Chosen : \A j \in Chosen : j <= k
      BY <1>4, <2>3, SomeLast
    <3> DEFINE before == Busy(Earlier(table, ask, order, k), held)
    <3>2. before \in SUBSET Chunks
      BY DEF AskedOf, Busy
    <3>3. Cardinality(before) < Total
      BY <1>1, <3>1, ChoiceHasRoom
    <3>4. ASSUME NEW c \in Outstanding(plan), c # order[k]
          PROVE  c \in before
      <4>1. Earlier(table, ask, order, k)[c] = plan[c]
        BY <1>7, <2>1, <3>1, <3>4 DEF Outstanding
      <4>2. plan[c] \in DOMAIN held
        BY <1>5, <2>1 DEF Outstanding
      <4> QED
        BY <2>1, <4>1, <4>2 DEF AskedOf, Busy
    <3> HIDE DEF before
    <3>5. Outstanding(plan) \subseteq before \cup {order[k]}
      BY <3>4
    <3> QED
      BY <2>1, <3>2, <3>3, <3>5, OneMore, PlanAssumption
  <2> QED
    BY <2>2, <2>3
<1>10. Bounded(plan, DOMAIN held)
  BY <1>5, <1>8, <1>9 DEF Bounded
<1> QED
  BY <1>2, <1>5, <1>10

(***************************************************************************)
(* What is known of a peer.  Chunks are only ever added to what is held,   *)
(* and only what is held is announced, with the news as with the whole.    *)
(***************************************************************************)
Knowing == [Nodes -> [Nodes -> {Unknown} \cup SUBSET Chunks]]

Sound(k, held) == \A n, m \in Nodes : k[n][m] = Unknown \/ k[n][m] \subseteq held[m]

KnowInv ==
  /\ have \in [Nodes -> SUBSET Chunks] /\ news \in [Nodes -> SUBSET Chunks]
  /\ know \in Knowing /\ Sound(know, have)
  /\ \A n \in Nodes : news[n] \subseteq have[n]

LEMMA KnowStarts == Init => KnowInv
BY SwarmAssumption DEF Init, KnowInv, Knowing, Sound

LEMMA WithoutTable ==
  ASSUME NEW S, NEW t \in [Nodes -> [Nodes -> S]], NEW removed, NEW v \in S
  PROVE  /\ Without(t, removed, v) \in [Nodes -> [Nodes -> S]]
         /\ \A n, m \in Nodes :
              Without(t, removed, v)[n][m] = IF <<n, m>> \in removed THEN v ELSE t[n][m]
BY DEF Without

\* To forget peers keeps the rest.
LEMMA ForgettingSound ==
  ASSUME NEW k \in Knowing, NEW held, Sound(k, held), NEW removed
  PROVE  Without(k, removed, Unknown) \in Knowing /\ Sound(Without(k, removed, Unknown), held)
<1>1. /\ Without(k, removed, Unknown) \in Knowing
      /\ \A n, m \in Nodes :
           Without(k, removed, Unknown)[n][m] = IF <<n, m>> \in removed THEN Unknown ELSE k[n][m]
  BY DEF Knowing, Without
<1> QED
  BY <1>1 DEF Sound

LEMMA AnnouncedSound ==
  ASSUME have \in [Nodes -> SUBSET Chunks], NEW held \in [Nodes -> SUBSET Chunks],
         \A p \in Nodes : have[p] \subseteq held[p],
         NEW k \in Knowing, Sound(k, held), NEW n \in Nodes,
         NEW h \in SUBSET Chunks, h \subseteq held[n], NEW audience, NEW helpers
  PROVE  /\ Announced(k, n, h, audience, helpers) \in Knowing
         /\ Sound(Announced(k, n, h, audience, helpers), held)
         /\ \A m, p \in Nodes : k[m][p] # Unknown => Announced(k, n, h, audience, helpers)[m][p] # Unknown
<1> DEFINE after == Announced(k, n, h, audience, helpers)
<1>1. \A m, p \in Nodes :
        after[m][p] = IF m = n THEN IF p \in helpers THEN have[p] ELSE k[m][p]
                      ELSE IF m \in audience /\ p = n THEN h ELSE k[m][p]
  BY DEF Announced, Bitfield, Knowing
<1>2. after \in Knowing
  BY DEF Announced, Bitfield, Knowing
<1>3. \A p \in Nodes : have[p] # Unknown
  BY SwarmAssumption
<1>4. h # Unknown
  BY SwarmAssumption
<1> HIDE DEF after
<1>5. Sound(after, held)
  BY <1>1 DEF Sound
<1>6. \A m, p \in Nodes : k[m][p] # Unknown => after[m][p] # Unknown
  BY <1>1, <1>3, <1>4
<1> QED
  BY <1>2, <1>5, <1>6 DEF after

\* The steps that say nothing new.
LEMMA KnowUnchanged ==
  ASSUME KnowInv, UNCHANGED <<have, know, news>>
  PROVE  KnowInv'
BY DEF KnowInv, Knowing, Sound

LEMMA RemovalKnown ==
  ASSUME KnowInv, NEW removed, Removed(removed), UNCHANGED have,
         \A n \in Nodes : news'[n] \subseteq news[n], news' \in [Nodes -> SUBSET Chunks]
  PROVE  KnowInv'
<1>1. know' \in Knowing /\ Sound(know', have)
  BY ForgettingSound DEF KnowInv, Removed
<1> QED
  BY <1>1 DEF KnowInv

LEMMA AnnounceKnown ==
  ASSUME KnowInv, NEW n \in Nodes, NEW helpers,
         know' = Announced(know, n, Bitfield(n), Linked(n, "up"), helpers),
         UNCHANGED <<have, news>>
  PROVE  KnowInv'
<1>1. know' \in Knowing /\ Sound(know', have)
  BY AnnouncedSound DEF KnowInv, Bitfield
<1> QED
  BY <1>1 DEF KnowInv

LEMMA ConnectionKnown ==
  ASSUME KnowInv, NEW n \in Nodes, NEW m \in Nodes, Connects(n, m)
  PROVE  KnowInv'
<1>1. know' = [k \in Nodes |-> [p \in Nodes |->
                IF {k, p} = {n, m} /\ have[p] # {} THEN have[p] ELSE know[k][p]]]
  BY DEF Connects, Bitfield
<1>2. know' \in Knowing
  <2>1. /\ \A p \in Nodes : have[p] \in SUBSET Chunks
        /\ \A k, p \in Nodes : know[k][p] \in {Unknown} \cup SUBSET Chunks
    BY DEF KnowInv, Knowing
  <2> QED
    BY <1>1, <2>1 DEF Knowing
<1>3. \A k, p \in Nodes : know'[k][p] \in {have[p], know[k][p]}
  BY <1>1
<1>4. Sound(know', have)
  BY <1>3 DEF KnowInv, Sound
<1> QED
  BY <1>2, <1>4 DEF KnowInv, Connects

\* The news of a pump: those who hear it know more of the same peer.
LEMMA NewsKnown ==
  ASSUME KnowInv, NEW n \in Nodes, Pump(n)
  PROVE  KnowInv'
<1> DEFINE told  == PeersMissingAnything(n)
           heard == [m \in Nodes |->
                       IF m \notin told THEN know[m]
                       ELSE [know[m] EXCEPT ![n] = WithNews(@, news[n])]]
<1>1. PICK gone : know' = Without(heard, gone, Unknown)
  BY DEF Pump
<1>2. news' = [news EXCEPT ![n] = {}] /\ have' = have
  BY DEF Pump
<1>3. heard \in Knowing
  BY DEF KnowInv, Knowing, WithNews
<1>4. \A m, p \in Nodes :
        \/ heard[m][p] = know[m][p]
        \/ p = n /\ heard[m][p] = WithNews(know[m][p], news[n])
  BY DEF KnowInv, Knowing
<1>5. \A m \in Nodes : WithNews(know[m][n], news[n]) \subseteq have[n]
  BY DEF KnowInv, Sound, WithNews
<1> HIDE DEF heard
<1>6. Sound(heard, have)
  BY <1>4, <1>5 DEF KnowInv, Sound
<1>7. know' \in Knowing /\ Sound(know', have)
  BY <1>1, <1>3, <1>6, ForgettingSound
<1> QED
  BY <1>2, <1>7 DEF KnowInv

LEMMA StoredKnown ==
  ASSUME KnowInv, NEW m \in Nodes, NEW n \in Nodes, NEW c \in Chunks, ChunkStored(m, n, c)
  PROVE  KnowInv'
<1>1. /\ have' = [have EXCEPT ![n] = @ \cup {c}] /\ know' = know
      /\ news' = [news EXCEPT ![n] = @ \cup {c}]
  BY DEF ChunkStored
<1>2. \A p \in Nodes : have[p] \subseteq have'[p]
  BY <1>1 DEF KnowInv
<1>3. Sound(know, have')
  BY <1>2 DEF KnowInv, Sound
<1> QED
  BY <1>1, <1>3 DEF KnowInv

\* The whole file is announced by a session that starts anew.
LEMMA LastStoredKnown ==
  ASSUME KnowInv, NEW m \in Nodes, NEW n \in Nodes, NEW c, LastChunkStored(m, n, c)
  PROVE  KnowInv'
<1> DEFINE anew == [know EXCEPT ![n] = [p \in Nodes |-> Unknown]]
<1>1. /\ have' = [have EXCEPT ![n] = Chunks] /\ news' = [news EXCEPT ![n] = {}]
      /\ know' = Announced(anew, n, Chunks, Linked(n, "up"), {})
  BY DEF LastChunkStored
<1>2. /\ have' \in [Nodes -> SUBSET Chunks] /\ Chunks \subseteq have'[n]
      /\ \A p \in Nodes : have[p] \subseteq have'[p]
  BY <1>1 DEF KnowInv
<1>3. anew \in Knowing
  BY DEF KnowInv, Knowing
<1>4. \A k, p \in Nodes : anew[k][p] \in {Unknown, know[k][p]}
  BY DEF KnowInv, Knowing
<1> HIDE DEF anew
<1>5. Sound(anew, have')
  BY <1>2, <1>4 DEF KnowInv, Sound
<1>6. know' \in Knowing /\ Sound(know', have')
  BY <1>1, <1>2, <1>3, <1>5, AnnouncedSound DEF KnowInv
<1> QED
  BY <1>1, <1>2, <1>6 DEF KnowInv

LEMMA KnowKept ==
  ASSUME KnowInv, [Next]_vars, answers \subseteq Nodes \X Nodes \X Chunks
  PROVE  KnowInv'
<1>1. CASE UNCHANGED vars
  BY <1>1, KnowUnchanged DEF vars, session
<1>2. ASSUME NEW n \in Nodes, Announce(n)
      PROVE  KnowInv'
  BY <1>2, AnnounceKnown DEF Announce
<1>3. ASSUME NEW n \in Nodes, Pump(n)
      PROVE  KnowInv'
  BY <1>3, NewsKnown
<1>4. ASSUME NEW n \in Nodes, Leaves(n)
      PROVE  KnowInv'
  BY <1>4, RemovalKnown DEF Leaves, KnowInv
<1>5. ASSUME NEW n \in Nodes, Restarts(n)
      PROVE  KnowInv'
  <2>1. \A m \in Nodes : news'[m] \subseteq news[m]
    BY <1>5 DEF Restarts, KnowInv
  <2>2. news' \in [Nodes -> SUBSET Chunks]
    BY <1>5 DEF Restarts, KnowInv
  <2> QED
    BY <1>5, <2>1, <2>2, RemovalKnown DEF Restarts
<1>6. ASSUME NEW n \in Nodes, SignallingReconnects(n)
      PROVE  KnowInv'
  BY <1>6, AnnounceKnown DEF SignallingReconnects
<1>7. ASSUME NEW n \in Nodes, NEW c \in Chunks, TimesOut(n, c)
      PROVE  KnowInv'
  BY <1>7, KnowUnchanged DEF TimesOut
<1>8. ASSUME NEW n \in Nodes, NEW m \in Nodes, Connects(n, m)
      PROVE  KnowInv'
  BY <1>8, ConnectionKnown
<1>9. ASSUME NEW n \in Nodes, NEW m \in Nodes, ConnectionCloses(n, m)
      PROVE  KnowInv'
  BY <1>9, RemovalKnown DEF ConnectionCloses, KnowInv
<1>10. ASSUME NEW n \in Nodes, NEW m \in Nodes, GoesSilent(n, m) \/ CooldownEnds(n, m)
       PROVE  KnowInv'
  BY <1>10, KnowUnchanged DEF GoesSilent, CooldownEnds, session
<1>11. ASSUME NEW a \in answers, ChunkArrives(a[1], a[2], a[3])
       PROVE  KnowInv'
  <2>1. a[1] \in Nodes /\ a[2] \in Nodes /\ a[3] \in Chunks
    OBVIOUS
  <2>2. CASE ChunkIgnored(a[1], a[2], a[3]) \/ ChunkRejected(a[1], a[2], a[3])
             \/ ChunkUnstored(a[1], a[2], a[3])
    BY <2>2, KnowUnchanged DEF ChunkIgnored, ChunkRejected, ChunkUnstored, session
  <2>3. CASE ChunkStored(a[1], a[2], a[3])
    BY <2>1, <2>3, StoredKnown
  <2>4. CASE LastChunkStored(a[1], a[2], a[3])
    BY <2>1, <2>4, LastStoredKnown
  <2> QED
    BY <1>11, <2>2, <2>3, <2>4 DEF ChunkArrives
<1> QED
  BY <1>1, <1>2, <1>3, <1>4, <1>5, <1>6, <1>7, <1>8, <1>9, <1>10, <1>11 DEF Next

(***************************************************************************)
(* The requests.  Only a pump asks for more, by its plan; every other step *)
(* leaves the requests or gives some up.                                   *)
(***************************************************************************)
Wanted(n, c) == know[n][asked[n][c]] # Unknown /\ c \notin have[n]

RequestInv ==
  /\ asked \in [Nodes -> Tables] /\ due \in [Nodes -> SUBSET Chunks]
  /\ \A n \in Nodes : Bounded(asked[n], Nodes) /\ due[n] \subseteq Outstanding(asked[n])
  /\ \A n \in Nodes, c \in Chunks : asked[n][c] # None => Wanted(n, c)

LEMMA RequestsStart == Init => RequestInv
<1> SUFFICES ASSUME Init PROVE RequestInv
  OBVIOUS
<1>1. /\ asked = [n \in Nodes |-> [c \in Chunks |-> None]]
      /\ due = [n \in Nodes |-> {}]
  BY DEF Init
<1>2. ASSUME NEW n \in Nodes
      PROVE  Bounded(asked[n], Nodes)
  <2>1. asked[n] \in Tables /\ \A c \in Chunks : asked[n][c] = None
    BY <1>1 DEF Tables
  <2>2. \A m \in Nodes : AskedOf(asked[n], m) = {}
    BY <2>1, PlanAssumption DEF AskedOf
  <2>3. Outstanding(asked[n]) = {}
    BY <2>1 DEF Outstanding
  <2> QED
    BY <2>1, <2>2, <2>3, FS_EmptySet, PlanAssumption DEF Bounded
<1>3. asked \in [Nodes -> Tables]
  BY <1>1 DEF Tables
<1> QED
  BY <1>1, <1>2, <1>3 DEF RequestInv

\* Requests no more than in some tables that keep the limits.
LEMMA RequestsWithin ==
  ASSUME NEW tables \in [Nodes -> Tables], \A n \in Nodes : Bounded(tables[n], Nodes),
         asked' \in [Nodes -> Tables], due' \in [Nodes -> SUBSET Chunks],
         \A n \in Nodes, c \in Chunks : asked'[n][c] \in {tables[n][c], None},
         \A n \in Nodes, c \in Chunks : asked'[n][c] # None => Wanted(n, c)',
         \A n \in Nodes : due'[n] \subseteq Outstanding(asked'[n])
  PROVE  RequestInv'
<1>1. ASSUME NEW n \in Nodes
      PROVE  Bounded(asked'[n], Nodes)
  <2>1. asked'[n] \in Tables /\ Bounded(tables[n], Nodes)
    OBVIOUS
  <2>2. \A c \in Chunks : asked'[n][c] \in {tables[n][c], None} /\ asked'[n][c] \in Nodes \cup {None}
    BY <2>1 DEF Tables
  <2> QED
    BY <2>1, <2>2, FewerBounded
<1> QED
  BY <1>1 DEF RequestInv

\* The steps that ask for nothing and forget nobody.
LEMMA RequestsUnchanged ==
  ASSUME RequestInv, UNCHANGED <<asked, have>>, due' \in [Nodes -> SUBSET Chunks],
         \A n \in Nodes : due'[n] \subseteq Outstanding(asked[n]),
         \A n, m \in Nodes : know[n][m] # Unknown => know'[n][m] # Unknown
  PROVE  RequestInv'
<1>1. \A n \in Nodes, c \in Chunks : asked[n][c] # None => asked[n][c] \in Nodes
  BY DEF RequestInv, Tables
<1>2. \A n \in Nodes, c \in Chunks : asked'[n][c] # None => Wanted(n, c)'
  BY <1>1 DEF RequestInv, Wanted
<1> QED
  BY <1>2, RequestsWithin DEF RequestInv

LEMMA FreedTables ==
  ASSUME NEW tables \in [Nodes -> Tables], NEW removed
  PROVE  /\ Freed(tables, removed) \in [Nodes -> Tables]
         /\ \A n \in Nodes, c \in Chunks :
              Freed(tables, removed)[n][c] =
                IF <<n, tables[n][c]>> \in removed THEN None ELSE tables[n][c]
BY DEF Freed, Tables

LEMMA DueOutstanding ==
  ASSUME NEW d \in [Nodes -> SUBSET Chunks], NEW tables
  PROVE  /\ StillDue(d, tables) \in [Nodes -> SUBSET Chunks]
         /\ \A n \in Nodes : StillDue(d, tables)[n] \subseteq Outstanding(tables[n])
BY DEF StillDue, Outstanding

LEMMA RemovalRequests ==
  ASSUME KnowInv, RequestInv, NEW removed, Removed(removed), UNCHANGED have
  PROVE  RequestInv'
<1>1. /\ asked' \in [Nodes -> Tables]
      /\ \A n \in Nodes, c \in Chunks :
           asked'[n][c] = IF <<n, asked[n][c]>> \in removed THEN None ELSE asked[n][c]
  BY FreedTables DEF RequestInv, Removed
<1>2. \A n, m \in Nodes : know'[n][m] = IF <<n, m>> \in removed THEN Unknown ELSE know[n][m]
  BY DEF Removed, Without
<1>3. /\ due' \in [Nodes -> SUBSET Chunks]
      /\ \A n \in Nodes : due'[n] \subseteq Outstanding(asked'[n])
  BY DueOutstanding DEF RequestInv, Removed
<1>4. ASSUME NEW n \in Nodes, NEW c \in Chunks, asked'[n][c] # None
      PROVE  Wanted(n, c)'
  <2>1. asked'[n][c] = asked[n][c] /\ <<n, asked[n][c]>> \notin removed
    BY <1>1, <1>4
  <2>2. asked[n][c] \in Nodes
    BY <1>4, <2>1 DEF RequestInv, Tables
  <2> QED
    BY <1>2, <1>4, <2>1, <2>2 DEF RequestInv, Wanted
<1>5. asked \in [Nodes -> Tables] /\ \A n \in Nodes : Bounded(asked[n], Nodes)
  BY DEF RequestInv
<1>6. \A n \in Nodes, c \in Chunks : asked'[n][c] \in {asked[n][c], None}
  BY <1>1
<1> QED
  BY <1>1, <1>3, <1>4, <1>5, <1>6, RequestsWithin

LEMMA AbandonedRequests ==
  ASSUME KnowInv, RequestInv, NEW n \in Nodes, SignallingReconnects(n)
  PROVE  RequestInv'
<1> DEFINE empty == [c \in Chunks |-> None]
<1>1. /\ asked' = [asked EXCEPT ![n] = empty] /\ due' = [due EXCEPT ![n] = {}] /\ have' = have
  BY DEF SignallingReconnects, AbandonInFlight
<1>2. \A k, p \in Nodes : know[k][p] # Unknown => know'[k][p] # Unknown
  <2>1. PICK helpers : know' = Announced(know, n, Bitfield(n), Linked(n, "up"), helpers)
    BY DEF SignallingReconnects
  <2> QED
    BY <2>1, AnnouncedSound DEF KnowInv, Bitfield
<1>3. empty \in Tables /\ \A c \in Chunks : empty[c] = None
  BY DEF Tables
<1> HIDE DEF empty
<1>4. asked' \in [Nodes -> Tables] /\ due' \in [Nodes -> SUBSET Chunks]
  BY <1>1, <1>3 DEF RequestInv
<1>5. \A k \in Nodes, c \in Chunks : asked'[k][c] = IF k = n THEN None ELSE asked[k][c]
  BY <1>1, <1>3 DEF RequestInv
<1>6. ASSUME NEW k \in Nodes, NEW c \in Chunks, asked'[k][c] # None
      PROVE  Wanted(k, c)'
  <2>1. asked'[k][c] = asked[k][c] /\ asked[k][c] \in Nodes
    BY <1>5, <1>6 DEF RequestInv, Tables
  <2>2. Wanted(k, c)
    BY <1>6, <2>1 DEF RequestInv
  <2> QED
    BY <1>1, <1>2, <2>1, <2>2 DEF Wanted
<1>7. \A k \in Nodes : due'[k] \subseteq Outstanding(asked'[k])
  BY <1>1, <1>3, <1>5 DEF RequestInv, Outstanding
<1> QED
  BY <1>4, <1>5, <1>6, <1>7, RequestsWithin DEF RequestInv

\* A chunk that came frees its request only.
LEMMA ArrivalRequests ==
  ASSUME RequestInv, NEW n \in Nodes, NEW c \in Chunks, UNCHANGED know,
         \/ asked' = asked
         \/ asked' = [asked EXCEPT ![n] = [@ EXCEPT ![c] = None]],
         due' \in [Nodes -> SUBSET Chunks],
         \A k \in Nodes : due'[k] \subseteq Outstanding(asked'[k]),
         have \in [Nodes -> SUBSET Chunks],
         \/ have' = have
         \/ have' = [have EXCEPT ![n] = @ \cup {c}] /\ asked'[n][c] = None
  PROVE  RequestInv'
<1>1. asked' \in [Nodes -> Tables]
  <2>1. asked[n] \in [Chunks -> Nodes \cup {None}]
    BY DEF RequestInv, Tables
  <2>2. [asked[n] EXCEPT ![c] = None] \in Tables
    BY <2>1 DEF Tables
  <2> QED
    BY <2>2 DEF RequestInv
<1>2. \A k \in Nodes, d \in Chunks : asked'[k][d] \in {asked[k][d], None}
  BY DEF RequestInv, Tables
<1>3. ASSUME NEW k \in Nodes, NEW d \in Chunks, asked'[k][d] # None
      PROVE  Wanted(k, d)'
  <2>1. asked'[k][d] = asked[k][d] /\ Wanted(k, d)
    BY <1>2, <1>3 DEF RequestInv
  <2>2. d \notin have'[k]
    BY <1>3, <2>1 DEF Wanted
  <2> QED
    BY <2>1, <2>2 DEF Wanted
<1> QED
  BY <1>1, <1>2, <1>3, RequestsWithin DEF RequestInv

\* The session that seeds the whole file asks for nothing.
LEMMA LastRequests ==
  ASSUME KnowInv, RequestInv, NEW m \in Nodes, NEW n \in Nodes, NEW c, LastChunkStored(m, n, c)
  PROVE  RequestInv'
<1> DEFINE anew  == [know EXCEPT ![n] = [p \in Nodes |-> Unknown]]
           empty == [d \in Chunks |-> None]
<1>1. /\ have' = [have EXCEPT ![n] = Chunks]
      /\ asked' = [asked EXCEPT ![n] = empty] /\ due' = [due EXCEPT ![n] = {}]
      /\ know' = Announced(anew, n, Chunks, Linked(n, "up"), {})
  BY DEF LastChunkStored
<1>2. \A k, p \in Nodes :
        k # n /\ know[k][p] # Unknown => know'[k][p] # Unknown
  BY <1>1, SwarmAssumption DEF Announced, KnowInv, Knowing
<1>3. empty \in Tables /\ \A d \in Chunks : empty[d] = None
  BY DEF Tables
<1> HIDE DEF empty, anew
<1>4. asked' \in [Nodes -> Tables] /\ due' \in [Nodes -> SUBSET Chunks]
  BY <1>1, <1>3 DEF RequestInv
<1>5. \A k \in Nodes, d \in Chunks : asked'[k][d] = IF k = n THEN None ELSE asked[k][d]
  BY <1>1, <1>3 DEF RequestInv
<1>6. ASSUME NEW k \in Nodes, NEW d \in Chunks, asked'[k][d] # None
      PROVE  Wanted(k, d)'
  <2>1. k # n /\ asked'[k][d] = asked[k][d] /\ asked[k][d] \in Nodes
    BY <1>5, <1>6 DEF RequestInv, Tables
  <2>2. Wanted(k, d) /\ have'[k] = have[k]
    BY <1>1, <1>6, <2>1 DEF RequestInv, KnowInv
  <2> QED
    BY <1>2, <2>1, <2>2 DEF Wanted
<1>7. \A k \in Nodes : due'[k] \subseteq Outstanding(asked'[k])
  BY <1>1, <1>3, <1>5 DEF RequestInv, Outstanding
<1> QED
  BY <1>4, <1>5, <1>6, <1>7, RequestsWithin DEF RequestInv

\* The table of requests before anybody is removed: what stays of the old ones,
\* and of the plan what could be sent.
PumpedTable(n, free, plan) ==
  [c \in Chunks |-> IF c \in Requested(n, free, plan) THEN plan[c] ELSE free[c]]

LEMMA PumpTable ==
  ASSUME KnowInv, RequestInv, NEW n \in Nodes, NEW fails,
         NEW free \in Tables, \A c \in Chunks : free[c] \in {asked[n][c], None},
         NEW plan \in Plans(have[n], [m \in Known(n) |-> know[n][m]], free, fails)
  PROVE  LET table == PumpedTable(n, free, plan)
         IN  /\ table \in Tables /\ Bounded(table, Nodes) /\ plan \in Tables
             /\ \A c \in Chunks : table[c] # None => know[n][table[c]] # Unknown /\ c \notin have[n]
<1> DEFINE held == [m \in Known(n) |-> know[n][m]]
           table == PumpedTable(n, free, plan)
<1>1. DOMAIN held = Known(n) /\ Known(n) \subseteq Nodes
  BY DEF Known
<1>2. Bounded(free, Known(n))
  <2>1. Bounded(asked[n], Nodes)
    BY DEF RequestInv
  <2>2. \A c \in Chunks : free[c] \in Known(n) \cup {None}
    BY DEF RequestInv, Wanted, Known, Tables
  <2> QED
    BY <2>1, <2>2, FewerBounded
<1>3. /\ Bounded(plan, Known(n))
      /\ \A c \in Chunks : plan[c] = free[c] \/ (free[c] = None /\ c \notin have[n])
  <2> HIDE DEF held
  <2> QED
    BY <1>1, <1>2, PlanBounded DEF held
<1>4. plan \in Tables /\ \A c \in Chunks : plan[c] \in Known(n) \cup {None}
  BY <1>3 DEF Bounded
<1>5. \A c \in Chunks :
        /\ table[c] = IF c \in Requested(n, free, plan) THEN plan[c] ELSE free[c]
        /\ table[c] \in {plan[c], None}
  BY <1>3 DEF PumpedTable
<1>6. table \in Tables
  BY <1>4 DEF Tables, PumpedTable
<1> HIDE DEF table
<1>7. \A c \in Chunks : table[c] \in Known(n) \cup {None}
  BY <1>4, <1>5
<1>8. Bounded(table, Nodes)
  BY <1>1, <1>3, <1>5, <1>6, <1>7, FewerBounded
<1>9. ASSUME NEW c \in Chunks, table[c] # None
      PROVE  know[n][table[c]] # Unknown /\ c \notin have[n]
  <2>1. know[n][table[c]] # Unknown
    BY <1>7, <1>9 DEF Known
  <2>2. CASE c \in Requested(n, free, plan)
    BY <1>3, <1>5, <1>9, <2>1, <2>2 DEF Requested
  <2>3. CASE c \notin Requested(n, free, plan)
    BY <1>5, <1>9, <2>3 DEF RequestInv, Wanted
  <2> QED
    BY <2>1, <2>2, <2>3
<1> QED
  BY <1>4, <1>6, <1>8, <1>9 DEF table

LEMMA PumpRequests ==
  ASSUME KnowInv, RequestInv, NEW n \in Nodes, Pump(n)
  PROVE  RequestInv'
<1> DEFINE told    == PeersMissingAnything(n)
           failed  == [m \in Nodes |-> Least(failures[n][m] + Count(n, m), MaxFailures)]
           quiet   == [m \in Nodes |-> Least(streak[n][m] + Count(n, m), Threshold)]
           free    == [c \in Chunks |-> IF c \in Late(n) THEN None ELSE asked[n][c]]
           gone    == {<<m, n>> : m \in Unresponsive(n, quiet)}
           heard   == [m \in Nodes |->
                         IF m \notin told THEN know[m]
                         ELSE [know[m] EXCEPT ![n] = WithNews(@, news[n])]]
           held    == [m \in Known(n) |-> know[n][m]]
<1>1. PICK plan \in Plans(have[n], held, free, failed) :
        /\ asked' = Freed([asked EXCEPT ![n] =
                      [c \in Chunks |-> IF c \in Requested(n, free, plan) THEN plan[c] ELSE free[c]]], gone)
        /\ due' = StillDue([due EXCEPT ![n] = @ \ Late(n)], asked')
  BY DEF Pump
<1>2. know' = Without(heard, gone, Unknown) /\ have' = have
  BY DEF Pump
<1> DEFINE table == PumpedTable(n, free, plan)
           tables == [asked EXCEPT ![n] = table]
<1>3. free \in Tables /\ \A c \in Chunks : free[c] \in {asked[n][c], None}
  BY DEF RequestInv, Tables
<1>4. /\ table \in Tables /\ Bounded(table, Nodes)
      /\ \A c \in Chunks : table[c] # None => know[n][table[c]] # Unknown /\ c \notin have[n]
  <2> HIDE DEF free, failed, table
  <2> QED
    BY <1>1, <1>3, PumpTable DEF table, held
<1>5. \A k, m \in Nodes : know[k][m] # Unknown => heard[k][m] # Unknown
  BY SwarmAssumption DEF KnowInv, Knowing, WithNews
<1>6. \A k, m \in Nodes : know'[k][m] = IF <<k, m>> \in gone THEN Unknown ELSE heard[k][m]
  <2> HIDE DEF heard, gone
  <2> QED
    BY <1>2 DEF Without
<1> HIDE DEF free, failed, table, gone, heard, quiet, told
<1>7. /\ tables \in [Nodes -> Tables]
      /\ \A k \in Nodes : tables[k] = IF k = n THEN table ELSE asked[k]
  BY <1>4 DEF RequestInv
<1>8. \A k \in Nodes : Bounded(tables[k], Nodes)
  BY <1>4, <1>7 DEF RequestInv
<1>9. \A k \in Nodes, c \in Chunks : tables[k][c] # None => know[k][tables[k][c]] # Unknown /\ c \notin have[k]
  BY <1>4, <1>7 DEF RequestInv, Wanted
<1>10. /\ asked' \in [Nodes -> Tables]
       /\ \A k \in Nodes, c \in Chunks :
            asked'[k][c] = IF <<k, tables[k][c]>> \in gone THEN None ELSE tables[k][c]
  <2>1. asked' = Freed(tables, gone)
    BY <1>1 DEF table, PumpedTable
  <2> HIDE DEF tables
  <2> QED
    BY <1>7, <2>1, FreedTables
<1> HIDE DEF tables
<1>11. ASSUME NEW k \in Nodes, NEW c \in Chunks, asked'[k][c] # None
       PROVE  Wanted(k, c)'
  <2>1. asked'[k][c] = tables[k][c] /\ <<k, tables[k][c]>> \notin gone /\ tables[k][c] \in Nodes
    BY <1>7, <1>10, <1>11 DEF Tables
  <2>2. know[k][tables[k][c]] # Unknown /\ c \notin have[k]
    BY <1>9, <1>11, <2>1
  <2> QED
    BY <1>2, <1>5, <1>6, <2>1, <2>2 DEF Wanted
<1>12. /\ due' \in [Nodes -> SUBSET Chunks]
       /\ \A k \in Nodes : due'[k] \subseteq Outstanding(asked'[k])
  <2>1. [due EXCEPT ![n] = @ \ Late(n)] \in [Nodes -> SUBSET Chunks]
    BY DEF RequestInv
  <2> QED
    BY <1>1, <2>1, DueOutstanding
<1>13. \A k \in Nodes, c \in Chunks : asked'[k][c] \in {tables[k][c], None}
  BY <1>10
<1> QED
  BY <1>7, <1>8, <1>10, <1>11, <1>12, <1>13, RequestsWithin

LEMMA RequestsKept ==
  ASSUME KnowInv, RequestInv, [Next]_vars, answers \subseteq Nodes \X Nodes \X Chunks
  PROVE  RequestInv'
<1>1. CASE UNCHANGED vars
  BY <1>1, RequestsUnchanged DEF vars, session, RequestInv
<1>2. ASSUME NEW n \in Nodes, Announce(n)
      PROVE  RequestInv'
  <2>1. \A k, m \in Nodes : know[k][m] # Unknown => know'[k][m] # Unknown
    <3>1. PICK helpers : know' = Announced(know, n, Bitfield(n), Linked(n, "up"), helpers)
      BY <1>2 DEF Announce
    <3> QED
      BY <3>1, AnnouncedSound DEF KnowInv, Bitfield
  <2> QED
    BY <1>2, <2>1, RequestsUnchanged DEF Announce, RequestInv
<1>3. ASSUME NEW n \in Nodes, Pump(n)
      PROVE  RequestInv'
  BY <1>3, PumpRequests
<1>4. ASSUME NEW n \in Nodes, Leaves(n) \/ Restarts(n)
      PROVE  RequestInv'
  BY <1>4, RemovalRequests DEF Leaves, Restarts
<1>5. ASSUME NEW n \in Nodes, SignallingReconnects(n)
      PROVE  RequestInv'
  BY <1>5, AbandonedRequests
<1>6. ASSUME NEW n \in Nodes, NEW c \in Chunks, TimesOut(n, c)
      PROVE  RequestInv'
  BY <1>6, RequestsUnchanged DEF TimesOut, RequestInv, Outstanding
<1>7. ASSUME NEW n \in Nodes, NEW m \in Nodes, Connects(n, m)
      PROVE  RequestInv'
  <2>1. \A k, p \in Nodes : know[k][p] # Unknown => know'[k][p] # Unknown
    BY <1>7, SwarmAssumption DEF Connects, Bitfield, KnowInv
  <2> QED
    BY <1>7, <2>1, RequestsUnchanged DEF Connects, RequestInv
<1>8. ASSUME NEW n \in Nodes, NEW m \in Nodes, ConnectionCloses(n, m)
      PROVE  RequestInv'
  BY <1>8, RemovalRequests DEF ConnectionCloses
<1>9. ASSUME NEW n \in Nodes, NEW m \in Nodes, GoesSilent(n, m) \/ CooldownEnds(n, m)
      PROVE  RequestInv'
  BY <1>9, RequestsUnchanged DEF GoesSilent, CooldownEnds, session, RequestInv
<1>10. ASSUME NEW m \in Nodes, NEW n \in Nodes, NEW c \in Chunks, ChunkArrives(m, n, c)
       PROVE  RequestInv'
  <2>1. CASE ChunkIgnored(m, n, c)
    BY <2>1, RequestsUnchanged DEF ChunkIgnored, session, RequestInv
  <2>2. CASE ChunkRejected(m, n, c) \/ ChunkUnstored(m, n, c)
    <3>1. Released(m, n, c) /\ UNCHANGED <<have, know>>
      BY <2>2 DEF ChunkRejected, ChunkUnstored
    <3>2. asked' = asked \/ asked' = [asked EXCEPT ![n] = [@ EXCEPT ![c] = None]]
      BY <3>1 DEF Released, RequestInv, Tables
    <3>3. /\ due' \in [Nodes -> SUBSET Chunks]
          /\ \A k \in Nodes : due'[k] \subseteq Outstanding(asked'[k])
      BY <3>1, DueOutstanding DEF Released, RequestInv
    <3> QED
      BY <3>1, <3>2, <3>3, ArrivalRequests DEF KnowInv
  <2>3. CASE ChunkStored(m, n, c)
    <3>1. /\ have' = [have EXCEPT ![n] = @ \cup {c}] /\ know' = know
          /\ asked' = [asked EXCEPT ![n] = [@ EXCEPT ![c] = None]]
          /\ due' = [due EXCEPT ![n] = @ \ {c}]
      BY <2>3 DEF ChunkStored
    <3>2. \A k \in Nodes, d \in Chunks :
            asked'[k][d] = IF k = n /\ d = c THEN None ELSE asked[k][d]
      BY <3>1 DEF RequestInv, Tables
    <3>3. /\ due' \in [Nodes -> SUBSET Chunks]
          /\ \A k \in Nodes : due'[k] \subseteq Outstanding(asked'[k])
      BY <3>1, <3>2 DEF RequestInv, Outstanding
    <3> QED
      BY <3>1, <3>2, <3>3, ArrivalRequests DEF KnowInv
  <2>4. CASE LastChunkStored(m, n, c)
    BY <2>4, LastRequests
  <2> QED
    BY <1>10, <2>1, <2>2, <2>3, <2>4 DEF ChunkArrives
<1>11. ASSUME NEW a \in answers, ChunkArrives(a[1], a[2], a[3])
       PROVE  RequestInv'
  <2>1. a[1] \in Nodes /\ a[2] \in Nodes /\ a[3] \in Chunks
    OBVIOUS
  <2> QED
    BY <1>10, <1>11, <2>1
<1> QED
  BY <1>1, <1>2, <1>3, <1>4, <1>5, <1>6, <1>7, <1>8, <1>9, <1>11 DEF Next

(***************************************************************************)
(* The counts kept of peers, and the connections.                          *)
(***************************************************************************)
Counts(bound) == [Nodes -> [Nodes -> 0 .. bound]]

Travelling == Nodes \X Nodes \X Chunks

ScoreInv == failures \in Counts(MaxFailures) /\ streak \in Counts(Threshold)

LinkInv ==
  /\ cooling \in [Nodes -> SUBSET Nodes]
  /\ link \in [Pairs -> {"up", "silent", "down"}]
  /\ answers \subseteq Travelling
  /\ left \subseteq Nodes /\ mishaps \in 0 .. MaxMishaps

LEMMA ScoresStart == Init => ScoreInv /\ LinkInv
BY SwarmAssumption DEF Init, ScoreInv, LinkInv, Counts

LEMMA LeastBounded ==
  ASSUME NEW bound \in Nat, NEW n \in Nat
  PROVE  Least(n, bound) \in 0 .. bound
BY DEF Least

\* A peer that is removed is not counted any more.
LEMMA CountsWithout ==
  ASSUME NEW bound \in Nat, NEW t \in Counts(bound), NEW removed
  PROVE  Without(t, removed, 0) \in Counts(bound)
BY DEF Counts, Without

LEMMA RowCounted ==
  ASSUME NEW bound \in Nat, NEW t \in Counts(bound), NEW n \in Nodes,
         NEW row, row \in [Nodes -> 0 .. bound]
  PROVE  [t EXCEPT ![n] = row] \in Counts(bound)
BY DEF Counts

LEMMA PumpScores ==
  ASSUME ScoreInv, RequestInv, NEW n \in Nodes, Pump(n)
  PROVE  ScoreInv'
<1> DEFINE failed == [m \in Nodes |-> Least(failures[n][m] + Count(n, m), MaxFailures)]
           quiet  == [m \in Nodes |-> Least(streak[n][m] + Count(n, m), Threshold)]
           rest   == [m \in Nodes |-> IF m \in Unresponsive(n, quiet) THEN 0 ELSE quiet[m]]
<1>1. PICK gone : /\ failures' = Without([failures EXCEPT ![n] = failed], gone, 0)
                  /\ streak' = Without([streak EXCEPT ![n] = rest], gone, 0)
  BY DEF Pump
<1>2. MaxFailures \in Nat /\ Threshold \in Nat
  BY SwarmAssumption
<1>3. ASSUME NEW m \in Nodes
      PROVE  Count(n, m) \in Nat
  <2>1. {c \in Late(n) : asked[n][c] = m} \in SUBSET Chunks
    BY DEF Late, RequestInv
  <2> QED
    BY <2>1, SomeChunks DEF Count
<1>4. ASSUME NEW m \in Nodes
      PROVE  failed[m] \in 0 .. MaxFailures /\ quiet[m] \in 0 .. Threshold
  <2>1. failures[n][m] + Count(n, m) \in Nat /\ streak[n][m] + Count(n, m) \in Nat
    BY <1>2, <1>3 DEF ScoreInv, Counts
  <2> QED
    BY <1>2, <2>1, LeastBounded
<1>5. failed \in [Nodes -> 0 .. MaxFailures] /\ rest \in [Nodes -> 0 .. Threshold]
  BY <1>2, <1>4
<1> HIDE DEF failed, rest
<1>6. /\ [failures EXCEPT ![n] = failed] \in Counts(MaxFailures)
      /\ [streak EXCEPT ![n] = rest] \in Counts(Threshold)
  BY <1>2, <1>5, RowCounted DEF ScoreInv
<1> QED
  BY <1>1, <1>2, <1>6, CountsWithout DEF ScoreInv

LEMMA ArrivalScores ==
  ASSUME ScoreInv, NEW m \in Nodes, NEW n \in Nodes, NEW c, ChunkArrives(m, n, c)
  PROVE  ScoreInv'
<1>1. MaxFailures \in Nat /\ Threshold \in Nat
  BY SwarmAssumption
<1>2. CASE ChunkIgnored(m, n, c) \/ ChunkUnstored(m, n, c)
  BY <1>2 DEF ChunkIgnored, ChunkUnstored, session, ScoreInv
<1>3. CASE ChunkRejected(m, n, c)
  <2> DEFINE more == Least(failures[n][m] + 1, MaxFailures)
             row  == [failures[n] EXCEPT ![m] = more]
  <2>1. failures' = [failures EXCEPT ![n] = row] /\ streak' = streak
    BY <1>3 DEF ChunkRejected
  <2>2. more \in 0 .. MaxFailures
    <3>1. failures[n][m] + 1 \in Nat
      BY <1>1 DEF ScoreInv, Counts
    <3> QED
      BY <1>1, <3>1, LeastBounded
  <2> HIDE DEF more
  <2>3. row \in [Nodes -> 0 .. MaxFailures]
    BY <2>2 DEF ScoreInv, Counts
  <2> HIDE DEF row
  <2> QED
    BY <1>1, <2>1, <2>3, RowCounted DEF ScoreInv
<1>4. CASE ChunkStored(m, n, c)
  <2>1. streak' = [streak EXCEPT ![n] = [@ EXCEPT ![m] = 0]] /\ failures' = failures
    BY <1>4 DEF ChunkStored
  <2>2. [streak[n] EXCEPT ![m] = 0] \in [Nodes -> 0 .. Threshold]
    BY <1>1 DEF ScoreInv, Counts
  <2> QED
    BY <1>1, <2>1, <2>2, RowCounted DEF ScoreInv
<1>5. CASE LastChunkStored(m, n, c)
  <2> DEFINE zero == [p \in Nodes |-> 0]
  <2>1. failures' = [failures EXCEPT ![n] = zero] /\ streak' = [streak EXCEPT ![n] = zero]
    BY <1>5 DEF LastChunkStored
  <2>2. zero \in [Nodes -> 0 .. MaxFailures] /\ zero \in [Nodes -> 0 .. Threshold]
    BY <1>1
  <2> HIDE DEF zero
  <2> QED
    BY <1>1, <2>1, <2>2, RowCounted DEF ScoreInv
<1> QED
  BY <1>2, <1>3, <1>4, <1>5 DEF ChunkArrives

LEMMA ScoresKept ==
  ASSUME ScoreInv, RequestInv, [Next]_vars, answers \subseteq Travelling
  PROVE  ScoreInv'
<1>1. CASE UNCHANGED vars
  BY <1>1 DEF vars, session, ScoreInv
<1>2. ASSUME NEW n \in Nodes, Pump(n)
      PROVE  ScoreInv'
  BY <1>2, PumpScores
<1>3. ASSUME NEW n \in Nodes, Announce(n) \/ SignallingReconnects(n)
      PROVE  ScoreInv'
  BY <1>3 DEF Announce, SignallingReconnects, ScoreInv
<1>4. ASSUME NEW removed, Removed(removed)
      PROVE  ScoreInv'
  BY <1>4, CountsWithout, SwarmAssumption DEF Removed, ScoreInv
<1>5. ASSUME NEW n \in Nodes, Leaves(n) \/ Restarts(n)
      PROVE  ScoreInv'
  BY <1>4, <1>5 DEF Leaves, Restarts
<1>6. ASSUME NEW n \in Nodes, NEW c \in Chunks, TimesOut(n, c)
      PROVE  ScoreInv'
  BY <1>6 DEF TimesOut, ScoreInv
<1>7. ASSUME NEW n \in Nodes, NEW m \in Nodes, ConnectionCloses(n, m)
      PROVE  ScoreInv'
  BY <1>4, <1>7 DEF ConnectionCloses
<1>8. ASSUME NEW n \in Nodes, NEW m \in Nodes,
             Connects(n, m) \/ GoesSilent(n, m) \/ CooldownEnds(n, m)
      PROVE  ScoreInv'
  BY <1>8 DEF Connects, GoesSilent, CooldownEnds, session, ScoreInv
<1>9. ASSUME NEW a \in answers, ChunkArrives(a[1], a[2], a[3])
      PROVE  ScoreInv'
  <2>1. a[1] \in Nodes /\ a[2] \in Nodes
    BY DEF Travelling
  <2> QED
    BY <1>9, <2>1, ArrivalScores
<1> QED
  BY <1>1, <1>2, <1>3, <1>5, <1>6, <1>7, <1>8, <1>9 DEF Next

\* A mishap is one of those that may still happen.
LEMMA MishapsLeft ==
  ASSUME mishaps \in 0 .. MaxMishaps, NEW kind, Happens(kind)
  PROVE  mishaps' \in 0 .. MaxMishaps
BY SwarmAssumption DEF Happens

LEMMA RemovalCools ==
  ASSUME LinkInv, NEW removed, Removed(removed)
  PROVE  cooling' \in [Nodes -> SUBSET Nodes]
BY DEF LinkInv, Removed

LEMMA PumpLinks ==
  ASSUME LinkInv, KnowInv, RequestInv, NEW n \in Nodes, Pump(n)
  PROVE  LinkInv'
<1> DEFINE failed  == [m \in Nodes |-> Least(failures[n][m] + Count(n, m), MaxFailures)]
           quiet   == [m \in Nodes |-> Least(streak[n][m] + Count(n, m), Threshold)]
           free    == [c \in Chunks |-> IF c \in Late(n) THEN None ELSE asked[n][c]]
           revived == Unresponsive(n, quiet)
           held    == [m \in Known(n) |-> know[n][m]]
<1>1. PICK plan \in Plans(have[n], held, free, failed) :
        \E lost \in {{}} \cup {{c} : c \in Served(n, plan, Requested(n, free, plan))} :
          /\ answers' = {a \in answers \cup {<<plan[c], n, c>> :
                                    c \in Served(n, plan, Requested(n, free, plan)) \ lost} :
                           ~(n \in {a[1], a[2]} /\ {a[1], a[2]} \cap revived # {})}
          /\ IF lost = {} THEN UNCHANGED mishaps ELSE Happens("loss")
  BY DEF Pump
<1>2. free \in Tables /\ \A c \in Chunks : free[c] \in {asked[n][c], None}
  BY DEF RequestInv, Tables
<1>3. plan \in Tables
  <2> HIDE DEF free, failed
  <2> QED
    BY <1>1, <1>2, PumpTable DEF held
<1>4. \A c \in Requested(n, free, plan) : plan[c] \in Nodes /\ c \in Chunks
  BY <1>3 DEF Requested, Tables
<1>5. \A c \in Served(n, plan, Requested(n, free, plan)) : <<plan[c], n, c>> \in Travelling
  BY <1>4 DEF Served, Travelling
<1>6. revived \subseteq Nodes
  BY DEF Unresponsive
<1>7. mishaps' \in 0 .. MaxMishaps
  BY <1>1, MishapsLeft DEF LinkInv
<1> HIDE DEF free, failed, held
<1>8. answers' \subseteq Travelling
  BY <1>1, <1>5 DEF LinkInv
<1>9. cooling' \in [Nodes -> SUBSET Nodes]
  <2>1. cooling' = [m \in Nodes |-> IF m = n THEN cooling[n] \cup revived
                                    ELSE IF m \in revived THEN cooling[m] \ {n} ELSE cooling[m]]
    BY DEF Pump
  <2> QED
    BY <1>6, <2>1 DEF LinkInv
<1>10. link' \in [Pairs -> {"up", "silent", "down"}]
  BY DEF Pump, LinkInv
<1>11. left' = left
  BY DEF Pump
<1> QED
  BY <1>7, <1>8, <1>9, <1>10, <1>11 DEF LinkInv

LEMMA LinksKept ==
  ASSUME LinkInv, KnowInv, RequestInv, [Next]_vars
  PROVE  LinkInv'
<1>1. CASE UNCHANGED vars
  BY <1>1 DEF vars, LinkInv
<1>2. ASSUME NEW n \in Nodes, Pump(n)
      PROVE  LinkInv'
  BY <1>2, PumpLinks
<1>3. ASSUME NEW n \in Nodes, Announce(n)
      PROVE  LinkInv'
  BY <1>3 DEF Announce, LinkInv
<1>4. ASSUME NEW n \in Nodes, SignallingReconnects(n)
      PROVE  LinkInv'
  <2>1. mishaps' \in 0 .. MaxMishaps
    BY <1>4, MishapsLeft DEF SignallingReconnects, LinkInv
  <2> QED
    BY <1>4, <2>1 DEF SignallingReconnects, LinkInv
<1>5. ASSUME NEW n \in Nodes
      PROVE  Severed(n) \in [Pairs -> {"up", "silent", "down"}]
  BY DEF Severed, LinkInv
<1>6. \A n, others : Cut(n, others) \subseteq Travelling
  BY DEF Cut, LinkInv
<1>7. ASSUME NEW n \in Nodes, Leaves(n)
      PROVE  LinkInv'
  <2>1. cooling' \in [Nodes -> SUBSET Nodes]
    BY <1>7, RemovalCools DEF Leaves
  <2>2. left' \subseteq Nodes
    BY <1>7 DEF Leaves, LinkInv
  <2> QED
    BY <1>5, <1>6, <1>7, <2>1, <2>2 DEF Leaves, LinkInv
<1>8. ASSUME NEW n \in Nodes, Restarts(n)
      PROVE  LinkInv'
  <2>1. cooling' \in [Nodes -> SUBSET Nodes] /\ mishaps' \in 0 .. MaxMishaps
    BY <1>8, RemovalCools, MishapsLeft DEF Restarts, LinkInv
  <2> QED
    BY <1>5, <1>6, <1>8, <2>1 DEF Restarts, LinkInv
<1>9. ASSUME NEW n \in Nodes, NEW c \in Chunks, TimesOut(n, c)
      PROVE  LinkInv'
  <2>1. mishaps' \in 0 .. MaxMishaps
    BY <1>9, MishapsLeft DEF TimesOut, LinkInv
  <2> QED
    BY <1>9, <2>1 DEF TimesOut, LinkInv
<1>10. ASSUME NEW n \in Nodes, NEW m \in Nodes, Connects(n, m)
       PROVE  LinkInv'
  BY <1>10 DEF Connects, LinkInv
<1>11. ASSUME NEW n \in Nodes, NEW m \in Nodes, ConnectionCloses(n, m)
       PROVE  LinkInv'
  <2>1. cooling' \in [Nodes -> SUBSET Nodes] /\ mishaps' \in 0 .. MaxMishaps
    BY <1>11, RemovalCools, MishapsLeft DEF ConnectionCloses, LinkInv
  <2> QED
    BY <1>6, <1>11, <2>1 DEF ConnectionCloses, LinkInv
<1>12. ASSUME NEW n \in Nodes, NEW m \in Nodes, GoesSilent(n, m)
       PROVE  LinkInv'
  <2>1. mishaps' \in 0 .. MaxMishaps
    BY <1>12, MishapsLeft DEF GoesSilent, LinkInv
  <2> QED
    BY <1>6, <1>12, <2>1 DEF GoesSilent, LinkInv
<1>13. ASSUME NEW n \in Nodes, NEW m \in Nodes, CooldownEnds(n, m)
       PROVE  LinkInv'
  BY <1>13 DEF CooldownEnds, LinkInv
<1>14. ASSUME NEW m, NEW n, NEW c, ChunkArrives(m, n, c)
       PROVE  LinkInv'
  <2>1. answers' \subseteq Travelling /\ UNCHANGED <<cooling, link, left>>
    BY <1>14 DEF ChunkArrives, ChunkIgnored, ChunkRejected, ChunkUnstored, ChunkStored,
                 LastChunkStored, Arrival, LinkInv
  <2>2. mishaps' \in 0 .. MaxMishaps
    BY <1>14, MishapsLeft DEF ChunkArrives, ChunkIgnored, ChunkRejected, ChunkUnstored,
                              ChunkStored, LastChunkStored, LinkInv
  <2> QED
    BY <2>1, <2>2 DEF LinkInv
<1> QED
  BY <1>1, <1>2, <1>3, <1>4, <1>7, <1>8, <1>9, <1>10, <1>11, <1>12, <1>13, <1>14 DEF Next

-----------------------------------------------------------------------------
SwarmInv == KnowInv /\ RequestInv /\ ScoreInv /\ LinkInv

LEMMA SwarmAlways == Spec => []SwarmInv
<1>1. Init => SwarmInv
  BY KnowStarts, RequestsStart, ScoresStart DEF SwarmInv
<1>2. SwarmInv /\ [Next]_vars => SwarmInv'
  BY KnowKept, RequestsKept, ScoresKept, LinksKept DEF SwarmInv, LinkInv, Travelling
<1> QED
  BY <1>1, <1>2, PTL DEF Spec

\* Nobody is believed to hold a chunk it cannot serve, whatever is announced, lost,
\* forgotten and told as news (announceAll, flushHave and handleHave of
\* swarm-manager.ts, removePeer and completion of swarm-session.ts).
THEOREM OnlyHeldIsKnown == Spec => []KnowledgeSound
<1>1. SwarmInv => KnowledgeSound
  BY DEF SwarmInv, KnowInv, Sound, KnowledgeSound
<1> QED
  BY <1>1, SwarmAlways, PTL

\* Types, and both limits on requests: none is out for a chunk that is there or at a
\* peer that was removed, in any order of answers, timeouts, disconnections and
\* pumps (planChunkRequests of swarm.ts, the requests of swarm-session.ts).
THEOREM SlotsHeldOnce == Spec => []SlotsSound
<1>1. SwarmInv => TypeOK
  BY DEF SwarmInv, KnowInv, Knowing, RequestInv, Outstanding, ScoreInv, Counts, LinkInv,
         Travelling, TypeOK
<1>2. SwarmInv => \A n \in Nodes :
        /\ \A c \in Chunks : asked[n][c] # None => c \notin have[n] /\ asked[n][c] \in Known(n)
        /\ \A m \in Nodes : Cardinality(AskedOf(asked[n], m)) <= PerPeer
        /\ Cardinality({c \in Chunks : asked[n][c] # None}) <= Total
  <2> SUFFICES ASSUME SwarmInv, NEW n \in Nodes
               PROVE  /\ \A c \in Chunks : asked[n][c] # None =>
                           c \notin have[n] /\ asked[n][c] \in Known(n)
                      /\ \A m \in Nodes : Cardinality(AskedOf(asked[n], m)) <= PerPeer
                      /\ Cardinality({c \in Chunks : asked[n][c] # None}) <= Total
    OBVIOUS
  <2>1. \A c \in Chunks : asked[n][c] # None => c \notin have[n] /\ asked[n][c] \in Known(n)
    BY DEF SwarmInv, RequestInv, Tables, Wanted, Known
  <2> QED
    BY <2>1 DEF SwarmInv, RequestInv, Bounded, Outstanding
<1>3. SwarmInv => SlotsSound
  BY <1>1, <1>2 DEF SlotsSound
<1> QED
  BY <1>3, SwarmAlways, PTL
=============================================================================
