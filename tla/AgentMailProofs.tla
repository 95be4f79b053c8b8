--------------------------- MODULE AgentMailProofs ---------------------------
(***************************************************************************)
(* Proofs about AgentMail, for any messages, any number of processes that  *)
(* read, any limits and any number of restarts: mail is neither lost nor   *)
(* read twice, and the runner of a sidecar runs one wake command at a time *)
(* and no more than the limit in a window.                                 *)
(***************************************************************************)
EXTENDS AgentMail, ListFacts, FiniteSetTheorems, TLAPS

(***************************************************************************)
(* Mail.  Every file a read has listed and not come to is one it has not   *)
(* taken, so that a message it takes is one more copy in its hands.        *)
(***************************************************************************)
Read == [at : {"idle", "take", "missed"}, rest : Seq(Mail), want : Nat, got : SUBSET Mail]

MailTypeOK ==
  /\ inbox \in SUBSET Mail /\ IsFiniteSet(inbox)
  /\ stores \in [Mail -> Nat] /\ done \in [Mail -> Nat]
  /\ read \in [Readers -> Read]

\* Of a read: no file twice, none again, nothing in its hands when it is over, and
\* a file that is missing is on its list.
ReadSound(x) ==
  /\ \A i, j \in 1 .. Len(x.rest) : i # j => x.rest[i] # x.rest[j]
  /\ \A i \in 1 .. Len(x.rest) : x.rest[i] \notin x.got
  /\ x.at = "idle" => x.got = {}
  /\ x.at = "missed" => x.rest # <<>>

Holding(m) == {r \in Readers : m \in read[r].got}

Conserved(m) ==
  stores[m] = done[m] + Cardinality(Holding(m)) + IF m \in inbox THEN 1 ELSE 0

MailInv ==
  /\ MailTypeOK
  /\ \A r \in Readers : ReadSound(read[r])
  /\ \A m \in Mail : Conserved(m)

LEMMA HoldingFinite ==
  ASSUME NEW m
  PROVE  IsFiniteSet(Holding(m)) /\ Cardinality(Holding(m)) \in Nat
<1>1. Holding(m) \in SUBSET Readers
  BY DEF Holding
<1>2. IsFiniteSet(Holding(m))
  BY <1>1, InboxAssumption, FS_Subset
<1> QED
  BY <1>2, FS_CardinalityType

LEMMA MailInit == Init => MailInv
<1> SUFFICES ASSUME Init PROVE MailInv
  OBVIOUS
<1> USE DEF Init, InboxInit
<1>1. <<>> \in Seq(Mail) /\ Len(<<>>) = 0
  OBVIOUS
<1>2. NoRead \in Read
  BY <1>1 DEF NoRead, Reading, Read
<1>3. MailTypeOK
  BY <1>2, FS_EmptySet DEF MailTypeOK
<1>4. \A r \in Readers : ReadSound(read[r])
  BY <1>1 DEF NoRead, Reading, ReadSound
<1>5. ASSUME NEW m \in Mail PROVE Conserved(m)
  <2>1. Holding(m) = {}
    BY DEF Holding, NoRead, Reading
  <2> QED
    BY <2>1, FS_EmptySet DEF Conserved
<1> QED
  BY <1>3, <1>4, <1>5 DEF MailInv

\* A file is written.
LEMMA StoreMail ==
  ASSUME MailInv, NEW n \in Mail, Store(n)
  PROVE  MailInv'
<1> USE DEF MailInv, Store
<1>1. MailTypeOK'
  <2>1. IsFiniteSet(inbox')
    BY FS_AddElement DEF MailTypeOK
  <2> QED
    BY <2>1 DEF MailTypeOK
<1>2. \A r \in Readers : ReadSound(read'[r])
  OBVIOUS
<1>3. ASSUME NEW m \in Mail PROVE Conserved(m)'
  <2>1. Holding(m)' = Holding(m)
    BY DEF Holding
  <2>2. Conserved(m) /\ Cardinality(Holding(m)) \in Nat
    BY HoldingFinite
  <2> QED
    BY <2>1, <2>2 DEF Conserved, MailTypeOK
<1> QED
  BY <1>1, <1>2, <1>3

\* A reader's record changes, and it holds the same messages as before.
LEMMA SameHands ==
  ASSUME MailInv, UNCHANGED <<inbox, stores, done>>,
         NEW r \in Readers, NEW new \in Read, new.got = read[r].got, ReadSound(new),
         read' = [read EXCEPT ![r] = new]
  PROVE  MailInv'
<1> USE DEF MailInv
<1>1. MailTypeOK'
  BY DEF MailTypeOK
<1>2. \A s \in Readers : ReadSound(read'[s])
  BY DEF MailTypeOK
<1>3. ASSUME NEW m \in Mail PROVE Conserved(m)'
  <2>1. Holding(m)' = Holding(m)
    BY DEF Holding, MailTypeOK
  <2> QED
    BY <2>1 DEF Conserved
<1> QED
  BY <1>1, <1>2, <1>3

\* A read is over: what it held has been taken.
LEMMA HandsEmptied ==
  ASSUME MailInv, NEW r \in Readers, Taken(r),
         read' = [read EXCEPT ![r] = NoRead], UNCHANGED <<inbox, stores>>
  PROVE  MailInv'
<1> USE DEF MailInv, Taken
<1>1. NoRead \in Read /\ ReadSound(NoRead)
  BY DEF NoRead, Reading, Read, ReadSound
<1>2. MailTypeOK'
  BY <1>1 DEF MailTypeOK
<1>3. \A s \in Readers : ReadSound(read'[s])
  BY <1>1 DEF MailTypeOK
<1>4. ASSUME NEW m \in Mail PROVE Conserved(m)'
  <2>1. Holding(m)' = Holding(m) \ {r}
    BY DEF Holding, MailTypeOK, NoRead, Reading
  <2>2. r \in Holding(m) <=> m \in read[r].got
    BY DEF Holding
  <2>3. IsFiniteSet(Holding(m)) /\ Cardinality(Holding(m)) \in Nat
    BY HoldingFinite
  <2>4. Cardinality(Holding(m)') = IF m \in read[r].got THEN Cardinality(Holding(m)) - 1
                                                       ELSE Cardinality(Holding(m))
    BY <2>1, <2>2, <2>3, FS_RemoveElement
  <2>5. done'[m] = done[m] + IF m \in read[r].got THEN 1 ELSE 0
    OBVIOUS
  <2> QED
    BY <2>3, <2>4, <2>5 DEF Conserved, MailTypeOK
<1> QED
  BY <1>2, <1>3, <1>4

\* A listing, in its order, has no file twice.
LEMMA ListingDistinct ==
  ASSUME NEW l \in Listings, inbox \in SUBSET Mail, IsFiniteSet(inbox)
  PROVE  /\ l \in Seq(Mail) /\ Len(l) = Cardinality(inbox) /\ Len(l) \in Nat
         /\ \A i, j \in 1 .. Len(l) : i # j => l[i] # l[j]
<1>1. Cardinality(inbox) \in Nat
  BY FS_CardinalityType
<1>2. /\ l \in [1 .. Cardinality(inbox) -> inbox]
      /\ \A i, j \in DOMAIN l : i < j => l[i] < l[j]
  BY DEF Listings
<1>3. l \in Seq(Mail) /\ Len(l) = Cardinality(inbox)
  BY <1>1, <1>2
<1>4. ASSUME NEW i \in 1 .. Len(l), NEW j \in 1 .. Len(l), i # j
      PROVE  l[i] # l[j]
  <2>1. l[i] \in Mail /\ l[j] \in Mail
    BY <1>3
  <2>2. l[i] \in Nat /\ l[j] \in Nat
    BY <2>1, InboxAssumption
  <2>3. i < j \/ j < i
    BY <1>4, <1>1, <1>3
  <2>4. l[i] < l[j] \/ l[j] < l[i]
    BY <1>1, <1>2, <1>3, <2>3
  <2> QED
    BY <2>2, <2>4
<1> QED
  BY <1>1, <1>3, <1>4

LEMMA BeginReadMail ==
  ASSUME MailInv, NEW r \in Readers, BeginRead(r)
  PROVE  MailInv'
<1> USE DEF MailInv, MailTypeOK
<1>1. PICK listed \in Listings : \E w \in Nat :
        read' = [read EXCEPT ![r] = Reading("take", listed, w, {})]
  <2>1. PICK l \in Listings :
          read' = [read EXCEPT ![r] =
            Reading("take", l, IF Len(l) < ReadCount THEN Len(l) ELSE ReadCount, {})]
    BY DEF BeginRead
  <2>2. Len(l) \in Nat
    BY ListingDistinct
  <2>3. (IF Len(l) < ReadCount THEN Len(l) ELSE ReadCount) \in Nat
    BY <2>2, InboxAssumption
  <2> QED
    BY <2>1, <2>3
<1>2. PICK w \in Nat :
        read' = [read EXCEPT ![r] = Reading("take", listed, w, {})]
  BY <1>1
<1> DEFINE new == Reading("take", listed, w, {})
<1>4. listed \in Seq(Mail)
  BY ListingDistinct
<1>5. \A i, j \in 1 .. Len(listed) : i # j => listed[i] # listed[j]
  BY ListingDistinct
<1>6. new \in Read /\ ReadSound(new)
  BY <1>4, <1>5 DEF Read, Reading, ReadSound
<1>7. new.got = read[r].got
  BY DEF BeginRead, Reading, ReadSound
<1> HIDE DEF new
<1> QED
  BY <1>2, <1>6, <1>7, SameHands DEF BeginRead, new

LEMMA ReadingFields ==
  ASSUME NEW at \in {"idle", "take", "missed"}, NEW rest \in Seq(Mail), NEW want \in Nat,
         NEW hand \in SUBSET Mail
  PROVE  LET x == Reading(at, rest, want, hand) IN
           x \in Read /\ x.at = at /\ x.rest = rest /\ x.want = want /\ x.got = hand
BY DEF Reading, Read

\* What is left of a list after its head.
LEMMA TailOfList ==
  ASSUME NEW x \in Read, ReadSound(x), x.rest # <<>>
  PROVE  /\ Head(x.rest) \in Mail /\ Tail(x.rest) \in Seq(Mail) /\ Head(x.rest) \notin x.got
         /\ \A i, j \in 1 .. Len(Tail(x.rest)) : i # j => Tail(x.rest)[i] # Tail(x.rest)[j]
         /\ \A i \in 1 .. Len(Tail(x.rest)) : Tail(x.rest)[i] \notin x.got \cup {Head(x.rest)}
<1>1. PICK rest \in Seq(Mail) : rest = x.rest /\ rest # <<>>
  BY DEF Read
<1>2. /\ Head(rest) = rest[1] /\ Head(rest) \in Mail /\ Tail(rest) \in Seq(Mail)
      /\ Len(rest) \in Nat \ {0} /\ Len(Tail(rest)) = Len(rest) - 1
      /\ \A i \in 1 .. Len(Tail(rest)) : Tail(rest)[i] = rest[i + 1] /\ i + 1 \in 1 .. Len(rest)
  BY <1>1
<1>3. /\ \A i, j \in 1 .. Len(rest) : i # j => rest[i] # rest[j]
      /\ \A i \in 1 .. Len(rest) : rest[i] \notin x.got
  BY <1>1 DEF ReadSound
<1>4. \A i, j \in 1 .. Len(Tail(rest)) : i # j => Tail(rest)[i] # Tail(rest)[j]
  BY <1>2, <1>3
<1>5. \A i \in 1 .. Len(Tail(rest)) : Tail(rest)[i] \notin x.got \cup {Head(rest)}
  BY <1>2, <1>3
<1>6. Head(rest) \notin x.got
  BY <1>2, <1>3
<1> QED
  BY <1>1, <1>2, <1>4, <1>5, <1>6

\* A read that has gone on to the rest of its list is sound.
LEMMA TailSound ==
  ASSUME NEW x \in Read, ReadSound(x), x.rest # <<>>,
         NEW y \in Read, y.at = "take", y.rest = Tail(x.rest),
         y.got \subseteq x.got \cup {Head(x.rest)}
  PROVE  ReadSound(y)
<1> DEFINE rest == Tail(x.rest)
<1>1. /\ \A i, j \in 1 .. Len(rest) : i # j => rest[i] # rest[j]
      /\ \A i \in 1 .. Len(rest) : rest[i] \notin x.got \cup {Head(x.rest)}
  BY TailOfList
<1> HIDE DEF rest
<1>2. y.rest = rest
  BY DEF rest
<1> QED
  BY <1>1, <1>2 DEF ReadSound

\* The next file on the list is taken.
LEMMA TakeMail ==
  ASSUME MailInv, NEW r \in Readers, Take(r)
  PROVE  MailInv'
<1> USE DEF MailInv, MailTypeOK
<1>1. PICK old \in Read : old = read[r]
  OBVIOUS
<1> DEFINE n == Head(old.rest)
           new == Reading("take", Tail(old.rest), old.want - 1, old.got \cup {n})
<1>2. /\ read' = [read EXCEPT ![r] = new] /\ old.at = "take" /\ old.want > 0 /\ old.rest # <<>>
      /\ n \in inbox /\ inbox' = inbox \ {n} /\ UNCHANGED <<stores, done>>
  BY <1>1 DEF Take, Reading
<1>3. /\ n \in Mail /\ n \notin old.got /\ new \in Read /\ ReadSound(new)
      /\ new.got = old.got \cup {n}
  <2>1. n \in Mail /\ n \notin old.got /\ Tail(old.rest) \in Seq(Mail)
    BY <1>1, <1>2, TailOfList
  <2>2. old.want - 1 \in Nat /\ old.got \cup {n} \in SUBSET Mail
    <3>1. old.want \in Nat /\ old.got \in SUBSET Mail
      BY DEF Read
    <3> QED
      BY <1>2, <2>1, <3>1
  <2>3. new \in Read /\ new.at = "take" /\ new.rest = Tail(old.rest) /\ new.got = old.got \cup {n}
    <3>1. PICK tail \in Seq(Mail) : tail = Tail(old.rest)
      BY <2>1
    <3>2. PICK want \in Nat, hand \in SUBSET Mail : want = old.want - 1 /\ hand = old.got \cup {n}
      BY <2>2
    <3>3. new = Reading("take", tail, want, hand)
      BY <3>1, <3>2
    <3> HIDE DEF new
    <3>4. new = [at |-> "take", rest |-> tail, want |-> want, got |-> hand]
      BY <3>3 DEF Reading
    <3>5. new \in Read /\ new.at = "take" /\ new.rest = tail /\ new.got = hand
      BY <3>2, <3>4 DEF Read
    <3> QED
      BY <3>1, <3>2, <3>5
  <2> HIDE DEF new
  <2>4. ReadSound(new)
    BY <1>1, <1>2, <2>3, TailSound
  <2> QED
    BY <2>1, <2>3, <2>4
<1> HIDE DEF n, new
<1>4. MailTypeOK'
  <2>1. IsFiniteSet(inbox')
    BY <1>2, FS_RemoveElement
  <2> QED
    BY <1>2, <1>3, <2>1
<1>5. \A s \in Readers : ReadSound(read'[s])
  BY <1>2, <1>3
<1>6. ASSUME NEW m \in Mail PROVE Conserved(m)'
  <2>1. Conserved(m) /\ IsFiniteSet(Holding(m)) /\ Cardinality(Holding(m)) \in Nat
    BY HoldingFinite
  <2>3. CASE m = n
    <3>1. Holding(m)' = Holding(m) \cup {r} /\ r \notin Holding(m)
      BY <1>1, <1>2, <1>3, <2>3 DEF Holding
    <3>2. Cardinality(Holding(m)') = Cardinality(Holding(m)) + 1
      BY <2>1, <3>1, FS_AddElement
    <3> QED
      BY <1>2, <2>1, <2>3, <3>2 DEF Conserved
  <2>4. CASE m # n
    <3>1. Holding(m)' = Holding(m)
      BY <1>1, <1>2, <1>3, <2>4 DEF Holding
    <3> QED
      BY <1>2, <2>1, <2>4, <3>1 DEF Conserved
  <2> QED
    BY <2>3, <2>4
<1> QED
  BY <1>4, <1>5, <1>6

\* A file is gone, and is passed over.
LEMMA MissMail ==
  ASSUME MailInv, NEW r \in Readers, Miss(r) \/ SkipMissing(r)
  PROVE  MailInv'
<1> USE DEF MailInv, MailTypeOK
<1>1. PICK old \in Read : old = read[r]
  OBVIOUS
<1>2. CASE Miss(r)
  <2> DEFINE new == Reading("missed", old.rest, old.want, old.got)
  <2>1. /\ read' = [read EXCEPT ![r] = new] /\ UNCHANGED <<inbox, stores, done>>
        /\ old.rest # <<>>
    BY <1>1, <1>2 DEF Miss
  <2>2. new \in Read /\ new.at = "missed" /\ new.rest = old.rest /\ new.got = old.got
    BY ReadingFields DEF Read
  <2> HIDE DEF new
  <2>3. ReadSound(new)
    BY <1>1, <2>1, <2>2 DEF ReadSound
  <2> QED
    BY <1>1, <2>1, <2>2, <2>3, SameHands
<1>3. CASE SkipMissing(r)
  <2> DEFINE new == Reading("take", Tail(old.rest), old.want, old.got)
  <2>1. read' = [read EXCEPT ![r] = new] /\ UNCHANGED <<inbox, stores, done>>
    BY <1>1, <1>3 DEF SkipMissing
  <2>2. old.rest # <<>>
    BY <1>1, <1>3 DEF SkipMissing, ReadSound
  <2>3. Tail(old.rest) \in Seq(Mail)
    BY <1>1, <2>2, TailOfList
  <2>4. new \in Read /\ new.at = "take" /\ new.rest = Tail(old.rest) /\ new.got = old.got
    <3>1. PICK tail \in Seq(Mail) : tail = Tail(old.rest)
      BY <2>3
    <3>2. old.want \in Nat /\ old.got \in SUBSET Mail
      BY DEF Read
    <3>3. new = Reading("take", tail, old.want, old.got)
      BY <3>1
    <3> HIDE DEF new
    <3>4. new \in Read /\ new.at = "take" /\ new.rest = tail /\ new.got = old.got
      BY <3>3, <3>2, ReadingFields
    <3> QED
      BY <3>1, <3>2, <3>4
  <2> HIDE DEF new
  <2>5. ReadSound(new)
    BY <1>1, <2>2, <2>4, TailSound
  <2> QED
    BY <1>1, <2>1, <2>4, <2>5, SameHands
<1> QED
  BY <1>2, <1>3

LEMMA MailStutters ==
  ASSUME MailInv, UNCHANGED inboxVars
  PROVE  MailInv'
<1>1. \A m : Holding(m)' = Holding(m)
  BY DEF Holding, inboxVars
<1> QED
  BY <1>1 DEF MailInv, MailTypeOK, Conserved, inboxVars

LEMMA ReadMail ==
  ASSUME MailInv, NEW r \in Readers,
         \/ BeginRead(r) \/ Take(r) \/ Miss(r) \/ SkipMissing(r)
         \/ EndRead(r) \/ MissThrows(r) \/ ReaderKilled(r)
  PROVE  MailInv'
<1>1. CASE EndRead(r) \/ MissThrows(r) \/ ReaderKilled(r)
  BY <1>1, HandsEmptied DEF EndRead, MissThrows, ReaderKilled, ReadFails
<1> QED
  BY <1>1, BeginReadMail, TakeMail, MissMail

LEMMA MailNext == MailInv /\ [Next]_vars => MailInv'
<1> SUFFICES ASSUME MailInv, [Next]_vars PROVE MailInv'
  OBVIOUS
<1>1. ASSUME NEW m \in Mail, MessageStored(m) \/ Notice(m) PROVE MailInv'
  BY <1>1, StoreMail DEF MessageStored, Notice
<1>2. CASE MessageNotified \/ OtherTimer \/ Shutdown \/ ProcessEnds \/ Start \/ Tick
  BY <1>2, MailStutters DEF MessageNotified, OtherTimer, Shutdown, ProcessEnds, Start, Tick
<1>3. ASSUME NEW c \in Readers, StartCommand(c) \/ CommandReads(c) \/ CommandExits(c)
      PROVE  MailInv'
  BY <1>3, MailStutters, ReadMail DEF StartCommand, CommandReads, CommandExits
<1>4. ASSUME NEW r \in Readers, ReadGoesOn(r) \/ ReadEnds(r) \/ UserReads(r)
      PROVE  MailInv'
  BY <1>4, ReadMail DEF ReadGoesOn, ReadEnds, UserReads
<1>5. CASE UNCHANGED vars
  BY <1>5, MailStutters DEF vars
<1> QED
  BY <1>1, <1>2, <1>3, <1>4, <1>5 DEF Next

\* No message is read twice and none disappears: every copy that was written is in
\* the inbox, in the hands of one read, or was taken by one that has ended, however
\* many processes read and are killed (takeInboxMessages, agent-state.ts).
THEOREM EveryCopyReadOnce == Spec => []MailConserved
<1>1. MailInv => MailConserved
  BY DEF MailInv, Conserved, Holding, MailConserved
<1> QED
  BY <1>1, MailInit, MailNext, PTL DEF Spec

(***************************************************************************)
(* Commands.                                                               *)
(***************************************************************************)
CommandInv ==
  /\ running \in BOOLEAN
  /\ running => \E c \in Readers : mine = {c}
  /\ ~running => mine = {}

\* A command of the runner is there, and each sidecar that ended left one at most.
Ended == restarts + IF sidecar = "down" THEN 1 ELSE 0
OrphanInv ==
  /\ mine \subseteq {c \in Readers : turn[c] # "off"}
  /\ turn \in [Readers -> {"off", "started", "reading", "read"}]
  /\ restarts \in Nat
  /\ Cardinality(Orphans) <= Ended

LEMMA CommandNext == CommandInv /\ [Next]_vars => CommandInv'
<1> SUFFICES ASSUME CommandInv, [Next]_vars PROVE CommandInv'
  OBVIOUS
<1> USE DEF CommandInv
<1>1. ASSUME NEW m \in Mail, MessageStored(m) \/ Notice(m) PROVE CommandInv'
  BY <1>1 DEF MessageStored, Notice, agentVars, wakeVars
<1>2. CASE MessageNotified
  BY <1>2 DEF MessageNotified, Notify
<1>3. CASE OtherTimer
  BY <1>3 DEF OtherTimer, FireInVain, FireTooEarly, RunFails, agentVars
<1>4. CASE Shutdown
  BY <1>4 DEF Shutdown, Dispose
<1>5. CASE ProcessEnds
  BY <1>5 DEF ProcessEnds
<1>6. CASE Start
  BY <1>6 DEF Start, wakeVars
<1>7. CASE Tick
  BY <1>7 DEF Tick, Pass, agentVars
<1>8. ASSUME NEW c \in Readers, StartCommand(c) PROVE CommandInv'
  BY <1>8 DEF StartCommand, Run, MayRun
<1>9. ASSUME NEW c \in Readers, CommandReads(c) PROVE CommandInv'
  BY <1>9 DEF CommandReads, wakeVars
<1>10. ASSUME NEW c \in Readers, CommandExits(c) PROVE CommandInv'
  BY <1>10 DEF CommandExits, CommandEnds, wakeVars
<1>11. ASSUME NEW r \in Readers, ReadGoesOn(r) \/ ReadEnds(r) \/ UserReads(r)
       PROVE  CommandInv'
  BY <1>11 DEF ReadGoesOn, ReadEnds, UserReads, agentVars, wakeVars
<1>12. CASE UNCHANGED vars
  BY <1>12 DEF vars, agentVars, wakeVars
<1> QED
  BY <1>1, <1>2, <1>3, <1>4, <1>5, <1>6, <1>7, <1>8, <1>9, <1>10, <1>11, <1>12 DEF Next

\* Where the commands of ended sidecars are no more than before.
LEMMA NoMoreOrphans ==
  ASSUME OrphanInv, Orphans' \subseteq Orphans, restarts' = restarts,
         sidecar' = "down" \/ sidecar # "down"
  PROVE  Cardinality(Orphans') <= Ended'
<1>1. IsFiniteSet(Orphans)
  BY FS_Subset, InboxAssumption DEF Orphans
<1>2. Cardinality(Orphans') <= Cardinality(Orphans) /\ Cardinality(Orphans') \in Nat
        /\ Cardinality(Orphans) \in Nat
  BY <1>1, FS_Subset, FS_CardinalityType
<1> QED
  BY <1>2 DEF OrphanInv, Ended

\* Steps that leave the sidecar and its commands alone, but for how far they are.
LEMMA SameCommands ==
  ASSUME OrphanInv, UNCHANGED <<sidecar, restarts, mine>>,
         turn' \in [Readers -> {"off", "started", "reading", "read"}],
         \A c \in Readers : turn'[c] = "off" <=> turn[c] = "off"
  PROVE  OrphanInv'
<1>1. Orphans' = Orphans
  BY DEF Orphans
<1>2. Cardinality(Orphans') <= Ended'
  BY <1>1, NoMoreOrphans DEF OrphanInv
<1> QED
  BY <1>2 DEF OrphanInv

LEMMA OrphanNext == CommandInv /\ OrphanInv /\ [Next]_vars => OrphanInv'
<1> SUFFICES ASSUME CommandInv, OrphanInv, [Next]_vars PROVE OrphanInv'
  OBVIOUS
<1>1. CASE UNCHANGED <<sidecar, restarts, mine, turn>>
  BY <1>1, SameCommands DEF OrphanInv
<1>2. ASSUME NEW m \in Mail, MessageStored(m) \/ Notice(m) PROVE OrphanInv'
  BY <1>1, <1>2 DEF MessageStored, Notice, agentVars
<1>3. CASE MessageNotified \/ OtherTimer \/ Tick
  BY <1>1, <1>3 DEF MessageNotified, OtherTimer, Tick, agentVars
<1>4. CASE Shutdown
  <2>1. sidecar # "down" /\ sidecar' # "down" /\ UNCHANGED <<restarts, mine, turn>>
    BY <1>4 DEF Shutdown
  <2>2. Cardinality(Orphans') <= Ended'
    BY <2>1, NoMoreOrphans DEF Orphans
  <2> QED
    BY <2>1, <2>2 DEF OrphanInv
<1>5. CASE ProcessEnds
  <2>1. /\ sidecar # "down" /\ sidecar' = "down" /\ mine' = {}
        /\ UNCHANGED <<restarts, turn>>
    BY <1>5 DEF ProcessEnds
  <2>2. Orphans' \subseteq Orphans \cup mine
    BY <2>1 DEF Orphans
  <2>3. /\ IsFiniteSet(Orphans) /\ Cardinality(Orphans) \in Nat
        /\ Cardinality(Orphans) <= restarts
    BY <2>1, FS_Subset, FS_CardinalityType, InboxAssumption DEF Orphans, OrphanInv, Ended
  <2>4. PICK c : mine \subseteq {c}
    BY DEF CommandInv
  <2>5. /\ IsFiniteSet(Orphans \cup {c})
        /\ Cardinality(Orphans \cup {c}) <= Cardinality(Orphans) + 1
    BY <2>3, FS_AddElement
  <2>6. /\ Cardinality(Orphans') <= Cardinality(Orphans \cup {c})
        /\ Cardinality(Orphans') \in Nat /\ Cardinality(Orphans \cup {c}) \in Nat
    BY <2>2, <2>4, <2>5, FS_Subset, FS_CardinalityType
  <2>7. Cardinality(Orphans') <= Ended'
    BY <2>1, <2>3, <2>5, <2>6 DEF Ended, OrphanInv
  <2> QED
    BY <2>1, <2>7 DEF OrphanInv
<1>6. CASE Start
  <2>1. /\ sidecar = "down" /\ sidecar' = "up" /\ restarts' = restarts + 1
        /\ UNCHANGED <<mine, turn>>
    BY <1>6 DEF Start
  <2>2. Orphans' = Orphans /\ Ended' = Ended
    BY <2>1 DEF Orphans, Ended, OrphanInv
  <2> QED
    BY <2>1, <2>2 DEF OrphanInv
<1>7. ASSUME NEW c \in Readers, StartCommand(c) PROVE OrphanInv'
  <2>1. /\ UNCHANGED <<sidecar, restarts>> /\ mine' = mine \cup {c}
        /\ turn' = [turn EXCEPT ![c] = "started"]
    BY <1>7 DEF StartCommand
  <2>2. /\ turn' \in [Readers -> {"off", "started", "reading", "read"}]
        /\ \A d \in Readers : turn'[d] = IF d = c THEN "started" ELSE turn[d]
    BY <2>1 DEF OrphanInv
  <2>3. Orphans' \subseteq Orphans /\ mine' \subseteq {d \in Readers : turn'[d] # "off"}
    BY <2>1, <2>2 DEF Orphans, OrphanInv
  <2>4. Cardinality(Orphans') <= Ended'
    BY <2>1, <2>3, NoMoreOrphans
  <2> QED
    BY <2>1, <2>2, <2>3, <2>4 DEF OrphanInv
<1>8. ASSUME NEW c \in Readers, CommandReads(c) PROVE OrphanInv'
  <2>1. PICK at \in {"reading", "read"} : turn' = [turn EXCEPT ![c] = at]
    BY <1>8 DEF CommandReads
  <2>2. turn[c] = "started" /\ UNCHANGED <<sidecar, restarts, mine>>
    BY <1>8 DEF CommandReads
  <2>3. /\ turn' \in [Readers -> {"off", "started", "reading", "read"}]
        /\ \A d \in Readers : turn'[d] = IF d = c THEN at ELSE turn[d]
    BY <2>1 DEF OrphanInv
  <2> QED
    BY <2>2, <2>3, SameCommands
<1>9. ASSUME NEW c \in Readers, CommandExits(c) PROVE OrphanInv'
  <2>1. /\ UNCHANGED <<sidecar, restarts>> /\ mine' = mine \ {c}
        /\ turn' = [turn EXCEPT ![c] = "off"]
    BY <1>9 DEF CommandExits
  <2>2. /\ turn' \in [Readers -> {"off", "started", "reading", "read"}]
        /\ \A d \in Readers : turn'[d] = IF d = c THEN "off" ELSE turn[d]
    BY <2>1 DEF OrphanInv
  <2>3. Orphans' \subseteq Orphans /\ mine' \subseteq {d \in Readers : turn'[d] # "off"}
    BY <2>1, <2>2 DEF Orphans, OrphanInv
  <2>4. Cardinality(Orphans') <= Ended'
    BY <2>1, <2>3, NoMoreOrphans
  <2> QED
    BY <2>1, <2>2, <2>3, <2>4 DEF OrphanInv
<1>10. ASSUME NEW r \in Readers, ReadEnds(r) PROVE OrphanInv'
  <2>1. /\ turn' = [turn EXCEPT ![r] = IF turn[r] = "reading" THEN "read" ELSE turn[r]]
        /\ UNCHANGED <<sidecar, restarts, mine>>
    BY <1>10 DEF ReadEnds
  <2>2. /\ turn' \in [Readers -> {"off", "started", "reading", "read"}]
        /\ \A d \in Readers :
             turn'[d] = IF d = r /\ turn[r] = "reading" THEN "read" ELSE turn[d]
    BY <2>1 DEF OrphanInv
  <2> QED
    BY <2>1, <2>2, SameCommands
<1>11. ASSUME NEW r \in Readers, ReadGoesOn(r) \/ UserReads(r) PROVE OrphanInv'
  BY <1>1, <1>11 DEF ReadGoesOn, UserReads, agentVars
<1>12. CASE UNCHANGED vars
  BY <1>1, <1>12 DEF vars, agentVars
<1> QED
  BY <1>2, <1>3, <1>4, <1>5, <1>6, <1>7, <1>8, <1>9, <1>10, <1>11, <1>12 DEF Next

\* The runner of a sidecar has at most one wake command that has not ended, and knows
\* of it: the next one waits for its exit (fire, run and settle of wake.ts).  It knows
\* nothing of a command that outlived the sidecar which started it: of those there is
\* at most one for each sidecar that has ended, and it may run beside the runner's own.
THEOREM OneCommandAtATime == Spec => []OneCommand
<1>1. Init => CommandInv /\ OrphanInv
  <2> SUFFICES ASSUME Init PROVE CommandInv /\ OrphanInv
    OBVIOUS
  <2>1. Orphans = {}
    BY DEF Init, Orphans
  <2>2. Cardinality(Orphans) = 0
    BY <2>1, FS_EmptySet
  <2>3. Ended = 0
    BY DEF Init, Ended
  <2>4. turn \in [Readers -> {"off", "started", "reading", "read"}] /\ mine = {} /\ restarts = 0
    BY DEF Init
  <2>5. CommandInv
    BY DEF Init, WakeInit, CommandInv
  <2>6. OrphanInv
    BY <2>2, <2>3, <2>4 DEF OrphanInv
  <2> QED
    BY <2>5, <2>6
<1>2. CommandInv /\ OrphanInv => OneCommand
  BY FS_EmptySet, FS_Singleton DEF CommandInv, OrphanInv, OneCommand, Ended
<1> QED
  BY <1>1, <1>2, CommandNext, OrphanNext, PTL DEF Spec

(***************************************************************************)
(* The rate limit.  What the runner keeps of its runs, less what has left  *)
(* the window, is what it has run in the window; it drops old runs at      *)
(* other moments than the window does.                                     *)
(***************************************************************************)
Ages == 0 .. Window

LimitInv ==
  /\ recent \in Seq(Ages) /\ ran \in Seq(Ages)
  /\ Limit > 0 => ran = InWindow(recent) /\ Len(ran) <= Limit

LEMMA WindowFacts ==
  ASSUME NEW s \in Seq(Ages)
  PROVE  /\ InWindow(s) \in Seq(Ages) /\ InWindow(s) \in Seq(0 .. Window - 1)
         /\ Len(InWindow(s)) <= Len(s)
         /\ InWindow(InWindow(s)) = InWindow(s)
<1>1. Ages \cap (0 .. Window - 1) = 0 .. Window - 1
  BY WakeAssumption DEF Ages
<1>2. InWindow(s) \in Seq(0 .. Window - 1) /\ InWindow(s) \in Seq(Ages) /\ Len(InWindow(s)) <= Len(s)
  BY <1>1, OnlyType DEF InWindow
<1> QED
  BY <1>2, OnlyAll DEF InWindow

LEMMA WindowAppend ==
  ASSUME NEW s \in Seq(Ages), NEW x \in Ages
  PROVE  /\ x < Window => InWindow(Append(s, x)) = Append(InWindow(s), x)
         /\ ~(x < Window) => InWindow(Append(s, x)) = InWindow(s)
<1> DEFINE keep == 0 .. Window - 1
<1>1. x \in keep <=> x < Window
  BY WakeAssumption DEF Ages
<1> HIDE DEF keep
<1>2. Only(Append(s, x), keep) = IF x \in keep THEN Append(Only(s, keep), x) ELSE Only(s, keep)
  BY OnlyAppend
<1>3. InWindow(s) = Only(s, keep) /\ InWindow(Append(s, x)) = Only(Append(s, x), keep)
  BY DEF InWindow, keep
<1> QED
  BY <1>1, <1>2, <1>3

LEMMA OlderFacts ==
  ASSUME NEW s \in Seq(Ages)
  PROVE  /\ Older(s) \in Seq(Ages) /\ Len(Older(s)) = Len(s)
         /\ \A x \in Ages : Older(Append(s, x)) =
                              Append(Older(s), IF x < Window THEN x + 1 ELSE Window)
<1> DEFINE age(x) == IF x < Window THEN x + 1 ELSE Window
<1>1. \A x \in Ages : age(x) \in Ages
  BY WakeAssumption DEF Ages
<1>2. Older(s) \in Seq(Ages) /\ Len(Older(s)) = Len(s) /\ \A i \in 1 .. Len(s) : Older(s)[i] = age(s[i])
  BY <1>1 DEF Older
<1>3. ASSUME NEW x \in Ages PROVE Older(Append(s, x)) = Append(Older(s), age(x))
  <2>1. PICK n \in Nat : n = Len(s)
    OBVIOUS
  <2>2. PICK t \in Seq(Ages) : /\ t = Append(s, x) /\ Len(t) = n + 1 /\ t[n + 1] = x
                               /\ \A i \in 1 .. n : t[i] = s[i]
    <3>1. Append(s, x) \in Seq(Ages) /\ Len(Append(s, x)) = n + 1 /\ Append(s, x)[n + 1] = x
      BY <2>1
    <3>2. \A i \in 1 .. n : Append(s, x)[i] = s[i]
      BY <2>1
    <3> QED
      BY <3>1, <3>2
  <2>3. Older(t) = [i \in 1 .. n + 1 |-> age(t[i])]
    BY <2>2 DEF Older
  <2>4. PICK u \in Seq(Ages) : u = Older(s) /\ Len(u) = n /\ \A i \in 1 .. n : u[i] = age(s[i])
    BY <1>2, <2>1
  <2>5. PICK y \in Ages : y = age(x)
    BY <1>1
  <2>6. Append(u, y) = [i \in 1 .. n + 1 |-> age(t[i])]
    BY <2>2, <2>4, <2>5
  <2> QED
    BY <2>2, <2>3, <2>4, <2>5, <2>6
<1> QED
  BY <1>2, <1>3

\* A run that has left the window does not come back into it.
LEMMA WindowLater ==
  ASSUME NEW s \in Seq(Ages)
  PROVE  InWindow(Older(InWindow(s))) = InWindow(Older(s))
<1> DEFINE Good == {t \in Seq(Ages) : InWindow(Older(InWindow(t))) = InWindow(Older(t))}
<1>1. <<>> \in Good
  <2>1. InWindow(<<>>) = <<>>
    BY OnlyEmpty DEF InWindow
  <2> QED
    BY <2>1
<1>2. ASSUME NEW t \in Seq(Ages), NEW x \in Ages, t \in Good PROVE Append(t, x) \in Good
  <2>0. Append(t, x) \in Seq(Ages)
    OBVIOUS
  <2>1. PICK y \in Ages : /\ y = IF x < Window THEN x + 1 ELSE Window
                          /\ ~(x < Window) => ~(y < Window)
    BY WakeAssumption DEF Ages
  <2>2. PICK in \in Seq(Ages) : in = InWindow(t)
    BY WindowFacts
  <2>3. PICK old \in Seq(Ages) : old = Older(t)
    BY OlderFacts
  <2>4. PICK next \in Seq(Ages) : next = Older(in)
    BY OlderFacts
  <2>5. InWindow(next) = InWindow(old)
    BY <1>2, <2>2, <2>3, <2>4
  <2>6. Older(Append(t, x)) = Append(old, y)
    BY <2>1, <2>3, OlderFacts
  <2>7. InWindow(Append(old, y)) = IF y < Window THEN Append(InWindow(old), y) ELSE InWindow(old)
    BY WindowAppend
  <2>8. InWindow(Append(next, y)) = IF y < Window THEN Append(InWindow(next), y) ELSE InWindow(next)
    BY WindowAppend
  <2>9. CASE x < Window
    <3>1. InWindow(Append(t, x)) = Append(in, x)
      BY <2>2, <2>9, WindowAppend
    <3>2. Older(Append(in, x)) = Append(next, y)
      BY <2>1, <2>4, OlderFacts
    <3>3. InWindow(Append(next, y)) = InWindow(Append(old, y))
      BY <2>5, <2>7, <2>8
    <3> QED
      BY <2>0, <2>6, <3>1, <3>2, <3>3
  <2>10. CASE ~(x < Window)
    <3>1. InWindow(Append(t, x)) = in
      BY <2>2, <2>10, WindowAppend
    <3>2. InWindow(Append(old, y)) = InWindow(old)
      BY <2>1, <2>7, <2>10
    <3> QED
      BY <2>0, <2>4, <2>5, <2>6, <3>1, <3>2
  <2> QED
    BY <2>9, <2>10
<1>3. s \in Good
  <2> HIDE DEF Good
  <2> QED
    BY <1>1, <1>2, ListInduct
<1> QED
  BY <1>3

LEMMA RunLimited ==
  ASSUME LimitInv, MayRun, Recorded
  PROVE  LimitInv'
<1>1. 0 \in Ages
  BY WakeAssumption DEF Ages
<1>2. CASE Limit > 0
  <2>1. PICK in \in Seq(Ages) : in = InWindow(recent) /\ InWindow(in) = in /\ in \in Seq(0 .. Window - 1)
    BY WindowFacts DEF LimitInv
  <2>2. recent' = Append(in, 0) /\ ran' = Append(in, 0)
    BY <1>2, <2>1 DEF Recorded, LimitInv
  <2>3. InWindow(Append(in, 0)) = Append(in, 0)
    BY <1>1, <2>1, WindowAppend, WakeAssumption
  <2>4. Len(in) < Limit
    <3> SUFFICES ASSUME ~(Len(in) < Limit) PROVE FALSE
      OBVIOUS
    <3>1. Wait = Window - in[1] + 1
      BY <1>2, <2>1 DEF Wait
    <3>2. Len(in) > 0
      BY <1>2, WakeAssumption
    <3>3. in[1] \in 0 .. Window - 1
      <4>1. \A S : \A s \in Seq(S) : \A i \in 1 .. Len(s) : s[i] \in S
        OBVIOUS
      <4>2. 1 \in 1 .. Len(in)
        BY <3>2
      <4> QED
        BY <2>1, <4>1, <4>2
    <3>4. Wait # 0
      BY <3>1, <3>3, WakeAssumption
    <3> QED
      BY <3>4 DEF MayRun
  <2>5. Append(in, 0) \in Seq(Ages) /\ Len(Append(in, 0)) = Len(in) + 1
    BY <1>1
  <2>6. Len(Append(in, 0)) <= Limit
    BY <2>4, <2>5, WakeAssumption
  <2> QED
    BY <2>2, <2>3, <2>5, <2>6 DEF LimitInv
<1>3. CASE ~(Limit > 0)
  BY <1>3 DEF LimitInv, Recorded
<1> QED
  BY <1>2, <1>3

LEMMA PassLimited ==
  ASSUME LimitInv, Pass
  PROVE  LimitInv'
<1>1. PICK r \in Seq(Ages), in \in Seq(Ages) : r = recent /\ in = ran
  BY DEF LimitInv
<1>2. Older(r) \in Seq(Ages) /\ Older(in) \in Seq(Ages) /\ Len(Older(in)) = Len(in)
  BY OlderFacts
<1>3. InWindow(Older(in)) \in Seq(Ages) /\ Len(InWindow(Older(in))) <= Len(Older(in))
  BY <1>2, WindowFacts
<1>4. recent' = Older(r) /\ ran' = InWindow(Older(in))
  BY <1>1 DEF Pass
<1>5. ASSUME Limit > 0 PROVE ran' = InWindow(recent') /\ Len(ran') <= Limit
  <2>1. in = InWindow(r) /\ Len(in) <= Limit
    BY <1>1, <1>5 DEF LimitInv
  <2>2. InWindow(Older(in)) = InWindow(Older(r))
    BY <2>1, WindowLater
  <2>3. Len(InWindow(Older(in))) \in Nat /\ Len(in) \in Nat
    BY <1>3
  <2> QED
    BY <1>2, <1>3, <1>4, <2>1, <2>2, <2>3, WakeAssumption
<1> QED
  BY <1>2, <1>3, <1>4, <1>5 DEF LimitInv

LEMMA LimitNext == LimitInv /\ [Next]_vars => LimitInv'
<1> SUFFICES ASSUME LimitInv, [Next]_vars PROVE LimitInv'
  OBVIOUS
<1>0. ASSUME UNCHANGED <<recent, ran>> PROVE LimitInv'
  BY <1>0 DEF LimitInv, InWindow
<1>1. ASSUME NEW m \in Mail, MessageStored(m) \/ Notice(m) PROVE LimitInv'
  BY <1>0, <1>1 DEF MessageStored, Notice, agentVars, wakeVars
<1>2. CASE MessageNotified
  BY <1>0, <1>2 DEF MessageNotified, Notify
<1>3. CASE OtherTimer
  <2>1. CASE FireInVain
    BY <1>0, <2>1 DEF FireInVain
  <2>2. CASE FireTooEarly
    <3>1. recent' = InWindow(recent) /\ ran' = ran
      BY <2>2 DEF FireTooEarly
    <3>2. InWindow(recent) \in Seq(Ages) /\ InWindow(InWindow(recent)) = InWindow(recent)
      BY WindowFacts DEF LimitInv
    <3> QED
      BY <3>1, <3>2 DEF LimitInv
  <2>3. CASE RunFails
    BY <2>3, RunLimited DEF RunFails
  <2> QED
    BY <1>3, <2>1, <2>2, <2>3 DEF OtherTimer
<1>4. CASE Shutdown
  BY <1>0, <1>4 DEF Shutdown, Dispose
<1>5. CASE ProcessEnds
  <2>1. recent' = <<>> /\ ran' = <<>> /\ InWindow(<<>>) = <<>>
    BY <1>5, OnlyEmpty DEF ProcessEnds, InWindow
  <2>2. <<>> \in Seq(Ages) /\ Len(<<>>) <= Limit
    BY WakeAssumption
  <2> QED
    BY <2>1, <2>2 DEF LimitInv
<1>6. CASE Start
  BY <1>0, <1>6 DEF Start, wakeVars
<1>7. CASE Tick
  BY <1>7, PassLimited DEF Tick
<1>8. ASSUME NEW c \in Readers, StartCommand(c) PROVE LimitInv'
  BY <1>8, RunLimited DEF StartCommand, Run
<1>9. ASSUME NEW c \in Readers, CommandReads(c) PROVE LimitInv'
  BY <1>0, <1>9 DEF CommandReads, wakeVars
<1>10. ASSUME NEW c \in Readers, CommandExits(c) PROVE LimitInv'
  BY <1>0, <1>10 DEF CommandExits, CommandEnds, wakeVars
<1>11. ASSUME NEW r \in Readers, ReadGoesOn(r) \/ ReadEnds(r) \/ UserReads(r)
       PROVE  LimitInv'
  BY <1>0, <1>11 DEF ReadGoesOn, ReadEnds, UserReads, agentVars, wakeVars
<1>12. CASE UNCHANGED vars
  BY <1>0, <1>12 DEF vars, agentVars, wakeVars
<1> QED
  BY <1>1, <1>2, <1>3, <1>4, <1>5, <1>6, <1>7, <1>8, <1>9, <1>10, <1>11, <1>12 DEF Next

\* One runner starts no more than Limit wake commands in any window of time, whatever
\* the delays, the starts that fail and the messages that arrive while it waits, also
\* when the old runs are dropped late (throttleDelayMs and run of wake.ts).  The
\* history is in memory: the runner of a restarted sidecar counts anew.
THEOREM NoMoreThanTheLimit == Spec => []RateLimited
<1>1. Init => LimitInv
  <2> SUFFICES ASSUME Init PROVE LimitInv
    OBVIOUS
  <2>1. recent = <<>> /\ ran = <<>> /\ InWindow(<<>>) = <<>>
    BY OnlyEmpty DEF Init, WakeInit, InWindow
  <2>2. <<>> \in Seq(Ages) /\ Len(<<>>) <= Limit
    BY WakeAssumption
  <2> QED
    BY <2>1, <2>2 DEF LimitInv
<1>2. LimitInv => RateLimited
  BY DEF LimitInv, RateLimited
<1> QED
  BY <1>1, <1>2, LimitNext, PTL DEF Spec
=============================================================================
