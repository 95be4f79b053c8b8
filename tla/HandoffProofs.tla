--------------------------- MODULE HandoffProofs ---------------------------
(***************************************************************************)
(* Proofs about Handoff, for any number of peers, actions, readers,        *)
(* attempts and restarts: what is stored and confirmed, and that the       *)
(* sidecars implement the promise of HandoffAbs.                           *)
(***************************************************************************)
EXTENDS Handoff, ListFacts, TLAPS

\* What a message, a record or a confirmation says is signed by the instance
\* whose envelope is on the sender's disk, and a receipt only speaks of a record.
Signature(i, by) == i \in Handoffs /\ by = envelope[i] /\ by # 0

Notes == [kind : {"request", "receipt"}, id : Handoffs, by : Nat, try : Nat]

Truthful(m) == Signature(m.id, m.by) /\ (m.kind = "receipt" => Key(m) \in records)

Signatures ==
  /\ envelope \in [Items -> Nat] /\ inst \in Nat \ {0} /\ attempts \in [Items -> Nat]
  /\ status \in [Items -> {"none", "queued", "awaiting_receipt", "stored", "expired"}]
  /\ \A i \in Items : pass # <<>> /\ Head(pass) = i /\ step \in {"attempted", "transmitted"}
                        => i \in Handoffs /\ envelope[i] # 0

Honest ==
  /\ net \subseteq Notes /\ owed \in [Peers -> Notes \cup {None}]
  /\ records \subseteq Handoffs \X Nat
  /\ \A m \in net : Truthful(m)
  /\ \A p \in Peers : owed[p] # None => Truthful(owed[p]) /\ owed[p].kind = "receipt"
  /\ \A k \in records : Signature(k[1], k[2])
  /\ \A i \in Handoffs : status[i] = "stored" => <<i, envelope[i]>> \in records

HInv == Signatures /\ Honest

LEMMA HInvInit == Init => HInv
<1>1. SUFFICES ASSUME Init PROVE HInv
  OBVIOUS
<1>2. Signatures
  BY <1>1, HandoffAssumption DEF Init, Signatures
<1>3. Honest
  BY <1>1, HandoffAssumption DEF Init, Honest
<1>. QED
  BY <1>2, <1>3 DEF HInv

-----------------------------------------------------------------------------
(* The steps of a flush. *)

\* The first flush of an action signs it, and later ones leave that alone.
LEMMA SignedOnce ==
  ASSUME Signatures, NEW i \in Items, envelope' = Signed(i)
  PROVE  /\ envelope' \in [Items -> Nat] /\ envelope'[i] # 0
         /\ \A j \in Items : envelope[j] # 0 => envelope'[j] = envelope[j]
BY DEF Signatures, Signed

\* Nothing is said anew and no signature changes: what was said stays true.
LEMMA HonestKept ==
  ASSUME HInv, net' = net, owed' = owed, records' = records,
         \A j \in Items : envelope[j] # 0 => envelope'[j] = envelope[j],
         \A j \in Handoffs : status'[j] = "stored" => status[j] = "stored"
  PROVE  Honest'
<1>1. Honest
  BY DEF HInv
<1>2. ASSUME NEW m, Truthful(m) PROVE Truthful(m)'
  BY <1>2, HandoffAssumption DEF Truthful, Signature, Key
<1>3. \A k \in records' : Signature(k[1], k[2])'
  BY <1>1, HandoffAssumption DEF Honest, Signature
<1>4. ASSUME NEW i \in Handoffs, status'[i] = "stored" PROVE <<i, envelope'[i]>> \in records'
  <2>1. <<i, envelope[i]>> \in records
    BY <1>1, <1>4 DEF Honest
  <2>2. envelope[i] # 0
    BY <1>1, <2>1 DEF Honest, Signature
  <2>. QED
    BY <2>1, <2>2, HandoffAssumption
<1>. QED
  BY <1>1, <1>2, <1>3, <1>4 DEF Honest

\* A flush in between two actions promises nothing about its next one.
LEMMA SignaturesKept ==
  ASSUME Signatures, envelope' \in [Items -> Nat], inst' = inst,
         status' \in [Items -> {"none", "queued", "awaiting_receipt", "stored", "expired"}],
         attempts' = attempts, step' \in {"item", "done"}
  PROVE  Signatures'
BY DEF Signatures

LEMMA FlushStepInv ==
  ASSUME HInv, NEW i \in Items, FlushStep(i)
  PROVE  HInv'
<1>. USE HandoffAssumption
<1>0. Signatures /\ Honest
  BY DEF HInv
<1>1. CASE SkipBlocked(i)
  BY <1>0, <1>1, HonestKept, SignaturesKept DEF HInv, SkipBlocked, NextItem, disk, world, receiver, Signatures
<1>2. CASE SendDm(i)
  BY <1>0, <1>2, HonestKept, SignaturesKept, SignedOnce DEF HInv, SendDm, Turn, At, NextItem, world, receiver, Signatures
<1>3. CASE RemoveDone(i)
  BY <1>0, <1>3, HonestKept, SignaturesKept DEF HInv, RemoveDone, NextItem, world, receiver, Signatures
<1>4. CASE ItemFails(i)
  BY <1>0, <1>4, HonestKept, SignaturesKept, SignedOnce DEF HInv, ItemFails, NextItem, world, receiver, Signatures
<1>5. CASE HandoffStored(i)
  BY <1>0, <1>5, HonestKept, SignaturesKept, SignedOnce DEF HInv, HandoffStored, Turn, NextItem, world, receiver, Signatures
<1>6. CASE HandoffExpires(i)
  BY <1>0, <1>6, HonestKept, SignaturesKept, SignedOnce DEF HInv, HandoffExpires, Turn, world, receiver, Signatures
<1>7. CASE HandoffWaits(i)
  BY <1>0, <1>7, HonestKept, SignaturesKept, SignedOnce DEF HInv, HandoffWaits, Open, Turn, Started, NextItem, world, receiver, Signatures
<1>8. CASE HandoffBacksOff(i)
  BY <1>0, <1>8, HonestKept, SignaturesKept, SignedOnce DEF HInv, HandoffBacksOff, Open, Turn, NextItem, world, receiver, Signatures
<1>9. CASE HandoffAttempt(i)
  <2>1. envelope' \in [Items -> Nat] /\ envelope'[i] # 0
        /\ \A j \in Items : envelope[j] # 0 => envelope'[j] = envelope[j]
    BY <1>0, <1>9, SignedOnce DEF HandoffAttempt, Open, Turn
  <2>2. Signatures'
    <3>1. status' \in [Items -> {"none", "queued", "awaiting_receipt", "stored", "expired"}]
          /\ attempts' \in [Items -> Nat] /\ inst' = inst
      BY <1>0, <1>9 DEF HandoffAttempt, Started, Signatures
    <3>2. i \in Handoffs /\ pass' = pass /\ Head(pass) = i
      BY <1>9 DEF HandoffAttempt, Open, Turn, At
    <3>. QED
      BY <1>0, <2>1, <3>1, <3>2 DEF Signatures
  <2>3. Honest'
    BY <1>0, <1>9, <2>1, HonestKept DEF HandoffAttempt, Open, Turn, Started, Signatures, world, receiver
  <2>. QED
    BY <2>2, <2>3 DEF HInv
<1>10. CASE HandoffTransmit(i)
  <2>1. i \in Handoffs /\ envelope[i] # 0
    BY <1>0, <1>10 DEF HandoffTransmit, At, Signatures
  <2>2. Signatures'
    BY <1>0, <1>10, <2>1 DEF HandoffTransmit, At, NextItem, Signatures, disk
  <2>3. Honest'
    <3>1. UNCHANGED <<envelope, status, owed, records>> /\ (net' = net \/ net' = net \cup {Request(i, attempts[i])})
      BY <1>10 DEF HandoffTransmit, disk, receiver
    <3>2. ASSUME NEW m, Truthful(m) PROVE Truthful(m)'
      BY <3>1, <3>2 DEF Truthful, Signature, Key
    <3>3. Request(i, attempts[i]) \in Notes /\ Truthful(Request(i, attempts[i]))
      BY <1>0, <2>1 DEF Request, Notes, Truthful, Signature, Signatures
    <3>. QED
      BY <1>0, <3>1, <3>2, <3>3 DEF Honest, Signature
  <2>. QED
    BY <2>2, <2>3 DEF HInv
<1>11. CASE HandoffRecord(i)
  BY <1>0, <1>11, HonestKept, SignaturesKept DEF HInv, HandoffRecord, NextItem, world, receiver, Signatures
<1>. QED
  BY <1>1, <1>2, <1>3, <1>4, <1>5, <1>6, <1>7, <1>8, <1>9, <1>10, <1>11 DEF FlushStep

-----------------------------------------------------------------------------
(* The other handlers, and the invariant. *)

LEMMA ReceiptArrivesInv ==
  ASSUME HInv, NEW m \in net, ReceiptArrives(m)
  PROVE  HInv'
<1>. USE HandoffAssumption
<1>1. Signatures /\ Honest
  BY DEF HInv
<1>2. m \in Notes /\ Truthful(m) /\ Key(m) \in records
  BY <1>1 DEF Honest, ReceiptArrives, Truthful
<1>3. m.id \in Handoffs /\ Key(m) = <<m.id, envelope[m.id]>>
  BY <1>2 DEF Truthful, Signature, Key
<1>4. UNCHANGED <<envelope, attempts, inst, pass, step, owed, records>> /\ net' \subseteq net
  BY DEF ReceiptArrives, receiver
<1>5. status' = status \/ status' = [status EXCEPT ![m.id] = "stored"]
  BY DEF ReceiptArrives
<1>6. Signatures'
  <2>1. status' \in [Items -> {"none", "queued", "awaiting_receipt", "stored", "expired"}]
    BY <1>1, <1>5 DEF Signatures
  <2> QED
    BY <1>1, <1>4, <2>1 DEF Signatures
<1>7. ASSUME NEW n, Truthful(n) PROVE Truthful(n)'
  BY <1>4, <1>7 DEF Truthful, Signature, Key
<1>8. \A i \in Handoffs : status'[i] = "stored" => <<i, envelope'[i]>> \in records'
  <2>1. \A i \in Handoffs : status'[i] = "stored" => i = m.id \/ status[i] = "stored"
    BY <1>1, <1>5 DEF Signatures
  <2>2. <<m.id, envelope[m.id]>> \in records
    BY <1>2, <1>3
  <2>3. \A i \in Handoffs : status[i] = "stored" => <<i, envelope[i]>> \in records
    BY <1>1 DEF Honest
  <2> QED
    BY <1>4, <2>1, <2>2, <2>3
<1>9. Honest'
  BY <1>1, <1>4, <1>7, <1>8 DEF Honest, Signature
<1>. QED
  BY <1>6, <1>9 DEF HInv

LEMMA RequestArrivesInv ==
  ASSUME HInv, NEW m \in net, RequestArrives(m)
  PROVE  HInv'
<1>. USE HandoffAssumption
<1>1. Signatures /\ Honest
  BY DEF HInv
<1>2. m \in Notes /\ Signature(m.id, m.by)
  BY <1>1 DEF Honest, Truthful
<1>3. UNCHANGED <<envelope, attempts, inst, pass, step, status>> /\ net' \subseteq net
  BY DEF RequestArrives, disk, process
<1>4. Signatures'
  BY <1>1, <1>3 DEF Signatures
<1>5. records' = records \/ records' = records \cup {Key(m)}
  BY DEF RequestArrives
<1>6. ASSUME NEW n, Truthful(n) PROVE Truthful(n)'
  BY <1>3, <1>5, <1>6 DEF Truthful, Signature, Key
<1>7. Key(m) \in Handoffs \X Nat /\ Key(m)[1] = m.id /\ Key(m)[2] = m.by
  BY <1>2 DEF Key, Notes
<1>8. \A k \in records' : Signature(k[1], k[2])'
  BY <1>1, <1>2, <1>3, <1>5, <1>7 DEF Honest, Signature
<1>9. /\ owed' \in [Peers -> Notes \cup {None}]
      /\ \A p \in Peers : (owed[p] # None => Truthful(owed[p]) /\ owed[p].kind = "receipt")'
  <2>1. CASE Verdict(m) = "rejected"
    BY <1>1, <1>6, <2>1 DEF Honest, RequestArrives
  <2>2. CASE Verdict(m) # "rejected"
    <3>1. owed' = [owed EXCEPT ![To[m.id]] = ReceiptFor(m)]
      BY <2>2 DEF RequestArrives
    <3>2. ReceiptFor(m) \in Notes /\ ReceiptFor(m).kind = "receipt"
          /\ ReceiptFor(m).id = m.id /\ ReceiptFor(m).by = m.by
      BY <1>2 DEF ReceiptFor, Notes
    <3>3. Key(m) \in records'
      BY <2>2 DEF RequestArrives, Verdict
    <3>4. Truthful(ReceiptFor(m))'
      BY <1>2, <1>3, <3>2, <3>3 DEF Truthful, Signature, Key
    <3>. QED
      BY <1>1, <1>6, <3>1, <3>2, <3>4 DEF Honest
  <2>. QED
    BY <2>1, <2>2
<1>10. Honest'
  BY <1>1, <1>3, <1>5, <1>6, <1>7, <1>8, <1>9 DEF Honest
<1>. QED
  BY <1>4, <1>10 DEF HInv

LEMMA SendReceiptInv ==
  ASSUME HInv, NEW p \in Peers, SendReceipt(p)
  PROVE  HInv'
<1>1. Signatures /\ Honest
  BY DEF HInv
<1>2. UNCHANGED <<envelope, attempts, inst, pass, step, status, records>>
      /\ net' \subseteq net \cup {owed[p]}
  BY DEF SendReceipt, disk, process
<1>3. Signatures'
  BY <1>1, <1>2 DEF Signatures
<1>4. ASSUME NEW n, Truthful(n) PROVE Truthful(n)'
  BY <1>2, <1>4 DEF Truthful, Signature, Key
<1>5. owed[p] \in Notes /\ Truthful(owed[p])
  BY <1>1 DEF Honest, SendReceipt
<1>6. Honest'
  BY <1>1, <1>2, <1>4, <1>5 DEF Honest, SendReceipt, Signature
<1>. QED
  BY <1>3, <1>6 DEF HInv

\* Steps that touch neither what is said nor what is signed.
LEMMA QuietInv ==
  ASSUME HInv, UNCHANGED <<envelope, status, attempts, owed, records>>, net' \subseteq net,
         inst' \in Nat \ {0}, UNCHANGED <<pass, step>> \/ step' = "item"
  PROVE  HInv'
<1>1. Signatures'
  BY DEF HInv, Signatures
<1>2. Honest'
  BY DEF HInv, Honest, Truthful, Signature, Key
<1>. QED
  BY <1>1, <1>2 DEF HInv

LEMMA HInvStep ==
  ASSUME HInv, [Next]_vars
  PROVE  HInv'
<1>1. inst \in Nat \ {0}
  BY DEF HInv, Signatures
<1>. USE DEF disk, process, world, receiver, history
<1>2. ASSUME NEW i \in Items, Queue(i) \/ BackoffEnds(i) \/ DeadlinePasses(i) \/ ReceiverClockAdvances(i)
      PROVE HInv'
  BY <1>1, <1>2, QuietInv DEF Queue, BackoffEnds, DeadlinePasses, ReceiverClockAdvances
<1>3. ASSUME NEW i \in Items, FlushStep(i) PROVE HInv'
  BY <1>3, FlushStepInv
<1>4. CASE FlushBegins \/ RemoveConfirmed
  BY <1>1, <1>4, QuietInv DEF FlushBegins, RemoveConfirmed
<1>5. CASE SenderRestarts
  BY <1>1, <1>5, QuietInv DEF SenderRestarts
<1>6. ASSUME NEW m \in net, ReceiptArrives(m) \/ RequestArrives(m) PROVE HInv'
  BY <1>6, ReceiptArrivesInv, RequestArrivesInv
<1>7. ASSUME NEW m \in net, Lose(m) PROVE HInv'
  BY <1>1, <1>7, QuietInv DEF Lose
<1>8. ASSUME NEW p \in Peers, SendReceipt(p) PROVE HInv'
  BY <1>8, SendReceiptInv
<1>9. ASSUME NEW p \in Peers, NEW to \in LinkStates, LinkChanges(p, to) PROVE HInv'
  BY <1>1, <1>9, QuietInv DEF LinkChanges
<1>10. ASSUME NEW rd \in Readers, NEW p \in Peers, ListInbox(rd, p) PROVE HInv'
  BY <1>1, <1>10, QuietInv DEF ListInbox
<1>11. ASSUME NEW rd \in Readers, NEW k \in listing[rd], Claim(rd, k) PROVE HInv'
  BY <1>1, <1>11, QuietInv DEF Claim
<1>12. CASE UNCHANGED vars
  BY <1>1, <1>12, QuietInv DEF vars
<1>. QED
  BY <1>2, <1>3, <1>4, <1>5, <1>6, <1>7, <1>8, <1>9, <1>10, <1>11, <1>12 DEF Next

LEMMA HInvHolds == Spec => []HInv
<1>. QED
  BY HInvInit, HInvStep, PTL DEF Spec

\* A handoff reported as stored is in its peer's inbox under its own identity:
\* acceptHandoffReceipt never records a confirmation nobody gave.
THEOREM StoredAlwaysStored == Spec => []StoredIsStored
<1>1. HInv => StoredIsStored
  BY DEF HInv, Honest, StoredIsStored
<1>. QED
  BY <1>1, HInvHolds, PTL

\* Any number of retries and restarts leave one record of a handoff, because
\* the first flush persists the envelope that names the sender's instance.
THEOREM NeverDuplicated == Spec => []NoDuplicateWork
<1>1. HInv => NoDuplicateWork
  <2>1. SUFFICES ASSUME HInv, NEW k \in records, NEW l \in records, k[1] = l[1] PROVE k = l
    BY DEF NoDuplicateWork
  <2>2. k[2] = l[2] /\ k \in Handoffs \X Nat /\ l \in Handoffs \X Nat
    BY <2>1 DEF HInv, Honest, Signature
  <2>. QED
    BY <2>1, <2>2
<1>. QED
  BY <1>1, HInvHolds, PTL

(***************************************************************************)
(* The sidecars of Handoff implement HandoffAbs: readers share a record    *)
(* with nobody, confirmations are final, and every step of the detailed    *)
(* system is a step of the promise or none.                                *)
(***************************************************************************)
\* Readers list and take records that exist, and none takes another's.
Reading ==
  /\ listing \in [Readers -> SUBSET records] /\ taken \in [Readers -> SUBSET records]
  /\ ReadOnce

\* A handoff expires only past its deadline, and never in the middle of a send.
Expiry ==
  /\ \A i \in Handoffs : status[i] = "expired" => i \in expired
  /\ \A i \in Handoffs : pass # <<>> /\ Head(pass) = i /\ step \in {"attempted", "transmitted"}
                           => status[i] # "expired"

PInv == HInv /\ Reading /\ Expiry

LEMMA PInvInit == Init => PInv
<1>1. SUFFICES ASSUME Init PROVE PInv
  OBVIOUS
<1>2. Reading
  BY <1>1 DEF Init, Reading, ReadOnce
<1>3. Expiry
  BY <1>1, HandoffAssumption DEF Init, Expiry
<1>. QED
  BY <1>1, <1>2, <1>3, HInvInit DEF PInv

-----------------------------------------------------------------------------
(* The readers. *)

\* Records are never removed: a listing only grows out of date by being read.
LEMMA ReadingKept ==
  ASSUME Reading, UNCHANGED <<listing, taken>>, records \subseteq records'
  PROVE  Reading'
BY DEF Reading, ReadOnce

LEMMA ClaimReading ==
  ASSUME Reading, NEW rd \in Readers, NEW k \in listing[rd], Claim(rd, k)
  PROVE  Reading'
<1>1. k \in records /\ records' = records
  BY DEF Reading, Claim
<1>2. listing' \in [Readers -> SUBSET records] /\ taken' \in [Readers -> SUBSET records]
  BY <1>1 DEF Reading, Claim
<1>3. CASE k \in Read
  BY <1>1, <1>2, <1>3 DEF Reading, ReadOnce, Claim
<1>4. CASE k \notin Read
  <2>1. taken' = [taken EXCEPT ![rd] = @ \cup {k}]
    BY <1>4 DEF Claim
  <2>2. \A r \in Readers : k \notin taken[r]
    BY <1>4 DEF Read
  <2>3. ReadOnce'
    BY <2>1, <2>2 DEF Reading, ReadOnce
  <2>. QED
    BY <1>1, <1>2, <2>3 DEF Reading
<1>. QED
  BY <1>3, <1>4

LEMMA ReadingStep ==
  ASSUME Reading, [Next]_vars
  PROVE  Reading'
<1>. USE DEF disk, process, world, receiver, history
<1>1. ASSUME NEW i \in Items,
             Queue(i) \/ BackoffEnds(i) \/ DeadlinePasses(i) \/ ReceiverClockAdvances(i)
      PROVE Reading'
  BY <1>1, ReadingKept DEF Queue, BackoffEnds, DeadlinePasses, ReceiverClockAdvances
<1>2. ASSUME NEW i \in Items, FlushStep(i) PROVE Reading'
  <2>1. UNCHANGED receiver
    BY <1>2 DEF FlushStep, SkipBlocked, SendDm, RemoveDone, ItemFails, HandoffStored, HandoffExpires,
                HandoffWaits, HandoffBacksOff, HandoffAttempt, HandoffTransmit, HandoffRecord
  <2>. QED
    BY <2>1, ReadingKept
<1>3. CASE FlushBegins \/ RemoveConfirmed \/ SenderRestarts
  BY <1>3, ReadingKept DEF FlushBegins, RemoveConfirmed, SenderRestarts
<1>4. ASSUME NEW m \in net, ReceiptArrives(m) \/ RequestArrives(m) \/ Lose(m) PROVE Reading'
  BY <1>4, ReadingKept DEF ReceiptArrives, RequestArrives, Lose
<1>5. ASSUME NEW p \in Peers, SendReceipt(p) PROVE Reading'
  BY <1>5, ReadingKept DEF SendReceipt
<1>6. ASSUME NEW p \in Peers, NEW to \in LinkStates, LinkChanges(p, to) PROVE Reading'
  BY <1>6, ReadingKept DEF LinkChanges
<1>7. ASSUME NEW rd \in Readers, NEW p \in Peers, ListInbox(rd, p) PROVE Reading'
  BY <1>7 DEF ListInbox, Reading, ReadOnce
<1>8. ASSUME NEW rd \in Readers, NEW k \in listing[rd], Claim(rd, k) PROVE Reading'
  BY <1>8, ClaimReading
<1>9. CASE UNCHANGED vars
  BY <1>9, ReadingKept DEF vars
<1>. QED
  BY <1>1, <1>2, <1>3, <1>4, <1>5, <1>6, <1>7, <1>8, <1>9 DEF Next

-----------------------------------------------------------------------------
(* What the sender reports. *)

\* The two ways a report changes: a receipt, or the deadline.  Everything else
\* leaves a stored and an expired handoff what they are.
Reports ==
  \/ \A i \in Handoffs : /\ (status'[i] = "stored") = (status[i] = "stored")
                         /\ (status'[i] = "expired") = (status[i] = "expired")
  \/ \E i \in Handoffs : /\ status[i] # "stored" /\ i \in expired
                         /\ status' = [status EXCEPT ![i] = "expired"]
  \/ \E i \in Handoffs : /\ <<i, envelope[i]>> \in records
                         /\ status' = [status EXCEPT ![i] = "stored"]

LEMMA FlushReports ==
  ASSUME PInv, NEW i \in Items, FlushStep(i)
  PROVE  Reports /\ Expiry'
<1>. USE HandoffAssumption
<1>1. /\ status \in [Items -> {"none", "queued", "awaiting_receipt", "stored", "expired"}]
      /\ Expiry
  BY DEF PInv, HInv, Signatures
<1>2. CASE SkipBlocked(i) \/ SendDm(i) \/ RemoveDone(i) \/ ItemFails(i)
  <2>1. UNCHANGED <<status, expired>> /\ step' \in {"item", "done"}
    BY <1>2 DEF SkipBlocked, SendDm, RemoveDone, ItemFails, NextItem, disk, world
  <2>. QED
    BY <1>1, <2>1 DEF Expiry, Reports
<1>3. CASE HandoffStored(i) \/ HandoffBacksOff(i)
  <2>1. UNCHANGED <<status, expired>> /\ step' = "item"
    BY <1>3 DEF HandoffStored, HandoffBacksOff, NextItem, world
  <2>. QED
    BY <1>1, <2>1 DEF Expiry, Reports
<1>4. CASE HandoffExpires(i)
  <2>1. /\ i \in Handoffs /\ status[i] # "stored" /\ i \in expired /\ step' = "done" /\ expired' = expired
        /\ status' = [status EXCEPT ![i] = "expired"]
    BY <1>4 DEF HandoffExpires, world
  <2>. QED
    BY <1>1, <2>1 DEF Expiry, Reports
<1>5. CASE HandoffWaits(i)
  <2>1. expired' = expired /\ step' = "item" /\ status' = Started(i)
    BY <1>5 DEF HandoffWaits, NextItem, world
  <2>. QED
    BY <1>1, <2>1 DEF Expiry, Reports, Started
<1>6. CASE HandoffAttempt(i)
  <2>1. /\ expired' = expired /\ status' = Started(i) /\ i \in Handoffs /\ i \notin expired
        /\ pass' = pass /\ Head(pass) = i
    BY <1>6 DEF HandoffAttempt, Open, Turn, At, world
  <2>. QED
    BY <1>1, <2>1 DEF Expiry, Reports, Started
<1>7. CASE HandoffTransmit(i)
  <2>1. UNCHANGED <<status, expired>>
        /\ (step' = "item" \/ (pass' = pass /\ step = "attempted"))
    BY <1>7 DEF HandoffTransmit, At, NextItem, disk
  <2>. QED
    BY <1>1, <2>1 DEF Expiry, Reports
<1>8. CASE HandoffRecord(i)
  <2>1. /\ expired' = expired /\ step' = "item"
        /\ status' = [status EXCEPT ![i] = IF @ = "stored" THEN @ ELSE "awaiting_receipt"]
    BY <1>8 DEF HandoffRecord, NextItem, world
  <2>2. i \in Handoffs /\ status[i] # "expired"
    BY <1>1, <1>8 DEF HandoffRecord, At, PInv, HInv, Signatures, Expiry
  <2>. QED
    BY <1>1, <2>1, <2>2 DEF Expiry, Reports
<1>. QED
  BY <1>2, <1>3, <1>4, <1>5, <1>6, <1>7, <1>8 DEF FlushStep

LEMMA ReportsStep ==
  ASSUME PInv, [Next]_vars
  PROVE  Reports /\ Expiry'
<1>. USE HandoffAssumption DEF disk, process, world, receiver, history
<1>1. /\ status \in [Items -> {"none", "queued", "awaiting_receipt", "stored", "expired"}]
      /\ Expiry
  BY DEF PInv, HInv, Signatures
<1>2. ASSUME status' = status, expired \subseteq expired', UNCHANGED <<pass, step>> \/ step' = "item"
      PROVE  Reports /\ Expiry'
  BY <1>1, <1>2 DEF Reports, Expiry
<1>3. ASSUME NEW i \in Items,
             Queue(i) \/ BackoffEnds(i) \/ DeadlinePasses(i) \/ ReceiverClockAdvances(i)
      PROVE Reports /\ Expiry'
  BY <1>2, <1>3 DEF Queue, BackoffEnds, DeadlinePasses, ReceiverClockAdvances
<1>4. ASSUME NEW i \in Items, FlushStep(i) PROVE Reports /\ Expiry'
  BY <1>4, FlushReports
<1>5. CASE FlushBegins \/ RemoveConfirmed \/ SenderRestarts
  BY <1>2, <1>5 DEF FlushBegins, RemoveConfirmed, SenderRestarts
<1>6. ASSUME NEW m \in net, RequestArrives(m) \/ Lose(m) PROVE Reports /\ Expiry'
  BY <1>2, <1>6 DEF RequestArrives, Lose
<1>7. ASSUME NEW m \in net, ReceiptArrives(m) PROVE Reports /\ Expiry'
  <2>1. UNCHANGED <<pass, step, expired, envelope>>
    BY <1>7 DEF ReceiptArrives
  <2>2. CASE ~ReceiptMatches(m)
    BY <1>2, <1>7, <2>1, <2>2 DEF ReceiptArrives
  <2>3. CASE ReceiptMatches(m)
    <3>1. status' = [status EXCEPT ![m.id] = "stored"]
      BY <1>7, <2>3 DEF ReceiptArrives
    <3>2. m.id \in Handoffs /\ <<m.id, envelope[m.id]>> \in records
      BY <1>7 DEF PInv, HInv, Honest, Truthful, Signature, Key, ReceiptArrives
    <3>. QED
      BY <1>1, <2>1, <3>1, <3>2 DEF Reports, Expiry
  <2>. QED
    BY <2>2, <2>3
<1>8. ASSUME NEW p \in Peers, SendReceipt(p) PROVE Reports /\ Expiry'
  BY <1>2, <1>8 DEF SendReceipt
<1>9. ASSUME NEW p \in Peers, NEW to \in LinkStates, LinkChanges(p, to) PROVE Reports /\ Expiry'
  BY <1>2, <1>9 DEF LinkChanges
<1>10. ASSUME NEW rd \in Readers, NEW p \in Peers, ListInbox(rd, p) PROVE Reports /\ Expiry'
  BY <1>2, <1>10 DEF ListInbox
<1>11. ASSUME NEW rd \in Readers, NEW k \in listing[rd], Claim(rd, k) PROVE Reports /\ Expiry'
  BY <1>2, <1>11 DEF Claim
<1>12. CASE UNCHANGED vars
  BY <1>2, <1>12 DEF vars
<1>. QED
  BY <1>3, <1>4, <1>5, <1>6, <1>7, <1>8, <1>9, <1>10, <1>11, <1>12 DEF Next

LEMMA PInvStep ==
  ASSUME PInv, [Next]_vars
  PROVE  PInv'
BY HInvStep, ReadingStep, ReportsStep DEF PInv

\* Two CLI processes never both take one record: the mkdir of the read marker
\* decides between takeInboxMessages calls that listed it at the same time.
THEOREM ReadersDisjoint == Spec => []ReadOnce
<1>1. PInv => ReadOnce
  BY DEF PInv, Reading
<1>. QED
  BY <1>1, PInvInit, PInvStep, PTL DEF Spec

\* However a handoff is retried (flushHandoff) and read (takeInboxMessages), it
\* makes one record at its peer and one reader gets it.
THEOREM HandedOverOnce == Spec => []WorkTakenOnce
<1>1. NoDuplicateWork /\ ReadOnce => WorkTakenOnce
  BY DEF WorkTakenOnce
<1>. QED
  BY <1>1, NeverDuplicated, ReadersDisjoint, PTL

\* A confirmation that acceptHandoffReceipt saved is never taken back, neither
\* by the send it arrived inside nor by the deadline.
THEOREM ConfirmationFinal == Spec => StoredIsFinal
<1>1. ASSUME PInv, [Next]_vars
      PROVE  \A i \in Handoffs : status[i] = "stored" => status'[i] = "stored"
  <2>1. status \in [Items -> {"none", "queued", "awaiting_receipt", "stored", "expired"}]
    BY <1>1 DEF PInv, HInv, Signatures
  <2>. QED
    BY <1>1, <2>1, ReportsStep, HandoffAssumption DEF Reports
<1>. QED
  BY <1>1, PInvInit, PInvStep, PTL DEF Spec, StoredIsFinal

-----------------------------------------------------------------------------
(***************************************************************************)
(* The outbox.  What is queued, flushed and handed to the transport stands *)
(* in one order, that of createdAt.  A dm that a flush has passed by       *)
(* blocks its target, so nothing later for that target overtakes it.       *)
(***************************************************************************)
\* i was queued before j.
Ahead(i, j) == \E x, y \in 1 .. Len(queued) : x < y /\ queued[x] = i /\ queued[y] = j

InOrder(s) == \A a, b \in 1 .. Len(s) : a < b => Ahead(s[a], s[b])

Settled(i) == IF i \in Handoffs THEN status[i] \in {"stored", "expired"} ELSE In(i, delivered)

OrderInv ==
  /\ queued \in Seq(Items) /\ outbox \in Seq(Items)
  /\ pass \in Seq(Items) /\ delivered \in Seq(Items)
  /\ \A x, y \in 1 .. Len(queued) : queued[x] = queued[y] => x = y
  /\ \A i \in Items : In(i, outbox) \/ In(i, pass) \/ In(i, delivered) => In(i, queued)
  /\ InOrder(outbox) /\ InOrder(pass)

\* No dm overtakes another one for its target, neither in this flush nor over all of them.
NoneOvertaken ==
  /\ \A i \in Items \ Handoffs : \A k \in Items :
       In(i, outbox) /\ ~In(i, pass) /\ In(k, pass) /\ Ahead(i, k) => To[i] \in blocked
  /\ \A i \in Items \ Handoffs : \A j \in Items :
       In(i, outbox) /\ In(j, delivered) /\ To[i] = To[j] /\ i # j => Ahead(j, i)
  /\ \A a, b \in 1 .. Len(delivered) :
       a < b /\ To[delivered[a]] = To[delivered[b]] /\ delivered[a] # delivered[b]
         => Ahead(delivered[a], delivered[b])

NoneLost ==
  /\ confirmed # None => confirmed \in Handoffs /\ status[confirmed] = "stored"
  /\ \A i \in Items \ Handoffs : In(i, pass) => In(i, outbox)
  /\ \A i \in Items : pass # <<>> /\ Head(pass) = i /\ step = "done" => Settled(i)
  /\ \A i \in Items : In(i, queued) => In(i, outbox) \/ Settled(i)

OutInv == OrderInv /\ NoneOvertaken /\ NoneLost

LEMMA OutInvInit == Init => OutInv
<1> SUFFICES ASSUME Init PROVE OutInv
  OBVIOUS
<1>1. queued = <<>> /\ outbox = <<>> /\ pass = <<>> /\ delivered = <<>> /\ confirmed = None
  BY DEF Init
<1>2. \A i : ~In(i, <<>>)
  BY DEF In
<1> QED
  BY <1>1, <1>2 DEF OutInv, OrderInv, NoneOvertaken, NoneLost, InOrder

\* Of two queued actions one is ahead of the other.
LEMMA AheadIsOrder ==
  ASSUME OrderInv, NEW i \in Items, NEW j \in Items
  PROVE  /\ Ahead(i, j) => ~Ahead(j, i) /\ i # j
         /\ In(i, queued) /\ In(j, queued) /\ i # j => Ahead(i, j) \/ Ahead(j, i)
BY DEF OrderInv, Ahead, In

LEMMA TailInOrder ==
  ASSUME NEW s \in Seq(Items), s # <<>>, InOrder(s)
  PROVE  InOrder(Tail(s)) /\ \A i : In(i, Tail(s)) => Ahead(Head(s), i)
<1>1. PICK n \in Nat : n = Len(s) /\ n >= 1
  OBVIOUS
<1>2. /\ Len(Tail(s)) = n - 1 /\ Head(s) = s[1]
      /\ \A a \in 1 .. n - 1 : Tail(s)[a] = s[a + 1] /\ a + 1 \in 1 .. n
  BY <1>1, TailFacts
<1>3. InOrder(Tail(s))
  BY <1>1, <1>2 DEF InOrder
<1>4. \A a \in 1 .. n - 1 : Ahead(s[1], s[a + 1])
  BY <1>1, <1>2 DEF InOrder
<1> QED
  BY <1>1, <1>2, <1>3, <1>4 DEF In

\* An action that is removed, and nothing else, leaves the outbox.
LEMMA WithoutFacts ==
  ASSUME outbox \in Seq(Items), NEW i \in Items, NEW rest, rest = Without(i)
  PROVE  /\ rest \in Seq(Items)
         /\ \A j \in Items : In(j, rest) <=> j # i /\ In(j, outbox)
         /\ InOrder(outbox) => InOrder(rest)
<1> DEFINE keep == Items \ {i}
<1>1. rest = Only(outbox, keep)
  BY DEF Without
<1> HIDE DEF keep
<1>2. rest \in Seq(Items) /\ Kept(outbox, rest, keep)
  BY <1>1, OnlyKeeps
<1>3. \A j \in Items : j \in keep <=> j # i
  BY DEF keep
<1>4. ASSUME NEW j \in Items PROVE In(j, rest) <=> j # i /\ In(j, outbox)
  <2>1. ASSUME NEW a \in 1 .. Len(rest), rest[a] = j PROVE j # i /\ In(j, outbox)
    BY <1>2, <1>3, <2>1 DEF In, Kept
  <2>2. ASSUME NEW k \in 1 .. Len(outbox), outbox[k] = j, j # i PROVE In(j, rest)
    BY <1>2, <1>3, <2>2 DEF In, Kept
  <2> QED
    BY <2>1, <2>2 DEF In
<1>5. ASSUME InOrder(outbox) PROVE InOrder(rest)
  <2>1. ASSUME NEW a \in 1 .. Len(rest), NEW b \in 1 .. Len(rest), a < b PROVE Ahead(rest[a], rest[b])
    <3>1. PICK k, l \in 1 .. Len(outbox) : k < l /\ outbox[k] = rest[a] /\ outbox[l] = rest[b]
      BY <1>2, <2>1 DEF Kept
    <3> QED
      BY <1>5, <3>1 DEF InOrder
  <2> QED
    BY <2>1 DEF InOrder
<1> QED
  BY <1>2, <1>4, <1>5

-----------------------------------------------------------------------------
(* The kinds of steps. *)

\* What is settled stays so, and so does what is stored.
StatusKept ==
  \A i \in Handoffs : /\ status[i] = "stored" => status'[i] = "stored"
                      /\ status[i] \in {"stored", "expired"} => status'[i] \in {"stored", "expired"}

LEMMA StatusIsKept ==
  ASSUME PInv, [Next]_vars
  PROVE  StatusKept
<1>1. status \in [Items -> {"none", "queued", "awaiting_receipt", "stored", "expired"}]
  BY DEF PInv, HInv, Signatures
<1> QED
  BY <1>1, ReportsStep, HandoffAssumption DEF Reports, StatusKept

\* The flush stands where it stood, and the outbox is as it was.
LEMMA OutKept ==
  ASSUME OutInv, StatusKept, UNCHANGED <<queued, outbox, delivered, pass, blocked>>,
         confirmed' \in {None, confirmed} \/ (confirmed' \in Handoffs /\ status'[confirmed'] = "stored"),
         step' = step \/ step' # "done" \/ \A i \in Items : pass # <<>> /\ Head(pass) = i => Settled(i)'
  PROVE  OutInv'
<1>1. \A i, j : Ahead(i, j)' = Ahead(i, j)
  BY DEF Ahead
<1>2. OrderInv'
  BY <1>1 DEF OutInv, OrderInv, In, InOrder
<1>3. NoneOvertaken'
  BY <1>1 DEF OutInv, NoneOvertaken, In
<1>4. \A i \in Items : Settled(i) => Settled(i)'
  BY DEF Settled, StatusKept, In
<1>5. NoneLost'
  BY <1>4 DEF OutInv, NoneLost, In, StatusKept
<1> QED
  BY <1>2, <1>3, <1>5 DEF OutInv

\* The flush goes on to the next action: the last one has left the outbox, is a
\* handoff or blocks its target.
LEMMA OutNext ==
  ASSUME OutInv, StatusKept, UNCHANGED <<queued, delivered, confirmed>>,
         NEW i \in Items, pass # <<>>, Head(pass) = i, NextItem, blocked \subseteq blocked',
         \/ outbox' = outbox /\ (i \in Handoffs \/ To[i] \in blocked')
         \/ outbox' = Without(i) /\ Settled(i)
  PROVE  OutInv'
<1>1. pass' = Tail(pass) /\ step' = "item" /\ pass \in Seq(Items) /\ outbox \in Seq(Items)
  BY DEF NextItem, OutInv, OrderInv
<1>2. /\ pass' \in Seq(Items) /\ In(i, pass)
      /\ \A j : In(j, pass) <=> j = i \/ In(j, pass')
      /\ InOrder(pass') /\ \A j : In(j, pass') => Ahead(i, j)
  BY <1>1, TailFacts, TailInOrder DEF OutInv, OrderInv
<1>3. /\ outbox' \in Seq(Items) /\ InOrder(outbox')
      /\ \A j \in Items : In(j, outbox') <=> In(j, outbox) /\ (j # i \/ outbox' = outbox)
  <2>1. CASE outbox' = outbox
    BY <2>1 DEF OutInv, OrderInv
  <2>2. CASE outbox' = Without(i)
    <3>1. /\ outbox' \in Seq(Items) /\ InOrder(outbox')
          /\ \A j \in Items : In(j, outbox') <=> j # i /\ In(j, outbox)
      BY <1>1, <2>2, WithoutFacts DEF OutInv, OrderInv
    <3> QED
      BY <2>1, <3>1
  <2> QED
    BY <2>1, <2>2
<1>4. \A j, k : Ahead(j, k)' = Ahead(j, k)
  BY DEF Ahead
<1>5. InOrder(outbox)' /\ InOrder(pass)'
  BY <1>2, <1>3, <1>4 DEF InOrder
<1>6. \A j \in Items : Ahead(i, j) => ~Ahead(j, i) /\ i # j
  BY AheadIsOrder DEF OutInv
<1>7. \A j : /\ In(j, queued)' = In(j, queued) /\ In(j, delivered)' = In(j, delivered)
             /\ In(j, outbox)' = In(j, outbox') /\ In(j, pass)' = In(j, pass')
  BY DEF In
<1>8. OrderInv'
  <2>1. \A j \in Items : In(j, outbox)' \/ In(j, pass)' \/ In(j, delivered)' => In(j, queued)'
    BY <1>2, <1>3, <1>7 DEF OutInv, OrderInv
  <2> QED
    BY <1>2, <1>3, <1>5, <2>1 DEF OutInv, OrderInv
<1>9. NoneOvertaken'
  <2>1. ASSUME NEW j \in Items \ Handoffs, NEW k \in Items,
               In(j, outbox'), ~In(j, pass'), In(k, pass'), Ahead(j, k)
        PROVE  To[j] \in blocked'
    <3>1. CASE j = i
      <4>1. outbox' = outbox \/ ~In(i, outbox')
        BY <1>3
      <4>2. Without(i) = outbox => ~In(i, outbox)
        <5>1. \A r : r = Without(i) => ~In(i, r)
          BY <1>1, WithoutFacts
        <5> QED
          BY <5>1
      <4> QED
        BY <2>1, <3>1, <4>1, <4>2
    <3>2. CASE j # i
      <4>1. In(j, outbox) /\ ~In(j, pass) /\ In(k, pass)
        BY <1>2, <1>3, <2>1, <3>2
      <4> QED
        BY <2>1, <4>1 DEF OutInv, NoneOvertaken
    <3> QED
      BY <3>1, <3>2
  <2>2. ASSUME NEW j \in Items \ Handoffs, NEW k \in Items,
               In(j, outbox'), In(k, delivered), To[j] = To[k], j # k
        PROVE  Ahead(k, j)
    BY <1>3, <2>2 DEF OutInv, NoneOvertaken
  <2> QED
    BY <1>4, <1>7, <2>1, <2>2 DEF OutInv, NoneOvertaken
<1>10. \A j \in Items : Settled(j) => Settled(j)'
  BY <1>7 DEF Settled, StatusKept
<1>11. NoneLost'
  <2>1. \A j \in Items \ Handoffs : In(j, pass') => In(j, outbox')
    BY <1>2, <1>3, <1>6 DEF OutInv, NoneLost
  <2>2. \A j \in Items : In(j, queued) => In(j, outbox') \/ Settled(j)'
    BY <1>3, <1>10 DEF OutInv, NoneLost
  <2> QED
    BY <1>1, <1>7, <2>1, <2>2 DEF OutInv, NoneLost, StatusKept
<1> QED
  BY <1>8, <1>9, <1>11 DEF OutInv

\* The transport takes a dm whose target no earlier one blocks.
LEMMA OutTakes ==
  ASSUME OutInv, StatusKept, UNCHANGED <<queued, outbox, confirmed, pass, blocked>>,
         NEW i \in Items \ Handoffs, pass # <<>>, Head(pass) = i, To[i] \notin blocked,
         delivered' = Append(delivered, i)
  PROVE  OutInv'
<1> DEFINE n == Len(delivered)
<1>1. /\ delivered' \in Seq(Items) /\ Len(delivered') = n + 1 /\ n \in Nat /\ delivered'[n + 1] = i
      /\ \A a \in 1 .. n : delivered'[a] = delivered[a]
      /\ \A j : In(j, delivered') <=> j = i \/ In(j, delivered)
  BY AppendFacts DEF OutInv, OrderInv
<1>2. /\ In(i, pass) /\ \A j : In(j, pass) => j = i \/ Ahead(i, j)
  BY TailFacts, TailInOrder DEF OutInv, OrderInv
<1>3. In(i, outbox) /\ In(i, queued)
  BY <1>2 DEF OutInv, NoneLost, OrderInv
<1>4. /\ \A j, k : Ahead(j, k)' = Ahead(j, k)
      /\ \A j : /\ In(j, queued)' = In(j, queued) /\ In(j, outbox)' = In(j, outbox)
                /\ In(j, pass)' = In(j, pass) /\ In(j, delivered)' = In(j, delivered')
  BY DEF Ahead, In
<1>5. OrderInv'
  <2>1. InOrder(outbox)' /\ InOrder(pass)'
    BY <1>4 DEF OutInv, OrderInv, InOrder
  <2> QED
    BY <1>1, <1>3, <1>4, <2>1 DEF OutInv, OrderInv
<1>6. ASSUME NEW k \in Items \ Handoffs, In(k, outbox), To[k] = To[i], k # i PROVE Ahead(i, k)
  <2>1. In(k, queued)
    BY <1>6 DEF OutInv, OrderInv
  <2>2. SUFFICES ASSUME Ahead(k, i) PROVE FALSE
    BY <1>3, <1>6, <2>1, AheadIsOrder DEF OutInv
  <2>3. ~In(k, pass)
    BY <1>2, <1>6, <2>2, AheadIsOrder DEF OutInv
  <2> QED
    BY <1>2, <1>6, <2>2, <2>3 DEF OutInv, NoneOvertaken
<1>7. ASSUME NEW a \in 1 .. n, To[delivered[a]] = To[i], delivered[a] # i PROVE Ahead(delivered[a], i)
  <2>1. delivered[a] \in Items /\ In(delivered[a], delivered)
    BY DEF OutInv, OrderInv, In
  <2> QED
    BY <1>3, <1>7, <2>1 DEF OutInv, NoneOvertaken
<1>8. NoneOvertaken'
  <2>1. \A k \in Items \ Handoffs : \A j \in Items :
          In(k, outbox) /\ In(j, delivered') /\ To[k] = To[j] /\ k # j => Ahead(j, k)
    BY <1>1, <1>6 DEF OutInv, NoneOvertaken
  <2>2. \A a, b \in 1 .. n + 1 :
          a < b /\ To[delivered'[a]] = To[delivered'[b]] /\ delivered'[a] # delivered'[b]
            => Ahead(delivered'[a], delivered'[b])
    <3>1. \A a, b \in 1 .. n : 
            a < b /\ To[delivered[a]] = To[delivered[b]] /\ delivered[a] # delivered[b]
              => Ahead(delivered[a], delivered[b])
      BY DEF OutInv, NoneOvertaken
    <3>2. \A a, b \in 1 .. n + 1 : a < b => a \in 1 .. n /\ (b \in 1 .. n \/ b = n + 1)
      BY <1>1
    <3> QED
      BY <1>1, <1>7, <3>1, <3>2
  <2> QED
    BY <1>1, <1>4, <2>1, <2>2 DEF OutInv, NoneOvertaken
<1>9. \A j \in Items : (Settled(j) => Settled(j)') /\ Settled(i)'
  BY <1>1, <1>4 DEF Settled, StatusKept
<1>10. NoneLost'
  BY <1>4, <1>9 DEF OutInv, NoneLost, StatusKept
<1> QED
  BY <1>5, <1>8, <1>10 DEF OutInv

LEMMA OutQueue ==
  ASSUME OutInv, StatusKept, NEW i \in Items, Queue(i)
  PROVE  OutInv'
<1> DEFINE n == Len(queued)
           m == Len(outbox)
<1>0. /\ ~In(i, queued) /\ queued' = Append(queued, i) /\ outbox' = Append(outbox, i)
      /\ UNCHANGED <<pass, step, blocked, confirmed, delivered, status>>
  BY DEF Queue, In, ToSet, process, OutInv, OrderInv
<1>1. /\ queued' \in Seq(Items) /\ Len(queued') = n + 1 /\ n \in Nat /\ queued'[n + 1] = i
      /\ \A a \in 1 .. n : queued'[a] = queued[a]
      /\ \A j : In(j, queued') <=> j = i \/ In(j, queued)
  BY <1>0, AppendFacts DEF OutInv, OrderInv
<1>2. /\ outbox' \in Seq(Items) /\ Len(outbox') = m + 1 /\ m \in Nat /\ outbox'[m + 1] = i
      /\ \A a \in 1 .. m : outbox'[a] = outbox[a]
      /\ \A j : In(j, outbox') <=> j = i \/ In(j, outbox)
  BY <1>0, AppendFacts DEF OutInv, OrderInv
<1>3. \A j, k : Ahead(j, k) => Ahead(j, k)'
  <2>1. \A a \in 1 .. n : a \in 1 .. n + 1
    BY <1>1
  <2> QED
    BY <1>1, <2>1 DEF Ahead
<1>4. \A j : In(j, queued) => Ahead(j, i)'
  <2>1. \A a \in 1 .. n : a \in 1 .. n + 1 /\ n + 1 \in 1 .. n + 1 /\ a < n + 1
    BY <1>1
  <2> QED
    BY <1>1, <2>1 DEF Ahead, In
<1>5. \A j, k : Ahead(j, k)' /\ In(k, queued) => Ahead(j, k)
  <2>1. SUFFICES ASSUME NEW j, NEW k, In(k, queued),
                        NEW x \in 1 .. n + 1, NEW y \in 1 .. n + 1, x < y, queued'[x] = j, queued'[y] = k
                 PROVE  Ahead(j, k)
    BY <1>1 DEF Ahead
  <2>2. y # n + 1
    BY <1>0, <1>1, <2>1
  <2>3. x \in 1 .. n /\ y \in 1 .. n
    BY <1>1, <2>1, <2>2
  <2> QED
    BY <1>1, <2>1, <2>3 DEF Ahead
<1>6. \A j : /\ In(j, queued)' = In(j, queued') /\ In(j, outbox)' = In(j, outbox')
             /\ In(j, pass)' = In(j, pass) /\ In(j, delivered)' = In(j, delivered)
  BY <1>0 DEF In
<1>7. OrderInv'
  <2>1. \A x, y \in 1 .. n + 1 : queued'[x] = queued'[y] => x = y
    <3>1. \A x \in 1 .. n + 1 : x = n + 1 \/ (x \in 1 .. n /\ queued'[x] # i)
      BY <1>0, <1>1 DEF In
    <3>2. \A x, y \in 1 .. n : queued[x] = queued[y] => x = y
      BY DEF OutInv, OrderInv
    <3> QED
      BY <1>1, <3>1, <3>2
  <2>2. InOrder(outbox)'
    <3>1. \A a \in 1 .. m : outbox[a] \in Items /\ In(outbox[a], queued)
      <4>1. \A a \in 1 .. m : outbox[a] \in Items /\ In(outbox[a], outbox)
        BY DEF OutInv, OrderInv, In
      <4> QED
        BY <4>1 DEF OutInv, OrderInv
    <3>2. \A a, b \in 1 .. m : a < b => Ahead(outbox[a], outbox[b])
      BY DEF OutInv, OrderInv, InOrder
    <3>3. \A a, b \in 1 .. m + 1 : a < b => a \in 1 .. m /\ (b \in 1 .. m \/ b = m + 1)
      BY <1>2
    <3>4. \A a, b \in 1 .. m + 1 : a < b => \A u, v : u = outbox'[a] /\ v = outbox'[b] => Ahead(u, v)'
      BY <1>2, <1>3, <1>4, <3>1, <3>2, <3>3
    <3>5. \A a, b \in 1 .. Len(outbox') : a < b => Ahead(outbox[a], outbox[b])'
      BY <1>2, <3>4 DEF Ahead
    <3> QED
      BY <3>5 DEF InOrder
  <2>3. InOrder(pass)'
    BY <1>0, <1>3 DEF OutInv, OrderInv, InOrder
  <2> QED
    BY <1>0, <1>1, <1>2, <1>6, <2>1, <2>2, <2>3 DEF OutInv, OrderInv
<1>8. NoneOvertaken'
  <2>1. ASSUME NEW j \in Items \ Handoffs, NEW k \in Items,
               In(j, outbox'), ~In(j, pass), In(k, pass), Ahead(j, k)'
        PROVE  To[j] \in blocked
    <3>1. In(k, queued) /\ Ahead(j, k)
      BY <1>5, <2>1 DEF OutInv, OrderInv
    <3>2. In(j, queued)
      BY <3>1 DEF Ahead, In
    <3>3. In(j, outbox)
      BY <1>0, <1>2, <2>1, <3>2
    <3> QED
      BY <2>1, <3>1, <3>3 DEF OutInv, NoneOvertaken
  <2>2. ASSUME NEW j \in Items \ Handoffs, NEW k \in Items,
               In(j, outbox'), In(k, delivered), To[j] = To[k], j # k
        PROVE  Ahead(k, j)'
    <3>1. CASE j = i
      BY <1>4, <2>2, <3>1 DEF OutInv, OrderInv
    <3>2. CASE j # i
      <4>1. Ahead(k, j)
        BY <1>2, <2>2, <3>2 DEF OutInv, NoneOvertaken
      <4> QED
        BY <1>3, <4>1
    <3> QED
      BY <3>1, <3>2
  <2>3. \A a, b \in 1 .. Len(delivered) :
          a < b /\ To[delivered[a]] = To[delivered[b]] /\ delivered[a] # delivered[b]
            => Ahead(delivered[a], delivered[b])'
    <3> SUFFICES ASSUME NEW a \in 1 .. Len(delivered), NEW b \in 1 .. Len(delivered), a < b,
                        To[delivered[a]] = To[delivered[b]], delivered[a] # delivered[b]
                 PROVE  Ahead(delivered[a], delivered[b])'
      OBVIOUS
    <3>1. PICK u, v : u = delivered[a] /\ v = delivered[b]
      OBVIOUS
    <3>2. Ahead(u, v)
      BY <3>1 DEF OutInv, NoneOvertaken
    <3>3. Ahead(u, v)'
      BY <1>3, <3>2
    <3>4. u = delivered'[a] /\ v = delivered'[b]
      BY <1>0, <3>1
    <3> QED
      BY <3>3, <3>4 DEF Ahead
  <2> QED
    BY <1>0, <1>6, <2>1, <2>2, <2>3 DEF NoneOvertaken
<1>9. \A j \in Items : Settled(j) => Settled(j)'
  BY <1>0, <1>6 DEF Settled
<1>10. NoneLost'
  BY <1>0, <1>1, <1>2, <1>6, <1>9 DEF OutInv, NoneLost
<1> QED
  BY <1>7, <1>8, <1>10 DEF OutInv

\* A flush begins with all of the outbox, or a restart ends one.
LEMMA OutBegins ==
  ASSUME OutInv, StatusKept, UNCHANGED <<queued, outbox, delivered>>,
         pass' \in {<<>>, outbox}, step' = "item", confirmed' = None
  PROVE  OutInv'
<1>1. /\ \A j, k : Ahead(j, k)' = Ahead(j, k)
      /\ \A j : /\ In(j, queued)' = In(j, queued) /\ In(j, outbox)' = In(j, outbox)
                /\ In(j, pass)' = In(j, pass') /\ In(j, delivered)' = In(j, delivered)
  BY DEF Ahead, In
<1>2. \A j : In(j, pass') => In(j, outbox) /\ pass' = outbox
  BY DEF In
<1>3. pass' \in Seq(Items) /\ InOrder(pass')
  <2>1. InOrder(<<>>) /\ <<>> \in Seq(Items)
    BY DEF InOrder
  <2>2. InOrder(outbox) /\ outbox \in Seq(Items)
    BY DEF OutInv, OrderInv
  <2> QED
    BY <2>1, <2>2
<1>4. OrderInv'
  <2>1. InOrder(outbox)' /\ InOrder(pass)'
    BY <1>1, <1>3 DEF OutInv, OrderInv, InOrder
  <2> QED
    BY <1>1, <1>2, <1>3, <2>1 DEF OutInv, OrderInv
<1>5. NoneOvertaken'
  BY <1>1, <1>2 DEF OutInv, NoneOvertaken
<1>6. \A j \in Items : Settled(j) => Settled(j)'
  BY <1>1 DEF Settled, StatusKept
<1>7. NoneLost'
  BY <1>1, <1>2, <1>6 DEF OutInv, NoneLost
<1> QED
  BY <1>4, <1>5, <1>7 DEF OutInv

\* The confirmed handoff leaves the outbox, or its removal failed.
LEMMA OutConfirmed ==
  ASSUME OutInv, StatusKept, RemoveConfirmed
  PROVE  OutInv'
<1>1. /\ confirmed \in Handoffs /\ confirmed \in Items /\ status[confirmed] = "stored"
      /\ outbox \in Seq(Items) /\ confirmed' = None
      /\ UNCHANGED <<queued, delivered, pass, blocked, step, status>>
  BY HandoffAssumption DEF RemoveConfirmed, OutInv, NoneLost, OrderInv, history
<1>2. CASE outbox' = outbox
  BY <1>1, <1>2, OutKept
<1>3. CASE outbox' = Without(confirmed)
  <2>1. /\ outbox' \in Seq(Items) /\ InOrder(outbox')
        /\ \A j \in Items : In(j, outbox') <=> j # confirmed /\ In(j, outbox)
    BY <1>1, <1>3, WithoutFacts DEF OutInv, OrderInv
  <2>2. /\ \A j, k : Ahead(j, k)' = Ahead(j, k)
        /\ \A j : /\ In(j, queued)' = In(j, queued) /\ In(j, outbox)' = In(j, outbox')
                  /\ In(j, pass)' = In(j, pass) /\ In(j, delivered)' = In(j, delivered)
    BY <1>1 DEF Ahead, In
  <2>3. OrderInv'
    <3>1. InOrder(outbox)' /\ InOrder(pass)'
      BY <1>1, <2>1, <2>2 DEF OutInv, OrderInv, InOrder
    <3> QED
      BY <1>1, <2>1, <2>2, <3>1 DEF OutInv, OrderInv
  <2>4. NoneOvertaken'
    BY <1>1, <2>1, <2>2 DEF OutInv, NoneOvertaken
  <2>5. \A j \in Items : Settled(j) => Settled(j)'
    BY <1>1, <2>2 DEF Settled
  <2>6. \A j \in Items : In(j, queued) => In(j, outbox') \/ Settled(j)'
    <3>1. Settled(confirmed)
      BY <1>1 DEF Settled
    <3> QED
      BY <2>1, <2>5, <3>1 DEF OutInv, NoneLost
  <2>7. \A j \in Items \ Handoffs : In(j, pass) => In(j, outbox')
    BY <1>1, <2>1 DEF OutInv, NoneLost
  <2>8. NoneLost'
    BY <1>1, <2>2, <2>5, <2>6, <2>7 DEF OutInv, NoneLost
  <2> QED
    BY <2>3, <2>4, <2>8 DEF OutInv
<1> QED
  BY <1>2, <1>3 DEF RemoveConfirmed

LEMMA FlushStepOut ==
  ASSUME OutInv, PInv, StatusKept, NEW i \in Items, FlushStep(i)
  PROVE  OutInv'
<1> USE DEF history, disk
<1>0. \A j \in Items : pass # <<>> /\ Head(pass) = j /\ step \in {"attempted", "transmitted"} => j \in Handoffs
  BY DEF PInv, HInv, Signatures
<1>1. CASE SkipBlocked(i)
  BY <1>1, OutNext DEF SkipBlocked, At
<1>2. CASE SendDm(i)
  <2>1. CASE delivered' = Append(delivered, i) /\ pass' = pass
    BY <1>2, <2>1, OutTakes DEF SendDm, Turn, At, NextItem
  <2>2. CASE NextItem /\ delivered' = delivered
    BY <1>2, <2>2, OutNext DEF SendDm, Turn, At
  <2> QED
    BY <1>2, <2>1, <2>2, OutNext DEF SendDm, Turn, At
<1>3. CASE RemoveDone(i)
  <2>1. Settled(i)
    BY <1>3 DEF RemoveDone, At, OutInv, NoneLost
  <2> QED
    BY <1>3, <2>1, OutNext DEF RemoveDone, At
<1>4. CASE ItemFails(i)
  BY <1>4, OutNext DEF ItemFails, At
<1>5. CASE HandoffStored(i)
  <2>1. Settled(i)
    BY <1>5 DEF HandoffStored, Settled
  <2> QED
    BY <1>5, <2>1, OutNext DEF HandoffStored, Turn, At
<1>6. CASE HandoffExpires(i)
  <2>1. status'[i] = "expired" /\ i \in Handoffs /\ Head(pass) = i
    BY <1>6 DEF HandoffExpires, Turn, At, PInv, HInv, Signatures
  <2>2. Settled(i)'
    BY <2>1 DEF Settled
  <2> QED
    BY <1>6, <2>1, <2>2, OutKept DEF HandoffExpires
<1>7. CASE HandoffWaits(i)
  BY <1>7, OutNext DEF HandoffWaits, Open, Turn, At
<1>8. CASE HandoffBacksOff(i)
  BY <1>8, OutNext DEF HandoffBacksOff, Open, Turn, At
<1>9. CASE HandoffAttempt(i)
  BY <1>9, OutKept DEF HandoffAttempt
<1>10. CASE HandoffTransmit(i)
  <2>1. i \in Handoffs
    BY <1>0, <1>10 DEF HandoffTransmit, At
  <2>2. CASE NextItem
    BY <1>10, <2>1, <2>2, OutNext DEF HandoffTransmit, At
  <2>3. CASE step' = "transmitted" /\ pass' = pass
    BY <1>10, <2>3, OutKept DEF HandoffTransmit
  <2> QED
    BY <1>10, <2>2, <2>3 DEF HandoffTransmit
<1>11. CASE HandoffRecord(i)
  <2>1. i \in Handoffs
    BY <1>0, <1>11 DEF HandoffRecord, At
  <2> QED
    BY <1>11, <2>1, OutNext DEF HandoffRecord, At
<1> QED
  BY <1>1, <1>2, <1>3, <1>4, <1>5, <1>6, <1>7, <1>8, <1>9, <1>10, <1>11 DEF FlushStep

LEMMA OutInvStep ==
  ASSUME OutInv, PInv, [Next]_vars
  PROVE  OutInv'
<1>0. StatusKept
  BY StatusIsKept
<1> USE DEF disk, process, world, receiver, history
<1>1. ASSUME UNCHANGED <<queued, outbox, delivered, pass, blocked, confirmed, step>> PROVE OutInv'
  BY <1>0, <1>1, OutKept
<1>2. ASSUME NEW i \in Items, Queue(i) PROVE OutInv'
  BY <1>0, <1>2, OutQueue
<1>3. ASSUME NEW i \in Items, BackoffEnds(i) \/ DeadlinePasses(i) \/ ReceiverClockAdvances(i)
      PROVE  OutInv'
  BY <1>1, <1>3 DEF BackoffEnds, DeadlinePasses, ReceiverClockAdvances
<1>4. ASSUME NEW i \in Items, FlushStep(i) PROVE OutInv'
  BY <1>0, <1>4, FlushStepOut
<1>5. CASE FlushBegins
  <2>1. confirmed' = None
    BY <1>5 DEF FlushBegins, Idle
  <2> QED
    BY <1>0, <1>5, <2>1, OutBegins DEF FlushBegins
<1>6. CASE SenderRestarts
  BY <1>0, <1>6, OutBegins DEF SenderRestarts
<1>7. CASE RemoveConfirmed
  BY <1>0, <1>7, OutConfirmed
<1>8. ASSUME NEW m \in net, RequestArrives(m) \/ Lose(m) PROVE OutInv'
  BY <1>1, <1>8 DEF RequestArrives, Lose
<1>9. ASSUME NEW m \in net, ReceiptArrives(m) PROVE OutInv'
  <2>1. m.id \in Handoffs /\ m.id \in Items
    BY <1>9, HandoffAssumption DEF PInv, HInv, Honest, Notes
  <2>2. status \in [Items -> {"none", "queued", "awaiting_receipt", "stored", "expired"}]
    BY DEF PInv, HInv, Signatures
  <2>3. confirmed' = confirmed \/ (confirmed' = m.id /\ status'[m.id] = "stored")
    BY <1>9, <2>1, <2>2 DEF ReceiptArrives
  <2>4. UNCHANGED <<queued, outbox, delivered, pass, blocked, step>>
    BY <1>9 DEF ReceiptArrives
  <2> QED
    BY <1>0, <2>1, <2>3, <2>4, OutKept
<1>10. ASSUME NEW p \in Peers, SendReceipt(p) \/ \E to \in LinkStates : LinkChanges(p, to) PROVE OutInv'
  BY <1>1, <1>10 DEF SendReceipt, LinkChanges
<1>11. ASSUME NEW rd \in Readers, NEW p \in Peers, ListInbox(rd, p) PROVE OutInv'
  BY <1>1, <1>11 DEF ListInbox
<1>12. ASSUME NEW rd \in Readers, NEW k \in listing[rd], Claim(rd, k) PROVE OutInv'
  BY <1>1, <1>12 DEF Claim
<1>13. CASE UNCHANGED vars
  BY <1>1, <1>13 DEF vars
<1> QED
  BY <1>2, <1>3, <1>4, <1>5, <1>6, <1>7, <1>8, <1>9, <1>10, <1>11, <1>12, <1>13 DEF Next

\* A direct action leaves the outbox only when it is settled, and the transport takes
\* those for one target in the order they were queued, whatever fails, blocks, is
\* confirmed out of turn or restarts (flushAgentOutbox, cli.ts).
THEOREM OutboxKeepsItsWord == Spec => []OutboxSound
<1>1. ASSUME OutInv PROVE NothingDropped
  <2>1. queued \in Seq(Items) /\ outbox \in Seq(Items) /\ delivered \in Seq(Items)
    BY <1>1 DEF OutInv, OrderInv
  <2>2. \A i : /\ i \in ToSet(queued) <=> In(i, queued)
               /\ i \in ToSet(outbox) <=> In(i, outbox)
               /\ i \in ToSet(delivered) <=> In(i, delivered)
    BY <2>1 DEF ToSet, In
  <2>3. \A i : In(i, queued) => i \in Items
    BY <2>1 DEF In
  <2> QED
    BY <1>1, <2>2, <2>3 DEF OutInv, NoneLost, NothingDropped, Settled
<1>2. ASSUME OutInv PROVE DirectInOrder
  BY <1>2 DEF OutInv, NoneOvertaken, DirectInOrder, Ahead
<1>3. OutInv => OutboxSound
  BY <1>1, <1>2 DEF OutboxSound
<1>4. Init => PInv /\ OutInv
  BY PInvInit, OutInvInit
<1>5. (PInv /\ OutInv) /\ [Next]_vars => (PInv /\ OutInv)'
  BY PInvStep, OutInvStep
<1> QED
  BY <1>3, <1>4, <1>5, PTL DEF Spec

-----------------------------------------------------------------------------
(* The refinement. *)

RecordsOf(i) == {k \in records : k[1] = i}

\* A handoff has one record at most, so that the inbox has one entry for it.
LEMMA OneRecord ==
  ASSUME HInv, NEW k \in records, NEW l \in records, k[1] = l[1]
  PROVE  k = l
<1>1. k[2] = l[2] /\ k \in Handoffs \X Nat /\ l \in Handoffs \X Nat
  BY DEF HInv, Honest, Signature
<1>. QED
  BY <1>1

\* A function that differs from another in one argument.
LEMMA OneChanged ==
  ASSUME NEW D, NEW f, NEW g, NEW x \in D, NEW v,
         f = [i \in D |-> f[i]], g = [i \in D |-> g[i]],
         g[x] = v, \A i \in D \ {x} : g[i] = f[i]
  PROVE  g = [f EXCEPT ![x] = v]
OBVIOUS

LEMMA PromiseInit == Init => Promise!Init
<1>1. SUFFICES ASSUME Init PROVE Promise!Init
  OBVIOUS
<1>2. Inbox = [i \in Handoffs |-> "absent"]
  BY <1>1 DEF Init, Inbox
<1>3. Reported = [i \in Handoffs |-> "pending"]
  BY <1>1, HandoffAssumption DEF Init, Reported
<1>. QED
  BY <1>2, <1>3 DEF Promise!Init

\* A request that is stored for the first time.
LEMMA StoreMaps ==
  ASSUME PInv, NEW m \in net, RequestArrives(m), Verdict(m) = "new"
  PROVE  Promise!Store(m.id) /\ m.id \in Handoffs
<1>1. m.id \in Handoffs /\ Key(m) \notin records /\ Key(m)[1] = m.id /\ m.by = envelope[m.id]
  BY DEF PInv, HInv, Honest, Truthful, Signature, Verdict, Key
<1>2. RecordsOf(m.id) = {}
  BY <1>1 DEF RecordsOf, PInv, HInv, Honest, Signature, Key
<1>3. records' = records \cup {Key(m)} /\ UNCHANGED <<status, taken>>
  BY DEF RequestArrives, disk
<1>4. Key(m) \notin Read
  BY <1>1 DEF PInv, Reading, Read
<1>5. Read' = Read
  BY <1>3 DEF Read
<1>6. Inbox[m.id] = "absent"
  BY <1>1, <1>2 DEF Inbox, RecordsOf
<1>7. Inbox'[m.id] = "unread"
  <2>1. Key(m) \in {k \in records' : k[1] = m.id}
    BY <1>1, <1>3
  <2>. QED
    BY <1>1, <1>4, <1>5, <2>1 DEF Inbox
<1>8. \A i \in Handoffs \ {m.id} : Inbox'[i] = Inbox[i]
  <2>1. ASSUME NEW i \in Handoffs \ {m.id}
        PROVE  {k \in records' : k[1] = i} = {k \in records : k[1] = i}
    BY <1>1, <1>3
  <2>. QED
    BY <1>5, <2>1 DEF Inbox
<1>9. Inbox' = [Inbox EXCEPT ![m.id] = "unread"]
  <2>1. Inbox = [i \in Handoffs |-> Inbox[i]] /\ Inbox' = [i \in Handoffs |-> Inbox'[i]]
    BY DEF Inbox
  <2>. QED
    BY <1>1, <1>7, <1>8, <2>1, OneChanged
<1>10. Reported' = Reported
  BY <1>3 DEF Reported
<1>. QED
  BY <1>1, <1>6, <1>9, <1>10 DEF Promise!Store

\* A reader that takes a record nobody has taken.
LEMMA ReadMaps ==
  ASSUME PInv, NEW rd \in Readers, NEW k \in listing[rd], Claim(rd, k), k \notin Read
  PROVE  Promise!Read(k[1]) /\ k[1] \in Handoffs
<1>1. k \in records /\ k[1] \in Handoffs
  BY DEF PInv, HInv, Honest, Reading
<1>2. RecordsOf(k[1]) = {k}
  BY <1>1, OneRecord DEF RecordsOf, PInv
<1>3. taken' = [taken EXCEPT ![rd] = @ \cup {k}] /\ UNCHANGED <<records, status>>
  BY DEF Claim, disk
<1>4. Read' = Read \cup {k}
  BY <1>3 DEF Read, PInv, Reading
<1>5. Inbox[k[1]] = "unread"
  BY <1>1, <1>2 DEF Inbox, RecordsOf
<1>6. Inbox'[k[1]] = "read"
  BY <1>1, <1>2, <1>3, <1>4 DEF Inbox, RecordsOf
<1>7. \A i \in Handoffs \ {k[1]} : Inbox'[i] = Inbox[i]
  <2>1. ASSUME NEW i \in Handoffs \ {k[1]}
        PROVE  (RecordsOf(i) \subseteq Read') = (RecordsOf(i) \subseteq Read)
    BY <1>4 DEF RecordsOf
  <2>. QED
    BY <1>3, <2>1 DEF Inbox, RecordsOf
<1>8. Inbox' = [Inbox EXCEPT ![k[1]] = "read"]
  <2>1. Inbox = [i \in Handoffs |-> Inbox[i]] /\ Inbox' = [i \in Handoffs |-> Inbox'[i]]
    BY DEF Inbox
  <2>. QED
    BY <1>1, <1>6, <1>7, <2>1, OneChanged
<1>9. Reported' = Reported
  BY <1>3 DEF Reported
<1>. QED
  BY <1>1, <1>5, <1>8, <1>9 DEF Promise!Read

\* A change of what is reported, while the inboxes stay what they are.
LEMMA ReportMaps ==
  ASSUME PInv, Reports, UNCHANGED <<records, taken>>
  PROVE  Promise!Next \/ UNCHANGED <<Inbox, Reported>>
<1>. USE HandoffAssumption
<1>1. status \in [Items -> {"none", "queued", "awaiting_receipt", "stored", "expired"}]
  BY DEF PInv, HInv, Signatures
<1>2. Inbox' = Inbox
  BY DEF Inbox, Read
<1>3. CASE \A i \in Handoffs : /\ (status'[i] = "stored") = (status[i] = "stored")
                                /\ (status'[i] = "expired") = (status[i] = "expired")
  <2>1. ASSUME NEW i \in Handoffs
        PROVE  (IF status'[i] \in {"stored", "expired"} THEN status'[i] ELSE "pending")
                 = (IF status[i] \in {"stored", "expired"} THEN status[i] ELSE "pending")
    BY <1>3
  <2>2. Reported' = Reported
    BY <2>1 DEF Reported
  <2>. QED
    BY <1>2, <2>2
<1>4. ASSUME NEW i \in Handoffs, status[i] # "stored", status' = [status EXCEPT ![i] = "expired"]
      PROVE  Promise!GiveUp(i) \/ Reported' = Reported
  <2>1. Reported' = [Reported EXCEPT ![i] = "expired"]
    BY <1>1, <1>4 DEF Reported
  <2>2. Reported[i] \in {"pending", "expired"}
    BY <1>4 DEF Reported
  <2>. QED
    BY <1>2, <2>1, <2>2 DEF Promise!GiveUp, Reported
<1>5. ASSUME NEW i \in Handoffs, <<i, envelope[i]>> \in records,
             status' = [status EXCEPT ![i] = "stored"]
      PROVE  Promise!Confirm(i) \/ Reported' = Reported
  <2>1. Reported' = [Reported EXCEPT ![i] = "stored"]
    BY <1>1, <1>5 DEF Reported
  <2>2. Inbox[i] # "absent"
    <3>1. <<i, envelope[i]>> \in {k \in records : k[1] = i}
      BY <1>5
    <3>. QED
      BY <3>1 DEF Inbox
  <2>3. Reported[i] \in {"pending", "expired", "stored"}
    BY DEF Reported
  <2>. QED
    BY <1>2, <2>1, <2>2, <2>3 DEF Promise!Confirm, Reported
<1>. QED
  BY <1>2, <1>3, <1>4, <1>5 DEF Reports, Promise!Next

LEMMA PromiseStep ==
  ASSUME PInv, [Next]_vars
  PROVE  [Promise!Next]_<<Inbox, Reported>>
<1>. USE DEF disk, process, world, receiver, history
<1>1. Reports
  BY ReportsStep
<1>2. ASSUME UNCHANGED <<records, taken>> PROVE [Promise!Next]_<<Inbox, Reported>>
  BY <1>1, <1>2, ReportMaps
<1>3. ASSUME NEW i \in Items,
             Queue(i) \/ BackoffEnds(i) \/ DeadlinePasses(i) \/ ReceiverClockAdvances(i)
      PROVE [Promise!Next]_<<Inbox, Reported>>
  BY <1>2, <1>3 DEF Queue, BackoffEnds, DeadlinePasses, ReceiverClockAdvances
<1>4. ASSUME NEW i \in Items, FlushStep(i) PROVE [Promise!Next]_<<Inbox, Reported>>
  <2>1. UNCHANGED receiver
    BY <1>4 DEF FlushStep, SkipBlocked, SendDm, RemoveDone, ItemFails, HandoffStored, HandoffExpires,
                HandoffWaits, HandoffBacksOff, HandoffAttempt, HandoffTransmit, HandoffRecord
  <2>. QED
    BY <1>2, <2>1
<1>5. CASE FlushBegins \/ RemoveConfirmed \/ SenderRestarts
  BY <1>2, <1>5 DEF FlushBegins, RemoveConfirmed, SenderRestarts
<1>6. ASSUME NEW m \in net, ReceiptArrives(m) \/ Lose(m) PROVE [Promise!Next]_<<Inbox, Reported>>
  BY <1>2, <1>6 DEF ReceiptArrives, Lose
<1>7. ASSUME NEW m \in net, RequestArrives(m) PROVE [Promise!Next]_<<Inbox, Reported>>
  <2>1. CASE Verdict(m) = "new"
    BY <1>7, <2>1, StoreMaps DEF Promise!Next
  <2>2. CASE Verdict(m) # "new"
    BY <1>2, <1>7, <2>2 DEF RequestArrives
  <2>. QED
    BY <2>1, <2>2
<1>8. ASSUME NEW p \in Peers, SendReceipt(p) PROVE [Promise!Next]_<<Inbox, Reported>>
  BY <1>2, <1>8 DEF SendReceipt
<1>9. ASSUME NEW p \in Peers, NEW to \in LinkStates, LinkChanges(p, to)
      PROVE [Promise!Next]_<<Inbox, Reported>>
  BY <1>2, <1>9 DEF LinkChanges
<1>10. ASSUME NEW rd \in Readers, NEW p \in Peers, ListInbox(rd, p)
       PROVE [Promise!Next]_<<Inbox, Reported>>
  BY <1>2, <1>10 DEF ListInbox
<1>11. ASSUME NEW rd \in Readers, NEW k \in listing[rd], Claim(rd, k)
       PROVE [Promise!Next]_<<Inbox, Reported>>
  <2>1. CASE k \notin Read
    BY <1>11, <2>1, ReadMaps DEF Promise!Next
  <2>2. CASE k \in Read
    BY <1>2, <1>11, <2>2 DEF Claim
  <2>. QED
    BY <2>1, <2>2
<1>12. CASE UNCHANGED vars
  BY <1>2, <1>12 DEF vars
<1>. QED
  BY <1>3, <1>4, <1>5, <1>6, <1>7, <1>8, <1>9, <1>10, <1>11, <1>12 DEF Next

\* Whatever is lost, retried, restarted or read, a handoff enters its peer's
\* inbox once and is reported as stored only when it is there: flushHandoff,
\* handleSidecarHandoff and takeInboxMessages together implement HandoffAbs.
THEOREM PromiseKept == Spec => ImplementsPromise
<1>. QED
  BY PInvInit, PInvStep, PromiseInit, PromiseStep, PTL DEF Spec, ImplementsPromise, Promise!Spec
=============================================================================
