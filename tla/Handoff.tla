------------------------------ MODULE Handoff ------------------------------
(***************************************************************************)
(* The durable outbox of a sidecar and the confirmed handoff (cli.ts,      *)
(* agent-state.ts, handoff.ts): one sending sidecar that restarts, the     *)
(* receiving sidecars of its peers, the CLI processes that read their      *)
(* inboxes, and a network that loses and delays.                           *)
(*                                                                         *)
(* The outbox holds direct actions, in the order of createdAt.  A handoff  *)
(* stays until its peer has confirmed storage or it has expired; any other *)
(* direct action (dm, command, response: "dm" here) leaves when the        *)
(* transport takes it.  Chat, event, status and file actions never block   *)
(* another action and are left out.                                        *)
(*                                                                         *)
(* A flush is one synchronous handler; it is cut where it writes a file or *)
(* sends, because the process can be killed between two of those steps.    *)
(* Nothing else of this sidecar runs in between, except a receipt that     *)
(* arrives inside the send.  The other machines run all the time.          *)
(***************************************************************************)
EXTENDS Naturals, Sequences, SequencesExt, Lists

CONSTANTS
  Peers,        \* stream ids of the receiving sidecars
  Items,        \* ids of queued actions
  Handoffs,     \* the actions of kind "handoff"; the others are of kind "dm"
  To,           \* To[i]: the target of an action
  Readers,      \* CLI processes that read inboxes
  None,         \* no message, no action
  FirstClock,   \* where a receiver's clock may stand when a request is queued
  Faults,       \* values of faulty to consider
  MaxAttempts,  \* bound: attempts for one handoff
  MaxTaken,     \* bound: dm actions the transport takes, repeats included
  MaxRestarts   \* bound: restarts of the sender

ASSUME HandoffAssumption ==
  /\ Handoffs \subseteq Items /\ To \in [Items -> Peers] /\ None \notin Items
  /\ FirstClock \subseteq {"early", "live"} /\ Faults \subseteq BOOLEAN
  /\ MaxAttempts \in Nat \ {0} /\ MaxTaken \in Nat /\ MaxRestarts \in Nat

VARIABLES
  \* the sender's disk
  outbox,      \* queued actions, by createdAt
  envelope,    \* the instance that signed an action's persisted envelope, or 0
  status,      \* "none" (no status file), "queued", "awaiting_receipt", "stored", "expired"
  waitingFor,  \* "nothing", "peer_connection" or "peer_support"
  due,         \* handoffs whose nextAttemptAt has passed
  attempts,    \* of the status record
  \* the sender's process
  inst,        \* its instance id
  link,        \* "down", "connected" or "supported" (announced handoff-v1)
  pass,        \* what a flush has still to handle, <<>> between flushes
  step,        \* of Head(pass): "item", "attempted", "transmitted" or "done"
  blocked,     \* blockedTargets of this flush
  confirmed,   \* the handoff whose receipt was saved and that still is queued
  faulty,      \* whether its file operations and its transport may throw
  \* the network and the clocks
  net,         \* messages on their way
  expired,     \* requests whose expiresAt the sender's clock has passed
  rclock,      \* a request's time at its receiver: "early", "live" or "late"
  \* the receivers' disks, processes and readers
  records,     \* handoff records, <<id, instance of the sender>>
  owed,        \* the receipt a receiver is about to send, or None
  listing,     \* what a reader has listed and not tried to claim
  taken,       \* the records a reader has claimed
  \* history
  queued,      \* actions ever queued, in order
  delivered    \* dm actions the transport took, in order, repeats included

disk     == <<outbox, envelope, status, waitingFor, due, attempts>>
process  == <<inst, link, pass, step, blocked, confirmed, faulty>>
world    == <<net, expired, rclock>>
receiver == <<records, owed, listing, taken>>
history  == <<queued, delivered>>
vars     == <<disk, process, world, receiver, history>>

Steps      == {"item", "attempted", "transmitted", "done"}
LinkStates == {"down", "connected", "supported"}

Request(i, n)    == [kind |-> "request", id |-> i, by |-> envelope[i], try |-> n]
ReceiptFor(m)    == [m EXCEPT !.kind = "receipt"]
Key(m)           == <<m.id, m.by>>
Read             == UNION {taken[rd] : rd \in Readers}
Queued(i)        == i \in ToSet(outbox)
Without(i)       == Only(outbox, Items \ {i})  \* removeQueuedAgentAction
Idle             == pass = <<>> /\ confirmed = None

Init ==
  /\ outbox = <<>> /\ envelope = [i \in Items |-> 0]
  /\ status = [i \in Items |-> "none"] /\ waitingFor = [i \in Items |-> "nothing"]
  /\ due = Handoffs /\ attempts = [i \in Items |-> 0]
  /\ inst = 1 /\ link = [p \in Peers |-> "down"]
  /\ pass = <<>> /\ step = "item" /\ blocked = {} /\ confirmed = None /\ faulty \in Faults
  /\ net = {} /\ expired = {} /\ rclock \in [Items -> FirstClock]
  /\ records = {} /\ owed = [p \in Peers |-> None]
  /\ listing = [rd \in Readers |-> {}] /\ taken = [rd \in Readers |-> {}]
  /\ queued = <<>> /\ delivered = <<>>

-----------------------------------------------------------------------------
(* The sender's outbox. *)

\* The handoff, dm, command and respond commands of the CLI.
Queue(i) ==
  /\ i \notin ToSet(queued)
  /\ outbox' = Append(outbox, i)
  /\ queued' = Append(queued, i)
  /\ UNCHANGED <<envelope, status, waitingFor, due, attempts, process, world, receiver, delivered>>

\* The 500 ms timer starts flushAgentOutbox.
FlushBegins ==
  /\ Idle /\ outbox # <<>>
  /\ pass' = outbox /\ step' = "item" /\ blocked' = {}
  /\ UNCHANGED <<disk, inst, link, confirmed, faulty, world, receiver, history>>

\* The flush stands at step s of action i.
At(s, i) == pass # <<>> /\ Head(pass) = i /\ step = s /\ confirmed = None

NextItem == pass' = Tail(pass) /\ step' = "item"

SkipBlocked(i) ==
  /\ At("item", i) /\ To[i] \in blocked
  /\ NextItem
  /\ UNCHANGED <<disk, inst, link, blocked, confirmed, faulty, world, receiver, history>>

\* A fault for the mutation tests: every flush signs the envelope again.
SignedAnew(i) == [envelope EXCEPT ![i] = inst]

\* prepareQueuedAgentEnvelope: the first flush persists the envelope it makes.
Signed(i) == [envelope EXCEPT ![i] = IF @ = 0 THEN inst ELSE @]

\* The turn of an action no earlier one for its target has blocked.
Turn(i) == At("item", i) /\ To[i] \notin blocked /\ envelope' = Signed(i)

\* A fault for the mutation tests: a refused action does not block its target.
SendDmUnblocked(i) ==
  /\ Turn(i) /\ i \notin Handoffs
  /\ \/ /\ link[To[i]] # "down" /\ Len(delivered) < MaxTaken
        /\ delivered' = Append(delivered, i) /\ step' = "done"
        /\ UNCHANGED pass
     \/ /\ NextItem
        /\ UNCHANGED delivered
  /\ UNCHANGED <<outbox, status, waitingFor, due, attempts, inst, link, blocked, confirmed,
                 faulty, world, receiver, queued>>

\* Any direct action but a handoff: taken by the transport, or in the way of
\* the later ones for its target.
SendDm(i) ==
  /\ Turn(i) /\ i \notin Handoffs
  /\ \/ /\ link[To[i]] # "down" /\ Len(delivered) < MaxTaken
        /\ delivered' = Append(delivered, i) /\ step' = "done"
        /\ UNCHANGED <<pass, blocked>>
     \/ /\ blocked' = blocked \cup {To[i]} /\ NextItem
        /\ UNCHANGED delivered
  /\ UNCHANGED <<outbox, status, waitingFor, due, attempts, inst, link, confirmed,
                 faulty, world, receiver, queued>>

\* The action is removed: a dm that was taken, a handoff that has expired.
RemoveDone(i) ==
  /\ At("done", i)
  /\ outbox' = Without(i)
  /\ NextItem
  /\ UNCHANGED <<envelope, status, waitingFor, due, attempts, inst, link, blocked, confirmed,
                 faulty, world, receiver, history>>

\* A write, a removal or the transport throws: the action stays, its target waits.
ItemFails(i) ==
  /\ faulty
  /\ \E s \in Steps : At(s, i)
  /\ step = "item" => To[i] \notin blocked
  /\ envelope' = envelope \/ (step = "item" /\ envelope' = Signed(i))
  /\ blocked' = blocked \cup {To[i]}
  /\ NextItem
  /\ UNCHANGED <<outbox, status, waitingFor, due, attempts, inst, link, confirmed, faulty,
                 world, receiver, history>>

-----------------------------------------------------------------------------
(* flushHandoff. *)

HandoffStored(i) ==
  /\ Turn(i) /\ i \in Handoffs /\ status[i] = "stored"
  /\ outbox' = Without(i)
  /\ NextItem
  /\ UNCHANGED <<status, waitingFor, due, attempts, inst, link, blocked, confirmed,
                 faulty, world, receiver, history>>

\* Two faults for the mutation tests: a confirmation is not looked for first,
\* and the expired handoff stays queued.
HandoffExpiresFirst(i) ==
  /\ Turn(i) /\ i \in Handoffs /\ i \in expired
  /\ status' = [status EXCEPT ![i] = "expired"]
  /\ waitingFor' = [waitingFor EXCEPT ![i] = "nothing"]
  /\ step' = "done"
  /\ UNCHANGED <<outbox, due, attempts, inst, link, pass, blocked, confirmed, faulty, world, receiver, history>>

HandoffExpiresKept(i) ==
  /\ Turn(i) /\ i \in Handoffs /\ status[i] # "stored" /\ i \in expired
  /\ status' = [status EXCEPT ![i] = "expired"]
  /\ waitingFor' = [waitingFor EXCEPT ![i] = "nothing"]
  /\ NextItem
  /\ UNCHANGED <<outbox, due, attempts, inst, link, blocked, confirmed, faulty, world, receiver, history>>

\* expiresAt has passed: the status first, then the outbox.
HandoffExpires(i) ==
  /\ Turn(i) /\ i \in Handoffs /\ status[i] # "stored" /\ i \in expired
  /\ status' = [status EXCEPT ![i] = "expired"]
  /\ waitingFor' = [waitingFor EXCEPT ![i] = "nothing"]
  /\ step' = "done"
  /\ UNCHANGED <<outbox, due, attempts, inst, link, pass, blocked, confirmed, faulty, world, receiver, history>>

Open(i) == Turn(i) /\ i \in Handoffs /\ status[i] # "stored" /\ i \notin expired

\* The status record is written for the first time.
Started(i) == [status EXCEPT ![i] = IF @ = "none" THEN "queued" ELSE @]

\* The peer is away, or cannot deduplicate and confirm: nothing is sent.
HandoffWaits(i) ==
  /\ Open(i) /\ link[To[i]] # "supported"
  /\ status' = Started(i)
  /\ waitingFor' = [waitingFor EXCEPT ![i] =
                      IF link[To[i]] = "down" THEN "peer_connection" ELSE "peer_support"]
  /\ NextItem
  /\ UNCHANGED <<outbox, due, attempts, inst, link, blocked, confirmed, faulty, world, receiver, history>>

HandoffBacksOff(i) ==
  /\ Open(i) /\ link[To[i]] = "supported" /\ i \notin due
  /\ NextItem
  /\ UNCHANGED <<outbox, status, waitingFor, due, attempts, inst, link, blocked, confirmed,
                 faulty, world, receiver, history>>

\* The attempt is saved before the request is sent.
HandoffAttempt(i) ==
  /\ Open(i) /\ link[To[i]] = "supported" /\ i \in due
  /\ status' = Started(i) /\ waitingFor' = [waitingFor EXCEPT ![i] = "nothing"]
  /\ due' = due \ {i} /\ attempts' = [attempts EXCEPT ![i] = @ + 1]
  /\ step' = "attempted"
  /\ UNCHANGED <<outbox, inst, link, pass, blocked, confirmed, faulty, world, receiver, history>>

HandoffTransmit(i) ==
  /\ At("attempted", i)
  /\ \/ /\ net' = net \cup {Request(i, attempts[i])} /\ step' = "transmitted"
        /\ UNCHANGED pass
     \/ NextItem /\ UNCHANGED net
  /\ UNCHANGED <<disk, inst, link, blocked, confirmed, faulty, expired, rclock, receiver, history>>

\* The rest of the send, unless the receipt came inside it.
HandoffRecord(i) ==
  /\ At("transmitted", i)
  /\ status' = [status EXCEPT ![i] = IF @ = "stored" THEN @ ELSE "awaiting_receipt"]
  /\ NextItem
  /\ UNCHANGED <<outbox, envelope, waitingFor, due, attempts, inst, link, blocked, confirmed,
                 faulty, world, receiver, history>>

FlushStep(i) ==
  \/ SkipBlocked(i) \/ SendDm(i) \/ RemoveDone(i) \/ ItemFails(i)
  \/ HandoffStored(i) \/ HandoffExpires(i) \/ HandoffWaits(i) \/ HandoffBacksOff(i)
  \/ HandoffAttempt(i) \/ HandoffTransmit(i) \/ HandoffRecord(i)

-----------------------------------------------------------------------------
(* The sender's other handlers. *)

\* acceptHandoffReceipt: the request is known, and was signed by that instance.
ReceiptMatches(m) == status[m.id] # "none" /\ envelope[m.id] = m.by

\* handleSidecarHandoff, a receipt: its status first, then the outbox.
ReceiptArrives(m) ==
  /\ m \in net /\ m.kind = "receipt"
  /\ confirmed = None /\ (pass # <<>> => step = "transmitted")
  /\ net' = net \ {m}
  /\ IF ReceiptMatches(m)
     THEN /\ status' = [status EXCEPT ![m.id] = "stored"]
          /\ waitingFor' = [waitingFor EXCEPT ![m.id] = "nothing"]
          /\ confirmed' = m.id
     ELSE UNCHANGED <<status, waitingFor, confirmed>>
  /\ UNCHANGED <<outbox, envelope, due, attempts, inst, link, pass, step, blocked,
                 faulty, expired, rclock, receiver, history>>

RemoveConfirmed ==
  /\ confirmed # None
  /\ outbox' = Without(confirmed) \/ (faulty /\ outbox' = outbox)
  /\ confirmed' = None
  /\ UNCHANGED <<envelope, status, waitingFor, due, attempts, inst, link, pass, step, blocked,
                 faulty, world, receiver, history>>

\* The registry's view of a peer, as the bridge keeps it.
LinkChanges(p, to) ==
  /\ Idle
  /\ <<link[p], to>> \in {<<"down", "connected">>, <<"connected", "supported">>,
                          <<"connected", "down">>, <<"supported", "down">>}
  /\ link' = [link EXCEPT ![p] = to]
  /\ UNCHANGED <<disk, inst, pass, step, blocked, confirmed, faulty, world, receiver, history>>

\* The sidecar is killed, at any step, and started again.
SenderRestarts ==
  /\ inst <= MaxRestarts
  /\ inst' = inst + 1 /\ link' = [p \in Peers |-> "down"]
  /\ pass' = <<>> /\ step' = "item" /\ blocked' = {} /\ confirmed' = None
  /\ UNCHANGED <<disk, faulty, world, receiver, history>>

-----------------------------------------------------------------------------
(* The network and the clocks. *)

Lose(m) ==
  /\ m \in net
  /\ net' = net \ {m}
  /\ UNCHANGED <<disk, process, expired, rclock, receiver, history>>

\* nextAttemptAt passes.
BackoffEnds(i) ==
  /\ i \in Handoffs \ due /\ attempts[i] < MaxAttempts
  /\ due' = due \cup {i}
  /\ UNCHANGED <<outbox, envelope, status, waitingFor, attempts, process, world, receiver, history>>

DeadlinePasses(i) ==
  /\ i \in Handoffs \ expired /\ i \in ToSet(queued)
  /\ expired' = expired \cup {i}
  /\ UNCHANGED <<disk, process, net, rclock, receiver, history>>

\* A receiver's clock, which is not the sender's, passes ts - 60 s or expiresAt.
ReceiverClockAdvances(i) ==
  /\ i \in Handoffs /\ i \in ToSet(queued) /\ rclock[i] # "late"
  /\ rclock' = [rclock EXCEPT ![i] = IF @ = "early" THEN "live" ELSE "late"]
  /\ UNCHANGED <<disk, process, net, expired, receiver, history>>

-----------------------------------------------------------------------------
(* A receiving sidecar and the readers of its inbox. *)

\* storeHandoff: a record that exists is acknowledged again, even after expiry.
Verdict(m) ==
  IF rclock[m.id] = "early" THEN "rejected"
  ELSE IF Key(m) \in records THEN "duplicate"
  ELSE IF rclock[m.id] = "late" THEN "rejected" ELSE "new"

\* A fault for the mutation tests: a request that is refused is acknowledged.
RequestAlwaysOwed(m) ==
  /\ m \in net /\ m.kind = "request" /\ owed[To[m.id]] = None
  /\ net' = net \ {m}
  /\ records' = IF Verdict(m) = "new" THEN records \cup {Key(m)} ELSE records
  /\ owed' = [owed EXCEPT ![To[m.id]] = ReceiptFor(m)]
  /\ UNCHANGED <<disk, process, expired, rclock, listing, taken, history>>

\* handleSidecarHandoff, a request, up to the receipt.
RequestArrives(m) ==
  /\ m \in net /\ m.kind = "request" /\ owed[To[m.id]] = None
  /\ net' = net \ {m}
  /\ records' = IF Verdict(m) = "new" THEN records \cup {Key(m)} ELSE records
  /\ owed' = IF Verdict(m) = "rejected" THEN owed
             ELSE [owed EXCEPT ![To[m.id]] = ReceiptFor(m)]
  /\ UNCHANGED <<disk, process, expired, rclock, listing, taken, history>>

\* The receipt goes out, or the way back is gone, or the receiver is killed here.
SendReceipt(p) ==
  /\ owed[p] # None
  /\ owed' = [owed EXCEPT ![p] = None]
  /\ net' = net \cup {owed[p]} \/ UNCHANGED net
  /\ UNCHANGED <<disk, process, expired, rclock, records, listing, taken, history>>

\* takeInboxMessages lists the unread records first ...
ListInbox(rd, p) ==
  /\ listing[rd] = {}
  /\ listing' = [listing EXCEPT ![rd] = {k \in records \ Read : To[k[1]] = p}]
  /\ UNCHANGED <<disk, process, world, records, owed, taken, history>>

\* ... and then claims each of them: mkdir of the read marker succeeds once.
Claim(rd, k) ==
  /\ k \in listing[rd]
  /\ listing' = [listing EXCEPT ![rd] = @ \ {k}]
  /\ taken' = IF k \in Read THEN taken ELSE [taken EXCEPT ![rd] = @ \cup {k}]
  /\ UNCHANGED <<disk, process, world, records, owed, history>>

Next ==
  \/ \E i \in Items : Queue(i) \/ FlushStep(i) \/ BackoffEnds(i) \/ DeadlinePasses(i)
                      \/ ReceiverClockAdvances(i)
  \/ FlushBegins \/ RemoveConfirmed \/ SenderRestarts
  \/ \E m \in net : ReceiptArrives(m) \/ RequestArrives(m) \/ Lose(m)
  \/ \E p \in Peers : SendReceipt(p) \/ \E to \in LinkStates : LinkChanges(p, to)
  \/ \E rd \in Readers : \/ \E p \in Peers : ListInbox(rd, p)
                         \/ \E k \in listing[rd] : Claim(rd, k)

Spec == Init /\ [][Next]_vars

(***************************************************************************)
(* Fairness: the sidecar's timer keeps starting flushes, a handler that    *)
(* has begun runs on (unless it is killed), and the sender's clock moves.  *)
(* The network, the peers, their clocks and the readers owe nothing.       *)
(***************************************************************************)
FairSpec ==
  /\ Spec
  /\ WF_vars(FlushBegins) /\ WF_vars(RemoveConfirmed)
  /\ \A i \in Items : WF_vars(FlushStep(i)) /\ WF_vars(DeadlinePasses(i))

-----------------------------------------------------------------------------
(* Properties. *)

Instances == 1..(MaxRestarts + 1)
Messages  == [kind : {"request", "receipt"}, id : Handoffs, by : Instances, try : 1..MaxAttempts]

\* Types of the disks, the processes, the network and the history.
TypeOK ==
  /\ outbox \in Seq(Items) /\ pass \in Seq(Items)
  /\ queued \in Seq(Items) /\ delivered \in Seq(Items)
  /\ envelope \in [Items -> {0} \cup Instances]
  /\ status \in [Items -> {"none", "queued", "awaiting_receipt", "stored", "expired"}]
  /\ waitingFor \in [Items -> {"nothing", "peer_connection", "peer_support"}]
  /\ due \subseteq Handoffs /\ attempts \in [Items -> 0..MaxAttempts]
  /\ inst \in Instances /\ link \in [Peers -> LinkStates]
  /\ step \in Steps /\ blocked \subseteq Peers /\ confirmed \in Handoffs \cup {None}
  /\ faulty \in BOOLEAN
  /\ net \subseteq Messages /\ expired \subseteq Handoffs
  /\ rclock \in [Items -> {"early", "live", "late"}]
  /\ records \subseteq Handoffs \X Instances
  /\ owed \in [Peers -> Messages \cup {None}]
  /\ listing \in [Readers -> SUBSET records] /\ taken \in [Readers -> SUBSET records]

\* A request reported as stored is in the inbox of its peer, under the very
\* identity it was sent with, whatever was lost, retried or restarted.
StoredIsStored == \A i \in Handoffs : status[i] = "stored" => <<i, envelope[i]>> \in records

\* Retries of one handoff, across restarts of either side, make one record.
NoDuplicateWork == \A k, l \in records : k[1] = l[1] => k = l

\* Two readers that listed the same record do not both return it.
ReadOnce == \A r1, r2 \in Readers : r1 # r2 => taken[r1] \cap taken[r2] = {}

\* An action leaves the outbox only when it is settled: a handoff as stored or
\* expired, any other direct action as taken by the transport.
NothingDropped ==
  \A i \in ToSet(queued) \ ToSet(outbox) :
    IF i \in Handoffs THEN status[i] \in {"stored", "expired"} ELSE i \in ToSet(delivered)

\* Work handed over is taken on once: it makes one record, which one reader gets.
WorkTakenOnce == NoDuplicateWork /\ ReadOnce

\* No order of sends, receipts, flushes and restarts takes back a confirmation.
StoredIsFinal == [][\A i \in Handoffs : status[i] = "stored" => status'[i] = "stored"]_vars

\* The transport takes the direct actions for one target in the order they were
\* queued; after a restart the last one may be taken again.
DirectInOrder ==
  \A a, b \in 1..Len(delivered) :
    LET i == delivered[a]
        j == delivered[b]
    IN (a < b /\ To[i] = To[j] /\ i # j)
         => \E x, y \in 1..Len(queued) : x < y /\ queued[x] = i /\ queued[y] = j

\* The outbox keeps its actions until they are settled, and the order of the
\* direct ones.
OutboxSound == NothingDropped /\ DirectInOrder

\* What the detailed system does is what the promise allows.
Inbox == [i \in Handoffs |->
            LET of == {k \in records : k[1] = i}
            IN IF of = {} THEN "absent" ELSE IF of \subseteq Read THEN "read" ELSE "unread"]

Reported == [i \in Handoffs |-> IF status[i] \in {"stored", "expired"} THEN status[i] ELSE "pending"]

Promise == INSTANCE HandoffAbs WITH Requests <- Handoffs, inbox <- Inbox, reported <- Reported

\* The sidecars implement the promise of a confirmed handoff.
ImplementsPromise == Promise!Spec

\* A dm for the same target that is still queued before the handoff i.
BehindDm(i) ==
  \E x, y \in 1..Len(outbox) :
    x < y /\ outbox[y] = i /\ outbox[x] \notin Handoffs /\ To[outbox[x]] = To[i]

\* A queued handoff is settled in the end, as stored or expired, even if its
\* peer never comes back; unless another direct action for that peer is before it.
HandoffSettles == \A i \in Handoffs : (~faulty /\ Queued(i)) ~> (~Queued(i) \/ BehindDm(i))
=============================================================================
