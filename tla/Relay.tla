------------------------------- MODULE Relay -------------------------------
(***************************************************************************)
(* The HTTP transport (runtime/http-relay.cjs) and the relay it talks to   *)
(* (runtime/relay-server.cjs): clients post events to the log of a room    *)
(* and read the log from a cursor.  Requests fail before or after the      *)
(* relay has handled them, or reach it long after the client has given     *)
(* them up; the relay forgets old events, and all of them as it restarts.  *)
(*                                                                         *)
(* Events are letters (data, binary).  Hellos, by which clients find each  *)
(* other, are left out: a client may hear of another at any time, and may  *)
(* lose one it has not heard of for a while.  A cursor is kept as the      *)
(* number of events that follow it; Lost is one the log does not reach.    *)
(*                                                                         *)
(* A client opens a letter only if its own clock puts it in a window: not  *)
(* sealed more than five minutes ago, nor more than one minute ahead.  The *)
(* window is kept as the letters outside it, which a clock changes as it   *)
(* moves or is set.  A client remembers the last 4096 events it opened:    *)
(* here there are fewer, so seen forgets none.                             *)
(***************************************************************************)
EXTENDS Naturals, Sequences, SequencesExt, FiniteSets, Lists

CONSTANTS
  Clients,
  Letters,     \* numbered in the order in which their senders write them
  From, To,    \* of a letter; To may be Everyone
  Everyone,
  Retention,   \* events the relay keeps
  Capacity,    \* events a client keeps to post
  Attempts,    \* posts of one event (3)
  MaxFaults    \* bound: failed requests, restarts of the relay, aged events, lost
               \* peers, letters that enter or leave a window, departures

ASSUME RelayAssumption ==
  /\ Letters \subseteq Nat
  /\ From \in [Letters -> Clients] /\ To \in [Letters -> Clients \cup {Everyone}]
  /\ {Retention, Capacity, Attempts} \subseteq Nat \ {0} /\ MaxFaults \in Nat

VARIABLES
  log,         \* events of the room the relay still has
  behind,      \* behind[c]: events after the cursor of c, or Lost
  client,      \* "new", "on" or "closed"
  linked,      \* connected
  queue,       \* pending: letters to post, the head is being posted
  tries,       \* failed posts of the head
  known,       \* peers
  outside,     \* letters that are not in the window of c
  seen,        \* letters c has opened, its own and those for others too
  got,         \* letters c has passed on (dataReceived)
  rejected,    \* letters c has read and could not open (relayRejected)
  receipt,     \* "none", "relay_accepted" or "delivery_unknown"
  late,        \* letters with a given-up post that still may arrive
  overdue,     \* letters that ever had one
  owed,        \* letters that reached the log for a client that knew the sender
  unsent,      \* letters still to be written
  faults

relayVars == <<log, behind, client, linked, queue, tries, known, outside, seen, got, rejected,
               receipt, late, overdue, owed, unsent, faults>>

\* What a client has made of the letters it read.
readings == <<outside, seen, got, rejected>>

Lost == Retention + 1

RelayInit ==
  /\ log = <<>> /\ behind = [c \in Clients |-> 0]
  /\ client = [c \in Clients |-> "new"] /\ linked = [c \in Clients |-> FALSE]
  /\ queue = [c \in Clients |-> <<>>] /\ tries = [c \in Clients |-> 0]
  /\ known = [c \in Clients |-> {}]
  /\ outside = [c \in Clients |-> {}] /\ rejected = [c \in Clients |-> {}]
  /\ seen = [c \in Clients |-> {}] /\ got = [c \in Clients |-> <<>>]
  /\ receipt = [n \in Letters |-> "none"] /\ late = {} /\ overdue = {}
  /\ owed = [c \in Clients |-> {}] /\ unsent = Letters /\ faults = 0

Fault == faults < MaxFaults /\ faults' = faults + 1

(***************************************************************************)
(* The relay.                                                              *)
(***************************************************************************)
Concerns(n, c) ==
  client[c] = "on" /\ From[n] \in known[c] /\ n \notin seen[c] /\ To[n] \in {c, Everyone}

\* A POST: appended, unless its id is still in the log; then prune.
AddToLog(n) ==
  IF n \in ToSet(log) THEN UNCHANGED <<log, behind, owed>>
  ELSE /\ log' = IF Len(log) = Retention THEN Append(Tail(log), n) ELSE Append(log, n)
       /\ behind' = [c \in Clients |-> IF behind[c] = Lost THEN Lost ELSE behind[c] + 1]
       /\ owed' = [c \in Clients |-> owed[c] \cup {k \in {n} : Concerns(k, c)}]

\* A new epoch.
RelayRestarts ==
  /\ Fault
  /\ log' = <<>> /\ behind' = [c \in Clients |-> Lost]
  /\ UNCHANGED <<client, linked, queue, tries, known, readings, receipt, late, overdue, owed, unsent>>

\* A variant: a cursor the log does not reach gets what is left.
PruneSilently ==
  /\ log # <<>> /\ Fault
  /\ log' = Tail(log)
  /\ behind' = [c \in Clients |-> IF behind[c] = Len(log) THEN Len(log) - 1 ELSE behind[c]]
  /\ UNCHANGED <<client, linked, queue, tries, known, readings, receipt, late, overdue, owed, unsent>>

\* The oldest event leaves the log with age.
Prune ==
  /\ log # <<>> /\ Fault
  /\ log' = Tail(log)
  /\ behind' = [c \in Clients |-> IF behind[c] >= Len(log) THEN Lost ELSE behind[c]]
  /\ UNCHANGED <<client, linked, queue, tries, known, readings, receipt, late, overdue, owed, unsent>>

\* A post that its client has given up reaches the relay.
LatePost(n) ==
  /\ n \in late /\ late' = late \ {n}
  /\ AddToLog(n)
  /\ UNCHANGED <<client, linked, queue, tries, known, readings, receipt, overdue, unsent, faults>>

(***************************************************************************)
(* Posting.                                                                *)
(***************************************************************************)
\* sendData, enqueue: refused without a link or a peer, or with a full queue
Write(n) ==
  /\ n \in unsent /\ \A k \in unsent : From[k] = From[n] => n <= k
  /\ client[From[n]] = "on" /\ linked[From[n]]
  /\ IF To[n] = Everyone THEN known[From[n]] # {} ELSE To[n] \in known[From[n]]
  /\ Len(queue[From[n]]) < Capacity
  /\ queue' = [queue EXCEPT ![From[n]] = Append(@, n)]
  /\ unsent' = unsent \ {n}
  /\ UNCHANGED <<log, behind, client, linked, tries, known, readings, receipt, late, overdue, owed,
                 faults>>

\* The letter whose post is under way, if there is one.
AtHead(c) == IF queue[c] = <<>> THEN {} ELSE {Head(queue[c])}
Posting(c) == client[c] = "on" /\ queue[c] # <<>>

\* The head leaves the queue, with its receipt.
Shifted(c, stage) ==
  /\ queue' = [queue EXCEPT ![c] = Tail(@)]
  /\ tries' = [tries EXCEPT ![c] = 0]
  /\ receipt' = [receipt EXCEPT ![Head(queue[c])] = stage]

PostAccepted(c) ==
  /\ Posting(c)
  /\ AddToLog(Head(queue[c]))
  /\ Shifted(c, "relay_accepted")
  /\ UNCHANGED <<client, linked, known, readings, late, overdue, unsent, faults>>

\* Again under the same id, up to a limit.
Failed(c) ==
  IF tries[c] + 1 < Attempts
    THEN tries' = [tries EXCEPT ![c] = @ + 1] /\ UNCHANGED <<queue, receipt>>
    ELSE Shifted(c, "delivery_unknown")

\* The relay has handled the post, but its answer is lost.
AnswerLost(c) ==
  /\ Posting(c) /\ Fault
  /\ AddToLog(Head(queue[c]))
  /\ Failed(c)
  /\ UNCHANGED <<client, linked, known, readings, late, overdue, unsent>>

\* No answer, or one of the 500s; the post may still be under way.
PostFails(c) ==
  /\ Posting(c) /\ Fault
  /\ Failed(c)
  /\ late' = late \cup {Head(queue[c])} /\ overdue' = overdue \cup {Head(queue[c])}
  /\ UNCHANGED <<log, behind, client, linked, known, readings, owed, unsent>>

\* A status below 500: no other attempt.
PostRefused(c) ==
  /\ Posting(c) /\ Fault
  /\ Shifted(c, "delivery_unknown")
  /\ UNCHANGED <<log, behind, client, linked, known, readings, late, overdue, owed, unsent>>

(***************************************************************************)
(* Reading.                                                                *)
(***************************************************************************)
Unread(c) == SubSeq(log, Len(log) - behind[c] + 1, Len(log))

\* receive, for one letter after the other: one that open() refuses is only
\* reported; any other is noted before it is looked at, and passed on if it comes
\* from a peer and is for this client.
OpenedOrNot(c) == Letters \ outside[c]  \* a variant
Opened(c) == Letters \ (seen[c] \cup outside[c])
New(c) == Only(Unread(c), Opened(c))
Refused(c) == {n \in Letters \ seen[c] : n \in outside[c] /\ n \in ToSet(Unread(c))}

FromPeers(c) == {n \in Letters : From[n] \in known[c] /\ To[n] \in {c, Everyone}}
PassedOn(c) == Only(New(c), FromPeers(c))

\* The response to a GET: what follows the cursor.
ReadSucceeds(c) ==
  /\ client[c] = "on" /\ behind[c] # Lost /\ (behind[c] > 0 \/ ~linked[c])
  /\ seen' = [seen EXCEPT ![c] = @ \cup ToSet(New(c))]
  /\ got' = [got EXCEPT ![c] = @ \o PassedOn(c)]
  /\ rejected' = [rejected EXCEPT ![c] = @ \cup Refused(c)]
  /\ linked' = [linked EXCEPT ![c] = TRUE]
  /\ behind' = [behind EXCEPT ![c] = 0]
  /\ UNCHANGED <<log, client, queue, tries, known, outside, receipt, late, overdue, owed, unsent, faults>>

ReadFails(c) ==
  /\ client[c] = "on" /\ Fault
  /\ linked' = [linked EXCEPT ![c] = FALSE]
  /\ UNCHANGED <<log, behind, client, queue, tries, known, readings, receipt, late, overdue, owed,
                 unsent>>

\* 409 relay_history_lost: start from the latest event, and discover again.
ReadGap(c) ==
  /\ client[c] = "on" /\ behind[c] = Lost
  /\ linked' = [linked EXCEPT ![c] = FALSE]
  /\ behind' = [behind EXCEPT ![c] = 0]
  /\ known' = [known EXCEPT ![c] = {}] /\ owed' = [owed EXCEPT ![c] = {}]
  /\ UNCHANGED <<log, client, queue, tries, readings, receipt, late, overdue, unsent, faults>>

\* A letter grows older than the window of c, or c's clock comes up to it; before
\* the letter is written, the clocks of its writer and of c part or meet.
WindowMoves(c, n) ==
  /\ client[c] = "on" /\ c # From[n] /\ n \notin seen[c] /\ Fault
  /\ outside' = [outside EXCEPT ![c] = IF n \in @ THEN @ \ {n} ELSE @ \cup {n}]
  /\ UNCHANGED <<log, behind, client, linked, queue, tries, known, seen, got, rejected, receipt, late,
                 overdue, owed, unsent>>

(***************************************************************************)
(* Clients and their peers.                                                *)
(***************************************************************************)
\* connect: the cursor
Join(c) ==
  /\ client[c] = "new"
  /\ client' = [client EXCEPT ![c] = "on"] /\ linked' = [linked EXCEPT ![c] = TRUE]
  /\ behind' = [behind EXCEPT ![c] = 0]
  /\ UNCHANGED <<log, queue, tries, known, readings, receipt, late, overdue, owed, unsent, faults>>

\* A hello of d: peerConnected, dataChannelOpen
Meet(c, d) ==
  /\ client[c] = "on" /\ c # d /\ client[d] # "new" /\ d \notin known[c]
  /\ known' = [known EXCEPT ![c] = @ \cup {d}]
  /\ UNCHANGED <<log, behind, client, linked, queue, tries, readings, receipt, late, overdue, owed,
                 unsent, faults>>

\* The heartbeat drops a peer it has not heard of for 45 s.
Drop(c, d) ==
  /\ client[c] = "on" /\ d \in known[c] /\ Fault
  /\ known' = [known EXCEPT ![c] = @ \ {d}]
  /\ owed' = [owed EXCEPT ![c] = {n \in @ : From[n] # d}]
  /\ UNCHANGED <<log, behind, client, linked, queue, tries, readings, receipt, late, overdue, unsent>>

\* disconnect: requests are destroyed, what was not posted is gone
Leave(c) ==
  /\ client[c] = "on" /\ Fault
  /\ client' = [client EXCEPT ![c] = "closed"] /\ linked' = [linked EXCEPT ![c] = FALSE]
  /\ queue' = [queue EXCEPT ![c] = <<>>] /\ known' = [known EXCEPT ![c] = {}]
  /\ owed' = [owed EXCEPT ![c] = {}]
  /\ late' = late \cup AtHead(c)
  /\ overdue' = overdue \cup AtHead(c)
  /\ UNCHANGED <<log, behind, tries, readings, receipt, unsent>>

RelayNext ==
  \/ RelayRestarts \/ Prune
  \/ \E n \in Letters : LatePost(n) \/ Write(n)
  \/ \E c \in Clients :
       \/ PostAccepted(c) \/ AnswerLost(c) \/ PostFails(c) \/ PostRefused(c)
       \/ ReadSucceeds(c) \/ ReadFails(c) \/ ReadGap(c)
       \/ Join(c) \/ Leave(c)
       \/ \E d \in Clients : Meet(c, d) \/ Drop(c, d)
       \/ \E n \in Letters : WindowMoves(c, n)

(***************************************************************************)
(* Properties                                                              *)
(***************************************************************************)
\* A letter is passed on once, whatever was posted again, read again or
\* forgotten by the relay; and letters of one sender in the order in which it
\* wrote them, save one whose post was given up while it was under way.
RelayDelivery ==
  \A c \in Clients : \A j \in DOMAIN got[c] : \A i \in 1 .. j - 1 :
    /\ got[c][i] # got[c][j]
    /\ From[got[c][i]] = From[got[c][j]] /\ got[c][j] \notin overdue => got[c][i] < got[c][j]

\* A client that keeps its place in the log and its peers misses no letter
\* untold: what reached the log for it is passed on, or still to be read, or was
\* refused and reported, as it was too old or too far ahead when it was read.
NothingSkipped ==
  \A c \in Clients : \A n \in owed[c] :
    \/ n \in ToSet(got[c]) \cup rejected[c]
    \/ behind[c] = Lost \/ n \in ToSet(Unread(c))

\* Neither more nor less than what was written.
RelaySound == RelayDelivery /\ NothingSkipped
=============================================================================
