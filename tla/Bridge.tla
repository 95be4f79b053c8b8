------------------------------- MODULE Bridge -------------------------------
(***************************************************************************)
(* One VDOBridge (src/vdo-bridge.ts) with its peer registry and the        *)
(* offline queues of its message bus, against the WebRTC SDK.              *)
(*                                                                         *)
(* The SDK is external.  It gives every transport connection a UUID and    *)
(* reports, for each one: peerConnected (perhaps more than once, the       *)
(* stream id perhaps only later), dataChannelOpen, the data received, and  *)
(* peerDisconnected (perhaps more than once).  Events of one UUID arrive   *)
(* in that order; events of different UUIDs interleave freely, so a        *)
(* replacement connection of a peer may be up before the close of the old  *)
(* one is reported.  sendData on an open channel may be refused.           *)
(***************************************************************************)
EXTENDS PeerRegistry, MessageBus

CONSTANTS Labels,       \* Labels[u]: stream ids the SDK may report for connection u
          Claims,       \* Claims[u]: stream ids the endpoint of u may sign with
          Targets,      \* ids the application sends to
          Refusals,     \* values of flaky to consider
          Listed,       \* streams the room lists
          Revived,      \* streams the application calls revivePeer for
          MaxMsgs,      \* bound: send() calls
          MaxViews      \* bound: view() calls for one stream

ASSUME BridgeAssumption ==
  /\ Labels \in [Uuids -> SUBSET Streams] /\ Claims \in [Uuids -> SUBSET Streams]
  /\ Targets \subseteq Ids
  /\ Refusals \subseteq BOOLEAN
  /\ Listed \subseteq Streams /\ Revived \subseteq Streams
  /\ MaxMsgs \in Nat /\ MaxViews \in Nat

VARIABLES
  reg,        \* peers: the registry
  queue,      \* bus.offlineQueues, a sequence for every id
  ready,      \* dataChannelReadyUuids
  viewed,     \* viewedStreamIds: the number of the attempt kept, 0 for none
  restoring,  \* "no", "down" (restoring) or "grace" (until restoringUntil)
  sdk,        \* "up", "closing" (disconnectSDK is waiting) or "none" (null)
  attempts,   \* view() calls made for a stream, what makes their Symbols differ
  unsettled,  \* view() promises not settled yet, as <<stream, attempt>>
  chan,       \* SDK: "idle", "connected", "open" or "closing" for a UUID
  heard,      \* SDK: connections whose endpoint has announced itself
  flaky,      \* SDK: whether an open channel may refuse a message
  wire,       \* messages the SDK took for a target, in order
  sentTo      \* the target of every send() call so far

bridgeVars == <<reg, queue, ready, viewed, restoring, sdk, attempts>>
sdkVars    == <<unsettled, chan, heard, flaky>>
history    == <<wire, sentTo>>
vars       == <<bridgeVars, sdkVars, history>>

ChanStates == {"idle", "connected", "open", "closing"}

Init ==
  /\ reg = EmptyRegistry
  /\ queue = [id \in Ids |-> <<>>]
  /\ ready = {}
  /\ viewed = [s \in Streams |-> 0]
  /\ restoring = "no"
  /\ sdk = "up"
  /\ attempts = [s \in Streams |-> 0]
  /\ unsettled = {}
  /\ chan = [u \in Uuids |-> "idle"]
  /\ heard = {}
  /\ flaky \in Refusals
  /\ wire = [id \in Ids |-> <<>>]
  /\ sentTo = <<>>

-----------------------------------------------------------------------------
(* Sending. *)

\* rawSend to t: the record's UUID must be one canAttemptSDKSend lets through,
\* and the SDK takes the message only on an open channel.
CanReach(r, rdy, ch, t) ==
  LET p == Resolve(r, t)
  IN p # None /\ r.uuid[p] \in rdy /\ ch[r.uuid[p]] = "open"

\* How many messages of a queue a flush may get accepted before a refusal.
Accepted(r, rdy, ch, t) ==
  IF ~CanReach(r, rdy, ch, t) THEN {0}
  ELSE IF flaky THEN 0..Len(queue[t]) ELSE {Len(queue[t])}

Flush(r, rdy, ch, t) ==
  \E k \in Accepted(r, rdy, ch, t) :
    /\ queue' = [queue EXCEPT ![t] = Unsent(@, k)]
    /\ wire'  = [wire EXCEPT ![t] = @ \o SubSeq(queue[t], 1, k)]

\* A fault for the mutation tests: send() does not wait behind a backlog.
SendOvertaking(t) ==
  /\ Len(sentTo) < MaxMsgs
  /\ sentTo' = Append(sentTo, t)
  /\ \E direct \in IF IsConnected(reg, t) /\ CanReach(reg, ready, chan, t)
                   THEN BOOLEAN ELSE {FALSE} :
       /\ queue' = [queue EXCEPT ![t] = AfterSend(@, 0, Len(sentTo'), direct)]
       /\ wire'  = [wire EXCEPT ![t] = @ \o SentNow(queue[t], 0, Len(sentTo'), direct)]
  /\ UNCHANGED <<reg, ready, viewed, restoring, sdk, attempts, sdkVars>>

\* send() of a message that is not transient.
Send(t) ==
  /\ Len(sentTo) < MaxMsgs
  /\ sentTo' = Append(sentTo, t)
  /\ \E k \in IF IsConnected(reg, t) THEN Accepted(reg, ready, chan, t) ELSE {0} :
       LET open == /\ IsConnected(reg, t)
                   /\ CanReach(reg, ready, chan, t)
                   /\ Len(queue[t]) = k
       IN \E direct \in IF ~open THEN {FALSE} ELSE IF flaky THEN BOOLEAN ELSE {TRUE} :
            /\ queue' = [queue EXCEPT ![t] = AfterSend(@, k, Len(sentTo'), direct)]
            /\ wire'  = [wire EXCEPT ![t] = @ \o SentNow(queue[t], k, Len(sentTo'), direct)]
  /\ UNCHANGED <<reg, ready, viewed, restoring, sdk, attempts, sdkVars>>

-----------------------------------------------------------------------------
(* Viewing: asking the SDK for a connection to a stream. *)

\* maybeViewPeer, as the new values of viewed[s], attempts[s] and unsettled.
ViewPeer(s, kept) ==
  IF kept = 0
  THEN /\ attempts[s] < MaxViews
       /\ attempts'  = [attempts EXCEPT ![s] = @ + 1]
       /\ viewed'    = [viewed EXCEPT ![s] = attempts[s] + 1]
       /\ unsettled' = unsettled \cup {<<s, attempts[s] + 1>>}
  ELSE UNCHANGED <<attempts, viewed, unsettled>>

\* listing, videoaddedtoroom and streamAdded: a stream is in the room.
StreamListed(s) ==
  /\ sdk # "none"
  /\ ViewPeer(s, viewed[s])
  /\ UNCHANGED <<reg, queue, ready, restoring, sdk, chan, heard, flaky, history>>

ViewSucceeds(s, a) ==
  /\ <<s, a>> \in unsettled
  /\ unsettled' = unsettled \ {<<s, a>>}
  /\ UNCHANGED <<bridgeVars, chan, heard, flaky, history>>

\* onFailure: only the attempt still kept for the stream is retired.
ViewFails(s, a) ==
  /\ <<s, a>> \in unsettled
  /\ unsettled' = unsettled \ {<<s, a>>}
  /\ viewed' = IF viewed[s] = a THEN [viewed EXCEPT ![s] = 0] ELSE viewed
  /\ UNCHANGED <<reg, queue, ready, restoring, sdk, attempts, chan, heard, flaky, history>>

\* revivePeer: stop viewing, forget, mark disconnected, view again.  The SDK
\* closes the connection and reports that at once or later.
Revive(s) ==
  LET u    == reg.uuid[s]
      live == u # None /\ chan[u] \in {"connected", "open"}
  IN /\ sdk # "none" /\ restoring = "no"
     /\ \E atOnce \in IF live THEN BOOLEAN ELSE {FALSE} :
          /\ chan' = IF live THEN [chan EXCEPT ![u] = IF atOnce THEN "idle" ELSE "closing"]
                     ELSE chan
          /\ heard' = heard \ {u}
          /\ ready' = IF atOnce /\ s \in reg.connected THEN ready \ {u} ELSE ready
     /\ reg' = MarkDisconnected(reg, s)
     /\ ViewPeer(s, 0)
     /\ UNCHANGED <<queue, restoring, sdk, flaky, history>>
-----------------------------------------------------------------------------
(* The SDK's connection events. *)

\* peerConnected: the id is the UUID itself while the SDK knows no stream id.
PeerConnected(u, label) ==
  /\ sdk # "none"
  /\ chan[u] \in {"idle", "connected", "open"}
  /\ chan' = IF chan[u] = "idle" THEN [chan EXCEPT ![u] = "connected"] ELSE chan
  /\ reg'  = AddPeer(reg, IF label = None THEN u ELSE label, u)
  /\ UNCHANGED <<queue, ready, viewed, restoring, sdk, attempts, unsettled, heard, flaky, history>>

\* dataChannelOpen: our announce goes out, then the backlog of the peer.
DataChannelOpen(u, label) ==
  /\ sdk # "none"
  /\ chan[u] = "connected"
  /\ chan'  = [chan EXCEPT ![u] = "open"]
  /\ ready' = ready \cup {u}
  /\ Flush(reg, ready', chan',
           IF reg.stream[u] # None THEN reg.stream[u] ELSE IF label # None THEN label ELSE u)
  /\ UNCHANGED <<reg, viewed, restoring, sdk, attempts, unsettled, heard, flaky, sentTo>>

\* A fault for the mutation tests: only one of the two checks is made.
RejectedIfTaken(r, u, from) ==
  HasRecord(r, from) /\ r.uuid[from] # u /\ from \in r.connected

\* An envelope is rejected when its connection already speaks for another
\* stream, or its stream has another connection that is up.
Rejected(r, u, from) ==
  \/ r.stream[u] \notin {None, u, from}
  \/ HasRecord(r, from) /\ r.uuid[from] # u /\ from \in r.connected

\* What an accepted envelope does to the registry before it is handled.
Adopt(r, u, from) ==
  IF HasRecord(r, from)
  THEN IF r.uuid[from] # u /\ from \notin r.connected THEN AddPeer(r, from, u) ELSE r
  ELSE IF Resolve(r, u) = u THEN RekeyPeer(r, u, from) ELSE AddPeer(r, from, u)

\* A fault for the mutation tests: an announce does not flush the backlog.
AnnounceWithoutFlush(u, from) ==
  /\ sdk # "none"
  /\ chan[u] = "open"
  /\ heard' = heard \cup {u}
  /\ reg' = IF Rejected(reg, u, from) THEN reg
            ELSE UpdateFromAnnounce(Adopt(reg, u, from), from)
  /\ UNCHANGED <<queue, wire, ready, viewed, restoring, sdk, attempts, unsettled, chan, flaky, sentTo>>

\* dataReceived, an announce.
AnnounceReceived(u, from) ==
  /\ sdk # "none"
  /\ chan[u] = "open"
  /\ heard' = heard \cup {u}
  /\ IF Rejected(reg, u, from)
     THEN UNCHANGED <<reg, queue, wire>>
     ELSE /\ reg' = UpdateFromAnnounce(Adopt(reg, u, from), from)
          /\ Flush(reg', ready, chan, from)
  /\ UNCHANGED <<ready, viewed, restoring, sdk, attempts, unsettled, chan, flaky, sentTo>>

\* dataReceived, any other envelope of the protocol.
EnvelopeReceived(u, from) ==
  /\ sdk # "none"
  /\ chan[u] = "open"
  /\ ~Rejected(reg, u, from)
  /\ reg' = Adopt(reg, u, from)
  /\ UNCHANGED <<queue, ready, viewed, restoring, sdk, attempts, sdkVars, history>>

\* The connection of u is gone; the SDK has not reported it yet.
ConnectionLost(u) ==
  /\ chan[u] \in {"connected", "open"}
  /\ chan'  = [chan EXCEPT ![u] = "closing"]
  /\ heard' = heard \ {u}
  /\ UNCHANGED <<bridgeVars, unsettled, flaky, history>>

\* A fault for the mutation tests: the late close of a replaced connection
\* retires the replacement.
PeerDisconnectedAnyway(u, label) ==
  LET known == IF Resolve(reg, u) # None THEN Resolve(reg, u)
               ELSE IF label # None THEN Resolve(reg, label) ELSE None
      id    == IF known # None THEN known ELSE IF label # None THEN label ELSE u
  IN /\ sdk # "none"
     /\ chan[u] \in {"closing", "idle"}
     /\ chan' = [chan EXCEPT ![u] = "idle"]
     /\ ready' = ready \ {u}
     /\ viewed' = [s \in Streams |-> IF s = id THEN 0 ELSE viewed[s]]
     /\ reg' = MarkDisconnected(reg, id)
     /\ UNCHANGED <<queue, restoring, sdk, attempts, unsettled, heard, flaky, history>>

\* peerDisconnected, the first report or a repeated one.
PeerDisconnected(u, label) ==
  LET known == IF Resolve(reg, u) # None THEN Resolve(reg, u)
               ELSE IF label # None THEN Resolve(reg, label) ELSE None
      id    == IF known # None THEN known ELSE IF label # None THEN label ELSE u
  IN /\ sdk # "none"
     /\ chan[u] \in {"closing", "idle"}
     /\ chan' = [chan EXCEPT ![u] = "idle"]
     /\ \/ \* a replacement connection is up: only the old channel is retired
           /\ known # None /\ reg.uuid[known] # u
           /\ ready' = ready \ {u}
           /\ UNCHANGED <<reg, viewed>>
        \/ \* already known to be disconnected
           /\ known # None /\ reg.uuid[known] = u /\ known \notin reg.connected
           /\ UNCHANGED <<reg, viewed, ready>>
        \/ /\ known # None => reg.uuid[known] = u /\ known \in reg.connected
           /\ ready'  = ready \ {u}
           /\ viewed' = [s \in Streams |-> IF s = id THEN 0 ELSE viewed[s]]
           /\ reg'    = MarkDisconnected(reg, id)
     /\ UNCHANGED <<queue, restoring, sdk, attempts, unsettled, heard, flaky, history>>

-----------------------------------------------------------------------------
(* Signalling and the life of the bridge. *)

Reconnecting ==
  /\ sdk # "none"
  /\ restoring' = "down"
  /\ UNCHANGED <<reg, queue, ready, viewed, sdk, attempts, sdkVars, history>>

\* reconnected: the bookkeeping of views made under the old socket is dropped.
Reconnected ==
  /\ sdk # "none"
  /\ restoring = "down"
  /\ restoring' = "grace"
  /\ viewed' = [s \in Streams |-> 0]
  /\ UNCHANGED <<reg, queue, ready, sdk, attempts, sdkVars, history>>

\* RESTORE_GRACE_MS have passed.
GraceEnds ==
  /\ restoring = "grace"
  /\ restoring' = "no"
  /\ UNCHANGED <<reg, queue, ready, viewed, sdk, attempts, sdkVars, history>>

\* disconnectSDK up to its wait for the SDK; events are still handled.
DisconnectBegins ==
  /\ sdk = "up"
  /\ sdk' = "closing"
  /\ UNCHANGED <<reg, queue, ready, viewed, restoring, attempts, sdkVars, history>>

\* disconnectSDK after it: late callbacks of this SDK no longer get through.
DisconnectEnds ==
  /\ sdk = "closing"
  /\ sdk' = "none"
  /\ restoring' = "no"
  /\ viewed' = [s \in Streams |-> 0]
  /\ ready' = {}
  /\ reg' = EmptyRegistry
  /\ chan' = [u \in Uuids |-> "idle"]
  /\ heard' = {}
  /\ unsettled' = {}
  /\ UNCHANGED <<queue, attempts, flaky, history>>

\* connectSDK: a new SDK instance, its events wired.
Connect ==
  /\ sdk = "none"
  /\ sdk' = "up"
  /\ UNCHANGED <<reg, queue, ready, viewed, restoring, attempts, sdkVars, history>>

\* What the SDK may report of one connection, in the order of its life.
ConnectionEvent(u) ==
  \/ \E label \in Labels[u] \cup {None} :
       PeerConnected(u, label) \/ DataChannelOpen(u, label) \/ PeerDisconnected(u, label)
  \/ \E from \in Claims[u] : AnnounceReceived(u, from) \/ EnvelopeReceived(u, from)
  \/ ConnectionLost(u)

\* Viewing and reviving one stream.
ViewEvent(s) ==
  \/ s \in Listed /\ StreamListed(s)
  \/ s \in Revived /\ Revive(s)
  \/ \E a \in 1..MaxViews : ViewSucceeds(s, a) \/ ViewFails(s, a)

Lifecycle ==
  Reconnecting \/ Reconnected \/ GraceEnds \/ DisconnectBegins \/ DisconnectEnds \/ Connect

\* The application knows a stream by its name, and a placeholder only from the
\* registry (the id a peer:connected event or the peer list shows).
Next ==
  \/ \E t \in Targets : (t \in Streams \/ HasRecord(reg, t)) /\ Send(t)
  \/ \E u \in Uuids : ConnectionEvent(u)
  \/ \E s \in Streams : ViewEvent(s)
  \/ Lifecycle

Spec == Init /\ [][Next]_vars

(***************************************************************************)
(* Fairness, on the SDK alone: an established connection opens its channel *)
(* or is lost, a lost one is reported, and the other bridge announces      *)
(* itself as soon as the channel is open (line 597 of the same file, run   *)
(* by the peer).  The application owes nothing.                            *)
(***************************************************************************)
Opens(u)   == \E label \in Labels[u] \cup {None} : DataChannelOpen(u, label)
Reports(u) == chan[u] = "closing" /\ \E label \in Labels[u] \cup {None} : PeerDisconnected(u, label)
Greets(u)  == u \notin heard /\ \E from \in Claims[u] : AnnounceReceived(u, from)

FairSpec ==
  /\ Spec
  /\ \A u \in Uuids : WF_vars(Opens(u)) /\ WF_vars(Reports(u)) /\ WF_vars(Greets(u))

-----------------------------------------------------------------------------
(* Properties. *)

\* Types of the bridge's and the SDK's state; no queue exceeds its limit.
TypeOK ==
  /\ reg \in Registry
  /\ queue \in [Ids -> Seq(Nat)]
  /\ ready \subseteq Uuids
  /\ viewed \in [Streams -> Nat]
  /\ restoring \in {"no", "down", "grace"}
  /\ sdk \in {"up", "closing", "none"}
  /\ attempts \in [Streams -> Nat]
  /\ unsettled \subseteq Streams \X Nat
  /\ chan \in [Uuids -> ChanStates]
  /\ heard \subseteq Uuids
  /\ flaky \in BOOLEAN
  /\ wire \in [Ids -> Seq(Nat)]
  /\ sentTo \in Seq(Ids)
  /\ \A t \in Ids : Len(queue[t]) <= QueueSize

\* peers and uuidToStream stay inverse to each other through every order of
\* connection events, renames, replacements and teardowns: no record is
\* orphaned, no UUID is an alias that leads to somebody else's record.
RegistryConsistent == Consistent(reg)

\* connected follows the record's own connection: it is true while the channel
\* is open (the late close of a replaced connection does not retire the
\* replacement), and not after its close was reported.
ConnectedTracksChannel ==
  \A id \in Ids : HasRecord(reg, id) =>
    /\ chan[reg.uuid[id]] = "open" => id \in reg.connected
    /\ id \in reg.connected => chan[reg.uuid[id]] # "idle"

\* announced counts only an announce heard on the connection the record leads
\* to now, never one of an earlier session (handoffs rely on it).
AnnouncedOnThisConnection ==
  \A id \in reg.announced \cap reg.connected :
    reg.uuid[id] \in heard \/ chan[reg.uuid[id]] = "closing"

\* The set that gates sendData holds only connections whose channel has
\* opened: a send never reaches the SDK between peerConnected and
\* dataChannelOpen.  (Of connections that revivePeer never rebuilds: one that
\* it did stays in the set when its close is reported, line 728.)
ReadyChannelsOpened ==
  \A u \in ready : chan[u] \in {"open", "closing"} \/ (Labels[u] \cup Claims[u]) \cap Revived # {}

\* All three follow the connection the record leads to, through late closes,
\* replacements, renames and teardowns.
FlagsFollowConnection ==
  ConnectedTracksChannel /\ AnnouncedOnThisConnection /\ ReadyChannelsOpened

\* What the transport took for a target, followed by what still waits for it,
\* is in the order of the send() calls: nothing overtakes, nothing is sent twice.
PerTargetFifo ==
  \A t \in Ids : \A i, j \in 1..(Len(wire[t]) + Len(queue[t])) :
    i < j => (wire[t] \o queue[t])[i] < (wire[t] \o queue[t])[j]

\* A message neither sent nor waiting was pushed out by QueueSize later ones
\* for its target: reconnects, refusals and teardowns lose nothing.
LossOnlyByEviction ==
  \A m \in 1..Len(sentTo) :
    LET t == sentTo[m]
        Holds(q) == \E i \in 1..Len(q) : q[i] = m
    IN \/ Holds(wire[t]) \/ Holds(queue[t])
       \/ Cardinality({n \in (m + 1)..Len(sentTo) : sentTo[n] = t}) >= QueueSize

\* A connection that spoke for a stream keeps it while it is mapped: an envelope
\* signed with another name never switches it, and metadata that arrives late
\* (naming the stream its endpoint publishes) does not rename it.
IdentityPinned ==
  [][\A u \in Uuids : (reg.stream[u] \in Streams /\ reg'.stream[u] # None)
                         => reg'.stream[u] = reg.stream[u]]_vars

\* A backlog drains once a connection of its peer is established: it is empty
\* in the end, unless that connection is lost or another one speaks for the
\* peer.  (For connections whose endpoint signs with one name, no refusals.)
BacklogDrains ==
  \A u \in Uuids : \A s \in Streams :
    (~flaky /\ chan[u] = "connected" /\ Claims[u] = {s} /\ queue[s] # <<>>)
      ~> \/ queue[s] = <<>>
         \/ chan[u] \notin {"connected", "open"}
         \/ s \in reg.connected /\ reg.uuid[s] # u
=============================================================================
