---------------------------- MODULE PeerNotices ----------------------------
(***************************************************************************)
(* What the inbox of an agent is told of one peer: the listeners that      *)
(* runAgent (src/src/cli.ts) puts on its bridge once it has connected, and *)
(* the announces and skill updates of the peer's bridge                    *)
(* (src/src/vdo-bridge.ts) that they hear, or that their bridge rejects    *)
(* while it believes an older connection of the peer still open.           *)
(*                                                                         *)
(* The channel keeps order and takes all it is given while it is open.  A  *)
(* channel counts as the peer's from its opening on, unless an older one   *)
(* is held (olderHeld).  Bounds: MaxChanges changes of the profile,        *)
(* MaxBreaks lost connections and restarts of the agent.                   *)
(***************************************************************************)
EXTENDS Naturals, Sequences

CONSTANTS Profiles, MaxChanges, MaxBreaks

ASSUME NoticesAssumption == MaxChanges \in Nat /\ MaxBreaks \in Nat

VARIABLES
  profile,      \* the skills, status and agent profile of the peer
  joined,       \* connected of the peer's bridge: its connect() has ended
  unannounced,  \* ghost: the profile changed before joined, after the last announce
  channel,      \* whether the data channel of the two is open
  olderHeld,    \* the peer is registered as connected by an older channel
  onChannel,    \* what the peer sent on it and the agent has not received
  unheard,      \* ghost: the last thing received on the channel was rejected
  listening,    \* runAgent has put its listeners on the bridge
  fingerprint,  \* peerFingerprints of the peer: [shape, profile], or NoFingerprint
  notices,      \* the notices stored about the peer since the agent started
  notStored,    \* ghost: the last notice due could not be stored
  changes, breaks

noticesVars == <<profile, joined, unannounced, channel, olderHeld, onChannel, unheard,
                 listening, fingerprint, notices, notStored, changes, breaks>>

NoFingerprint == [shape |-> "none"]

NoticesInit ==
  /\ profile \in Profiles /\ joined = FALSE /\ unannounced = FALSE
  /\ channel = FALSE /\ olderHeld = FALSE /\ onChannel = <<>> /\ unheard = FALSE
  /\ listening = FALSE /\ fingerprint = NoFingerprint /\ notices = <<>> /\ notStored = FALSE
  /\ changes = 0 /\ breaks = 0

\* dataChannelOpen of the peer: it announces itself, whether it has joined yet or not.
Announces ==
  /\ onChannel' = <<[shape |-> "announce", profile |-> profile]>>
  /\ unannounced' = FALSE

\* If the SDK names the stream of the new channel, an older one is held no more.
ChannelOpens ==
  /\ ~channel /\ channel' = TRUE
  /\ \E named \in BOOLEAN : olderHeld' = (olderHeld /\ ~named)
  /\ Announces
  /\ UNCHANGED <<profile, joined, unheard, listening, fingerprint, notices, notStored, changes,
                 breaks>>

ConnectEnds ==
  /\ ~joined /\ joined' = TRUE
  /\ UNCHANGED <<profile, unannounced, channel, olderHeld, onChannel, unheard, listening,
                 fingerprint, notices, notStored, changes, breaks>>

\* broadcastSkillUpdate, on the one channel considered here
BroadcastSkillUpdate(v) ==
  IF joined /\ channel THEN Append(onChannel, [shape |-> "skill_update", profile |-> v])
  ELSE onChannel

\* updateSkills, updateStatus and updateAgentProfile
UpdateProfile(v) ==
  /\ v # profile /\ changes < MaxChanges /\ changes' = changes + 1
  /\ profile' = v
  /\ onChannel' = BroadcastSkillUpdate(v)
  /\ unannounced' = (channel /\ ~joined)
  /\ UNCHANGED <<joined, channel, olderHeld, unheard, listening, fingerprint, notices,
                 notStored, breaks>>

\* runAgent after connect
Listens ==
  /\ ~listening /\ listening' = TRUE
  /\ UNCHANGED <<profile, joined, unannounced, channel, olderHeld, onChannel, unheard,
                 fingerprint, notices, notStored, changes, breaks>>

\* storeInboxMessage, which may throw: fingerprint has changed already.
StoreNotice(kind, about) ==
  \/ /\ notices' = Append(notices, [kind |-> kind, profile |-> about, gap |-> notStored])
     /\ notStored' = FALSE
  \/ UNCHANGED notices /\ notStored' = TRUE

\* recordPeerNotice: what says the same as before is not told again.
RecordPeerNotice(said) ==
  IF said = fingerprint THEN UNCHANGED <<fingerprint, notices, notStored>>
  ELSE /\ fingerprint' = said
       /\ StoreNotice(IF fingerprint = NoFingerprint /\ said.shape = "announce"
                THEN "peer_discovered" ELSE "peer_updated", said.profile)

\* What the peer sent is received in order, and told if runAgent listens.  While an
\* older channel of the peer is held, the bridge rejects what comes on another.
Heard(shape) ==
  /\ onChannel # <<>> /\ Head(onChannel).shape = shape /\ onChannel' = Tail(onChannel)
  /\ unheard' = olderHeld
  /\ IF listening /\ ~olderHeld THEN RecordPeerNotice(Head(onChannel))
     ELSE UNCHANGED <<fingerprint, notices, notStored>>
  /\ UNCHANGED <<profile, joined, unannounced, channel, olderHeld, listening, changes, breaks>>

AnnounceHeard == Heard("announce")
SkillUpdateHeard == Heard("skill_update")

\* A variant: what was known of a peer that left is kept for when it is back.
LeftButRemembered ==
  IF listening /\ fingerprint # NoFingerprint
  THEN StoreNotice("peer_left", fingerprint.profile) /\ UNCHANGED fingerprint
  ELSE UNCHANGED <<fingerprint, notices, notStored>>

\* peer:disconnected: only a peer that was told of is told to have left.
PeerLeft ==
  IF listening /\ fingerprint # NoFingerprint
  THEN StoreNotice("peer_left", fingerprint.profile) /\ fingerprint' = NoFingerprint
  ELSE UNCHANGED <<fingerprint, notices, notStored>>

\* The channel closes with what it carries, and the bridge reports it, unless the
\* peer is registered under an older one.
ConnectionEnds ==
  /\ channel /\ breaks < MaxBreaks /\ breaks' = breaks + 1
  /\ channel' = FALSE /\ onChannel' = <<>>
  /\ IF olderHeld THEN UNCHANGED <<fingerprint, notices, notStored>> ELSE PeerLeft
  /\ UNCHANGED <<profile, joined, unannounced, olderHeld, unheard, listening, changes>>

\* Another channel of the peer takes its place, its stream named by the SDK or not,
\* before the close of this one is reported.
ConnectionReplaced ==
  /\ channel /\ breaks < MaxBreaks /\ breaks' = breaks + 1
  /\ olderHeld' \in BOOLEAN
  /\ Announces
  /\ UNCHANGED <<profile, joined, channel, unheard, listening, fingerprint, notices, notStored,
                 changes>>

\* The close of the channel that was held is reported at last.
OldConnectionEnds ==
  /\ olderHeld /\ olderHeld' = FALSE /\ PeerLeft
  /\ UNCHANGED <<profile, joined, unannounced, channel, onChannel, unheard, listening, changes,
                 breaks>>

\* The SDK names the stream of the channel that took its place: peerConnected again.
StreamNamed ==
  /\ olderHeld /\ channel /\ olderHeld' = FALSE
  /\ UNCHANGED <<profile, joined, unannounced, channel, onChannel, unheard, listening,
                 fingerprint, notices, notStored, changes, breaks>>

\* The agent's process ends and is started again: runAgent begins anew.
AgentRestarts ==
  /\ breaks < MaxBreaks /\ breaks' = breaks + 1
  /\ listening' = FALSE /\ fingerprint' = NoFingerprint /\ notices' = <<>> /\ notStored' = FALSE
  /\ channel' = FALSE /\ olderHeld' = FALSE /\ onChannel' = <<>> /\ unheard' = FALSE
  /\ UNCHANGED <<profile, joined, unannounced, changes>>

NoticesNext ==
  \/ ChannelOpens \/ ConnectEnds \/ Listens \/ AnnounceHeard \/ SkillUpdateHeard
  \/ ConnectionEnds \/ ConnectionReplaced \/ OldConnectionEnds \/ StreamNamed \/ AgentRestarts
  \/ \E v \in Profiles : UpdateProfile(v)

-----------------------------------------------------------------------------
(* Correctness.                                                            *)

LastNotice == notices[Len(notices)]

\* The notices in the inbox tell who is here.  Once all that was sent has been
\* received, and unless the last notice due could not be stored (it is not tried
\* again), the last one about a peer shows it as it is, present and with its
\* profile of now, or, after its connection closed, as gone.  The peer may have
\* changed its profile while its own connect was still going on, which nothing
\* tells.  What it sent last on a new channel may have been rejected, an older one
\* being held: only then may a peer that is here be shown as gone, or with an
\* older profile.  A peer is told to have left only if it was told to be here
\* before, once, but for a notice between the two that could not be stored.
NoticesTellWhoIsHere ==
  /\ notices # <<>> /\ onChannel = <<>> /\ ~notStored =>
       IF channel THEN /\ LastNotice.kind = "peer_left" => unheard
                       /\ ~unannounced /\ ~unheard => LastNotice.profile = profile
       ELSE ~olderHeld => LastNotice.kind = "peer_left"
  /\ \A i \in DOMAIN notices : notices[i].kind = "peer_left" =>
       notices[i].gap \/ (i > 1 /\ notices[i - 1].kind # "peer_left")
=============================================================================
