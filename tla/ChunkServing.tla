---------------------------- MODULE ChunkServing ----------------------------
(***************************************************************************)
(* How a swarm manager answers a request for a chunk: SwarmSession's       *)
(* onChunkRequest, and the send of sendFor in src/src/swarm-manager.ts,    *)
(* which tries the binary lane of the transport and goes back to base64    *)
(* when the lane refuses the bytes, unless the manager was stopped since.  *)
(* The answer of the lane comes later; the manager may stop and start, the *)
(* peer come and go, and the file be edited in between.  One peer asks.    *)
(*                                                                         *)
(* Bounds: MaxSends requests, MaxCycles starts of the manager.             *)
(***************************************************************************)
EXTENDS Naturals, Sequences, FiniteSets

CONSTANTS Indexes, MaxSends, MaxCycles

ASSUME ServingAssumption == MaxSends \in Nat /\ MaxCycles \in Nat

VARIABLES
  binaryLane,  \* supportsBinary: the SDK has sendBinary
  held,        \* chunks verified so far
  edited,      \* chunks of the file that were changed on disk since
  reachable,   \* the peer has a connection
  started,
  generation,  \* lifecycleGeneration
  pending,     \* sends the lane has not answered: [number, index, askedIn, good]
  sends,       \* requests handled so far
  cycles,
  delivered    \* ghost: the chunks sent: [request, lane, sentIn], with the generation in
               \* which they were sent as base64, or the lane reported them taken

servingVars == <<binaryLane, held, edited, reachable, started, generation, pending, sends, cycles,
                 delivered>>

ServingInit ==
  /\ binaryLane \in BOOLEAN /\ held = {} /\ edited = {} /\ reachable = TRUE
  /\ started = FALSE /\ generation = 0 /\ pending = {} /\ sends = 0 /\ cycles = 0
  /\ delivered = {}

\* start and stop: either begins another generation.  What stop does to the
\* requests of its own sessions is in Swarm.
StartManager ==
  /\ ~started /\ cycles < MaxCycles
  /\ started' = TRUE /\ generation' = generation + 1 /\ cycles' = cycles + 1
  /\ UNCHANGED <<binaryLane, held, edited, reachable, pending, sends, delivered>>

StopManager ==
  /\ started
  /\ started' = FALSE /\ generation' = generation + 1
  /\ UNCHANGED <<binaryLane, held, edited, reachable, pending, sends, cycles, delivered>>

\* A chunk of the download, or a seed's, has been verified.
ChunkHeld(index) ==
  /\ index \notin held /\ held' = held \cup {index}
  /\ UNCHANGED <<binaryLane, edited, reachable, started, generation, pending, sends, cycles,
                 delivered>>

FileEdited(index) ==
  /\ index \in held \ edited /\ edited' = edited \cup {index}
  /\ UNCHANGED <<binaryLane, held, reachable, started, generation, pending, sends, cycles,
                 delivered>>

ConnectionChanges ==
  /\ reachable' = ~reachable
  /\ UNCHANGED <<binaryLane, held, edited, started, generation, pending, sends, cycles, delivered>>

\* trySend: a peer without a connection gets nothing, and nothing is queued for it.
TrySend(chunk) == IF reachable THEN delivered \cup {chunk} ELSE delivered

SendChunkAsBase64(request) ==
  delivered' = TrySend([request |-> request, lane |-> "base64", sentIn |-> generation])

\* onChunkRequest: a chunk that is held and that reads back as what was verified
CanServe(index) == index \in held \ edited

\* handleRequest, while the manager listens.  The bytes are read now.
HandleRequest(index, binary) ==
  /\ started /\ sends < MaxSends /\ reachable
  /\ sends' = sends + 1
  /\ LET request == [number |-> sends + 1, index |-> index, askedIn |-> generation,
                     good |-> index \notin edited] IN
       IF ~CanServe(index) THEN UNCHANGED <<pending, delivered>>
       ELSE IF binary /\ binaryLane
            THEN pending' = pending \cup {request} /\ UNCHANGED delivered
            ELSE SendChunkAsBase64(request) /\ UNCHANGED pending
  /\ UNCHANGED <<binaryLane, held, edited, reachable, started, generation, cycles>>

\* sendBinaryTo resolves: the lane has taken the bytes.
LaneTakes(request) ==
  /\ request \in pending /\ pending' = pending \ {request}
  /\ delivered' = delivered \cup {[request |-> request, lane |-> "binary",
                                   sentIn |-> generation]}
  /\ UNCHANGED <<binaryLane, held, edited, reachable, started, generation, sends, cycles>>

\* A variant: a manager that runs again falls back for what was asked before.
StillAsked(request) == started

\* Whether a refusal is made good.
MayFallBack(request) == started /\ request.askedIn = generation

\* It resolves to false, or is rejected.
LaneRefuses(request) ==
  /\ request \in pending /\ pending' = pending \ {request}
  /\ IF MayFallBack(request) THEN SendChunkAsBase64(request) ELSE UNCHANGED delivered
  /\ UNCHANGED <<binaryLane, held, edited, reachable, started, generation, sends, cycles>>

ServingNext ==
  \/ StartManager \/ StopManager \/ ConnectionChanges
  \/ \E index \in Indexes :
       \/ ChunkHeld(index) \/ FileEdited(index)
       \/ \E binary \in BOOLEAN : HandleRequest(index, binary)
  \/ \E request \in pending : LaneTakes(request) \/ LaneRefuses(request)

-----------------------------------------------------------------------------
(* Correctness.                                                            *)

\* "Invalidate pending sends first so that fallback never starts on a channel
\* being torn down" (SwarmManager.stop): whatever the lane answers and however
\* often the manager is stopped and started meanwhile, no chunk is sent as
\* base64 in another generation than the one it was asked in; no request is
\* answered twice; and no chunk that was edited on disk is served.
ChunksServedSound ==
  /\ \A d \in delivered : d.lane = "base64" => d.sentIn = d.request.askedIn
  /\ \A d \in delivered : d.request.good
  /\ \A d, e \in delivered : d.request.number = e.request.number => d = e
  /\ \A d \in delivered : d.request \notin pending
=============================================================================
