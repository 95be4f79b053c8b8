# A TLA+ verification of ninja-p2p

ninja-p2p connects agents and people over WebRTC data channels.  This directory
holds TLA+ models of the parts whose correctness depends on order, failure and
timing, TLC configurations that check them on small instances, and theorems
about them that TLAPS proves for every value of the constants.  Paths below are
relative to the repository (`src/vdo-bridge.ts`, `mailbox-service/tasks.mjs`).

To check a configuration: `tlc -config HandoffRetry.cfg MCHandoff.tla`; to check
proofs: `tlapm HandoffProofs.tla`.

Contents: [1 The system](#1-the-system), [2 What is modelled](#2-what-is-modelled),
[3 Runs](#3-runs), [4 Fairness](#4-fairness), [5 Proofs](#5-proofs),
[6 Where the code and its documents disagree](#6-where-the-code-and-its-documents-disagree),
[7 What is not modelled](#7-what-is-not-modelled), [8 Plan](#8-plan).

## 1 The system

The program is one Node process per participant, most often the *sidecar*
started by `ninja-p2p agent`, with short-lived CLI processes beside it that talk
to the sidecar through files.  A second deployment replaces the data channels
by a durable mailbox service that workers poll.

| Component | State | Operations | Interacts with |
|---|---|---|---|
| Peer registry (`src/peer-registry.ts`) | records by stream id; an index from transport UUID to stream id; `connected` and announce time of a record | `addPeer`, `rekeyPeer`, `markDisconnected`, `updateFromAnnounce`, `resolve` | called by the bridge in every connection event, by the bus for every send |
| Message bus (`src/message-bus.ts`) | one offline queue per target (bounded), history | `send`, `trySend`, `enqueueOffline`, `flushOfflineQueue` | asks the registry, sends through the bridge |
| VDO.Ninja bridge (`src/vdo-bridge.ts`) | UUIDs whose channel has opened, view attempts per stream, restoring flag, the SDK object | listeners for the SDK's events, `maybeViewPeer`, `revivePeer`, `connect`, `disconnect` | the SDK's callbacks; emits `peer:*` and `ws:*` events |
| Agent state (`src/agent-state.ts`) | inbox, outbox, archive and snapshots as one file per item | queue, list, remove an action; take messages | written by CLI processes and the sidecar at once |
| Handoff (`src/handoff.ts`, `src/cli.ts`) | status record per request, inbox records, read markers | `flushAgentOutbox`, `flushHandoff`, `storeHandoff`, `acceptHandoffReceipt`, `claimHandoff` | sidecar timer, bridge messages, CLI readers |
| Wake runner (`src/wake.ts`) | pending batch, timer, running child, recent runs | `notify`, the timer, the child's exit | inbox writes of the sidecar |
| Swarm session and planner (`src/swarm-session.ts`, `src/swarm.ts`) | verified chunks, what peers hold, requests in flight, failures and timeouts per peer | `pump`, `onChunkData`, `onPeerHave`, `removePeer`, ... | driven by the manager |
| Swarm manager (`src/swarm-manager.ts`) | sessions, offers, wanted and seeded files, timers | bus and bridge listeners, `announceAll`, `pump`, `completeSession` | bus messages, binary frames, `revivePeer` |
| Part file and its lock (`src/swarm.ts`) | part file, lock file with owner token | `acquireLock`, `touchLock`, `writeChunk`, `scanVerified` | several processes on one directory |
| File transfer (`src/file-transfer.ts`) | temp file, manifest per transfer | accept, chunk, complete, resume | bus messages |
| HTTP relay (`runtime/http-relay.cjs`, `relay-server.cjs`) | bounded send queue, cursor, seen ids, peers by last hello | flush, read loop, hello | an alternative to the bridge's transport |
| Mailbox worker (`src/mailbox-worker.ts`) | one record per task with its stage and pending update | `tick`: flush, outcomes, dispatch | polls the mailbox service, starts agents |
| Worker lock (`src/worker-config.ts`) | lock file, recovery lock | `lockWorker` | several worker processes |
| Mailbox tasks (`mailbox-service/tasks.mjs`, `store.mjs`) | task rows with revision, status, request keys | create, update, cancel, decide, expire | requester, owner and worker at once |
| Social Stream bridge (`src/social-stream.ts`, `runSocialStreamBridge`) | web socket to a live chat, reconnection timer | socket events, `say`, publish | the bus of one participant |
| Commands (`src/cli.ts`) | session file; a fetch's timers and exit code; fingerprints of peers | `start`, `stop`, `run`, `fetch`, notices | processes of one machine, the bridge, the swarm manager |
| Mailbox reads and webhooks (`mailbox-service/mcp.mjs`, `store.mjs`, `webhook.mjs`) | messages by sequence number, subscriptions, deliveries | `read_messages`, subscribe, cleanup, the deliverer | readers with a cursor, callbacks of agents |

Everything else (protocol envelopes, option parsing, shared folders, pages,
installers) has no state of its own that outlives a call; `PROJECT.json` lists
it with the reason.

### What is hard, and what correct means

* **Registry and bridge.**  The SDK reports events of one UUID in order, but
  events of different UUIDs interleave: a replacement connection may be up
  before the close of the old one is reported, a stream id may be learned only
  from the first announce, a peer may sign with a name that is not its own.
  Correct: the two indexes stay inverse; a record is connected while its own
  connection is; a connection is never switched to another identity; nothing is
  sent before the channel has opened.
* **Offline queues.**  Sends, flushes and refusals in any order.  Correct: per
  target, the order of sending is the order on the wire, nothing twice, loss
  only when the queue is full; a backlog drains once a connection is there.
* **Outbox and handoff.**  A flush is cut at every file write and send by the
  death of its process; requests and receipts are lost, late or repeated; two
  readers race.  Correct: what is reported as stored is stored, once, and is
  read once; a confirmation is never taken back; everything is settled by its
  deadline.
* **Swarm.**  Answers race timeouts and disconnections; peers fail in ways that
  look like being slow; the only complete copy may leave.  Correct: request
  slots neither leak nor are spent twice; nobody is believed to hold what it
  cannot serve; downloads complete.
* **Files shared by processes.**  Inbox and archive, the session of a sidecar,
  incoming transfers, the part file and its lock, the worker's lock: each is
  changed by several processes without one lock over all, and any of them may
  be killed between two file operations.  Correct: mail is read once and not
  lost; a receipt is found while it is moved; one sidecar, one owner, one
  worker; what was reported saved is there; quotas count what crashes leave.
* **Wake.**  A message that arrives while a command runs, while the timer waits
  for the rate window or while the runner is disposed must lead to one later
  run, and no two runs overlap.
* **Mailbox.**  Cancellation, decision and report race on one revision; a worker
  dies between recording and starting; an answer is lost.  Correct: an agent is
  not started twice without approval; an update applies once; records of one
  task do not block those of others; a reader is told of what cleanup removed;
  a subscription checked over the network is still allowed when granted.
* **Networks that lose, repeat and delay.**  Letters over the HTTP relay, pages
  of hashes from peers that forge them, chunks served over a lane that fails
  late, a socket that ends while its events are queued.  Correct: once, in
  order, with no loss unnoticed, and nothing of an earlier life.
* **Bus.**  Filtering of direct messages and history; keyword handlers that edit
  the list they are called from.

The hazards, each at the line where it bites, are in `PROJECT.json`.

## 2 What is modelled

Each module names the source it follows in its head comment; `PROJECT.json`
maps every definition to the lines it stands for.  Operators introduced as "a
fault for the mutation tests" are deliberately wrong variants of the
definition they precede or follow: substituted for it, they make the property
named beside them in `PROJECT.json` fail, which shows that the property looks
at that code.  They are used nowhere else.

### `PeerRegistry`, `MessageBus`: pure operators

`PeerRegistry` is the class as operators on a registry value
`[uuid, stream, connected, announced]`: `uuid` maps a record to its UUID (or
`None` when there is no record), `stream` is `uuidToStream`.  `AddPeer` keeps the three cases of
`addPeer` (a record of that stream id, a record found by UUID, a new record) as
`Reattach`, `Reactivate`, `NewRecord`.  `MessageBus` has `enqueueOffline`, what
`flushOfflineQueue` leaves after `k` accepted messages, and what `send` does to
the queue and to the wire.  The ids a record can have are stream ids and UUIDs,
because a record without metadata is filed under its UUID.

### `Bridge`: the bridge against the SDK

One bridge.  Its variables are the fields of `VDOBridge` and of the registry
and bus it owns; those of the SDK (`chan`, `heard`, `unsettled`, `flaky`) are
external.  One action per listener: `PeerConnected`, `DataChannelOpen`,
`AnnounceReceived` and `EnvelopeReceived` (`dataReceived`), `PeerDisconnected`,
`Reconnecting`, `Reconnected`, `StreamListed`, plus `Revive`, `Connect`, the
two halves of `disconnect` around its `await`, view attempts that succeed or
fail later, and `Send`.  A handler's calls into the registry and the flush it
ends with are part of its action.

About the SDK it is assumed that the events of one UUID come in the order
connected (perhaps repeated), open, data, disconnected (perhaps repeated), and
that it takes a message only on an open channel.

`wire` and `sentTo` are history: what the transport took and what was sent.

### `Handoff`, `HandoffAbs`: the durable outbox and the confirmed handoff

`HandoffAbs` says what a handoff promises, in two variables and four actions.
`Handoff` is the sending sidecar with its disk, the receiving sidecars, the
readers of their inboxes and the network.  A flush (`flushAgentOutbox`) walks
over `pass`, a copy of the outbox; `step` says where it stands in the current
action, because the process may die (`SenderRestarts`) or a file operation may
throw (`ItemFails`) between any two writes.  A receipt can arrive inside the
send (`step = "transmitted"`).  `envelope[i]` is the instance that signed the
persisted envelope; it stands for the whole identity of the request, which is
what receivers deduplicate by.

Of the outbox's actions the direct ones are modelled: handoffs, and one kind
for dm, command and response, which have the same handling.  Chat, event,
status and file actions never block another action.

The mapping to `HandoffAbs`: `inbox[r]` is absent, unread or read by the
records and read markers at the peer; `reported[r]` is the status record, all
statuses but stored and expired being pending.

### `SwarmPlan`, `Swarm`: downloading a file from several peers

`SwarmPlan` is `planChunkRequests`: rarest chunk first, in any order among
equals (the code draws lots), each from the best peer with a free slot.  It is a
relation between the table of requests before and after.  A peer's score is
abstracted to its count of failures: a failure costs 2 s of score, and the rest
of the score (round trip time, queue, deliveries) may outweigh at most `Slack`
failures.

`Swarm` has the session and manager of every participant and the links between
them.  The manager's `pump` is one action with all it does: flushing news,
expiring requests, planning, requesting, reviving unresponsive peers and, through
`revivePeer`, closing their connections.  `onChunkData` is four actions by outcome
(ignored, rejected, not stored, stored) and a fifth for the last chunk with
`completeSession`.  Announcing (`announceAll` with the answers of `answerAnnounce`),
greeting, losing a peer, restarting on a part file and the reconnection of the
signalling socket are the other actions.

Control messages arrive at once or are lost with their connection; chunks take
time.  A *mishap* is anything that a healthy network and disk would not do: a
lost or late chunk, a connection that closes or goes silent, a signalling
reconnection, a failed write, a restart.  Their number is bounded
(`MaxMishaps`), without which nothing need ever complete.

### `MailboxTasks`, `MailboxWorker`, `MailboxAbs`: tasks of the mailbox service and their worker

`MailboxTasks` is the task table: `Verdict` and `Updated` are `update_task` (what
is answered, and the row afterwards), `Create`, `Cancel`, `Decide` and `Expire`
the requester, the owner and the clock.  A row keeps its status, its revision,
the current approval request, the keys of the worker's applied updates and, as
the number of an attempt, its result.  The requester and the owner read a row
and change it in one step: a stale or repeated call of theirs changes nothing.

`MailboxWorker` is the worker and its agents.  `record[t]` is the record file of a
task, with its stage and the update that is still to be sent; `turn[t]` stands
for the files and processes of its latest attempt (`running.json` and the
processes it names, `outcome.json`, `cancel.json`, and whether ten seconds have
passed since the dispatch); `tick` is what `MailboxWorker.tick` holds in its
variables, read at its beginning and used, however old, until its end.  The
first loop visits the records (`Flush`, `ReadOutcome` and then `StillRunning` or
`JudgeOver`), the second the tasks (`Claim`, `Withdraw`, `TakeDecision`, `Dispatch`,
`Spawn`).  `pc` says where the worker waits.  The three places where the code
reads or writes what another process may change in between are steps of their
own: a call of the service, the look at the outcome before the look at the
process, and the record saved before the agent starts.

A call may fail before its request arrives, after, or so that the request
arrives when the worker has long gone on (`late`).  The worker may be killed
anywhere (`Crash`), asked to stop anywhere, and started again; its agents
go on without it.  It is assumed that an agent's process writes `running.json`
within ten seconds of its dispatch, as the code assumes (line 133), that
process ids are not used again, and that the worker lock admits one worker.

`MailboxAbs` is what all of this promises (`docs/workers.md`), in six variables and
five actions: a task is attempted once and once more per approval, no attempt is
prepared while another is under way anywhere, an agent starts at most once per
attempt, and a task ends once, between two attempts, completed only with the
result of the last one.  The mapping: `status[t]` is the row's status once it is
final, and "open" before; `result[t]` the row's result; `attempts[t]` the
attempts counted in the record; `phase[t]` is "prepared" while the worker is
between the saved record and the start of the agent, "running" while the agent's process
is, "saved" when a completed outcome is on disk and "idle" otherwise; `granted`
and `launched` stand for themselves.  The promise lets a prepared attempt
replace a saved result: this is the loss that `SavedResultDelivered` shows.

### `Inbox`, `Wake`, `AgentMail`: how mail reaches an agent

`Inbox` is `agent-state.ts` for ordinary mail: files of the inbox and archive,
taken by readers one rename at a time (`Take`, or `Miss` when another was
faster), looked up by `getAgentReceipt` in both directories, and pruned by age.
A read holds the list it made at its beginning (`read[r].rest`) and what it took
(`got`).  `Wake` is `WakeRunner`: `Notify`, the timer (`FireInVain`,
`FireTooEarly`, `Run`, `RunFails`), the end of the command (`CommandEnds` with
`Settled`) and `Dispose`.  `recent` is the field of the code, from which it
prunes; `ran` is history, kept to state the limit independently of it.
`AgentMail` composes them: the sidecar stores a message and notifies the runner
in two steps, the command it starts reads and exits, users read at any time, and
the sidecar shuts down, dies and is started again while a command runs.  The
runner lives in the sidecar's memory: at a restart its window of runs is empty and
the command of the old runner is none of its own (`ProcessEnds`).  So the limit, and
one command at a time, are said of one runner; of the directory, that each sidecar
that ended left one command at most (`Orphans`).

### `Sidecar`, `Transfer`, `PartFile`, `WorkerLock`; `LocalFiles`

Four small systems of processes that meet in files, and `Inbox` as the fifth.
`Sidecar` has `start`, `stop` and `run` with the session file.  `Transfer` is the
receiver of `file-transfer.ts`: the plan of a handler is the sequence of its file
operations (`todo`), each of which may fail or be the last before a crash.  This
includes the removals: an offer discards expired transfers one file after the other,
counts those it could not discard as if they had not expired (`busy`), and a refused
or finished transfer loses its part before its manifest or the other way round, or
only one of them.
`PartFile` is `ChunkFile` with its lock, token and stale takeover, through the final
hash, the move and the deletion.  `WorkerLock` is `lockWorker`, with `worker.lock`
made in two steps (create, fill) and `recovery.lock`.  They share no state.  `LocalFiles` puts them
side by side, a behaviour being one of one scene, so that one configuration
checks all.

### `Lists`: what is kept of a list

`Only(s, keep)` is `Array.filter` for a set of elements.  `Wake` (the runs in the window),
`Handoff` (the outbox without an action) and `Relay` (the events that are new, and those
that are for this client) filter lists with it, as a recursive function and not with
`SelectSeq`, so that its lemmas can be proved (`ListFacts`).

### `Exchanges`: nine exchanges over networks that fail

The same composition for:

* `Relay`: client and relay server, letters under ids, cursors, gaps, rejoining;
  a post may fail before or after the relay took it, or arrive late.  A client opens a
  letter only if it was sealed at most five minutes ago and at most one minute ahead of
  its own clock; others it reports (`relayRejected`) and forgets.
* `SwarmOffers`: queries, offers, pages of the chunk hashes from several sources,
  start, stop, completion and failure of a download in the manager.
* `FetchCommand`: `runFetch` with its promise, stall timer, signals and exit code.
* `MailStore`: messages of one mailbox with cleanup and reading, subscriptions
  with the awaited callback check, deliveries.
* `Conversation`: broadcast, publish, direct messages, the filter on what comes
  in, the history ring and `history_request`.
* `SocialStream`: sockets, the reconnection timer and its backoff, `say`.
* `ChunkServing`: `onChunkRequest` and `sendFor`, with the generation that `stop`
  advances.
* `PeerNotices`: announces and skill updates of a peer and what the agent's inbox
  is told of them.  The announce of a replacing connection is rejected while the older one
  counts as connected, and a notice may fail to be stored after it was noted as told.
* `KeywordTriggers`: `checkTriggers` over handlers that edit the triggers, those not
  yet called included.

## 3 Runs

| Run (cfg) | Checks | Instance and bounds |
|---|---|---|
| `BridgeIdentity` | `RegistryConsistent`, `FlagsFollowConnection`, `IdentityPinned` | two streams, three UUIDs, one without metadata whose endpoint may sign as either; no messages; two view attempts |
| `BridgeQueue` | `PerTargetFifo`, `LossOnlyByEviction`, `BacklogDrains` | one stream with two connections, three messages, a queue of two, a transport that refuses or does not |
| `HandoffRetry` | `StoredIsStored`, `WorkTakenOnce`, `ImplementsPromise` | one handoff, two attempts, one restart, failures anywhere, two readers, receivers' clocks early, live or late |
| `HandoffOutbox` | `OutboxSound`, `HandoffSettles` | a handoff and two dms for one peer, one restart |
| `SwarmSources` | `SlotsSound`, `DownloadCompletes` | one downloader, an honest and a corrupt source, two chunks, one mishap of six kinds |
| `SwarmLeave` | `KnowledgeSound`, `SwarmOutlivesSeeder` | two downloaders, one seed that may leave, two chunks, one lost chunk or restart |
| `MailboxTurns` | `WorkerKeepsPromise`, `OneTurnAtATime`, `ReportsTruthful`, `StopsBetweenTurns`, `TaskSettles` | two tasks, the first of which may need approval; one failed call, lost agent or crash; one cancellation, expiry, stop or ended pairing; one approval per task; update limits 5 and 6 |
| `MailboxResult` | `SavedResultDelivered`, violated | one task |
| `AgentMail` | `MailConserved`, `RateLimited`, `OneCommand`, `MailIsRead` | two messages, each stored once, two readers that may be the wake command, a window of two ticks with one run, a debounce of one tick, one restart |
| `LocalFiles` | `ReceiptSeen`, `OneSidecar`, `QuotaKept`, `SavedIsThere`, `UsedByOwner`, `OneWorkerUnlessRobbed` | two messages stored twice at most, two readers, a lookup and a pruner; three starts and one stop of a sidecar; three transfers for the same name of no, one and two chunks, under a quota of two transfers and two chunks, two failed operations or crashes; three processes at one part file, each trying twice; three workers, one killed |
| `Exchanges` | `RelaySound`, `FetchSound`, `FetchTruthful`, `LossIsTold`, `SubscriptionsSound`, `DirectStaysPrivate`, `SocialSound`, `ChunksServedSound`, `NoticesTellWhoIsHere`, `TriggersRunOnce` | see below |
| `WorkerLock` | `OneWorker`, violated | the worker lock of `LocalFiles` alone |

Why the bounds are enough for what is asked:

* *Bridge.*  The registry's cases are decided by at most two records and one
  UUID at a time (a record found by stream id, one by UUID, an alias of
  either); three UUIDs over two streams reach all of them, a replaced
  connection whose close is late included.  A queue of two with three messages
  (`QueueSize`, `MaxMsgs`) overflows, and is flushed in part.
* *Handoff.*  Two attempts give a retry, one restart gives two instances, and a
  request that is stored, lost on its way back and repeated by another
  instance needs no more.  Two readers suffice for a race.  Two dms and a
  handoff for one target give every order of blocking (`MaxTaken` bounds what the
  transport takes).  Several peers only interact through `blocked`: that a flush which
  is blocked for one goes on with those of the others is modelled, but with one peer no run
  exercises it (an instance with two takes too long with its liveness).  The theorems
  below are for any number.
* *Swarm.*  Two chunks with one slot per peer make the limit bite, the rarest
  one differ and two requests be out at once.  `Threshold` is two where
  the code has three, so that the two outstanding requests can reach it.
  `MaxFailures` is large enough that an honest peer's count (its one mishap costs
  at most three) stays more than `Slack` below a corrupt peer's.  Pairs that cannot connect
  are left out of `SwarmSources` (its two sources have nothing to say to each
  other).
* *Mailbox.*  Two tasks make the worker choose, and give it a record to find
  again before it starts another agent.  One failure is a crash or a lost or
  late call at every step; a second approval request needs only one failure,
  since an agent may end with `needs_approval` as often as it is asked.  Limits
  of 5 and 6 in place of 60 and 64 let a task run through a claim, an approval
  and a second request, and then be refused (`UpdateRefused`).  A lost request
  arrives once at most; twice is what the repeated key is for, and the retry
  is the second copy.
* *Agent mail.*  Two messages with one run per window make the second wait for
  the window, and a message can arrive before, during and after the run.  Two
  readers race for a file; `MaxRestarts` of one lets a command outlive its
  sidecar beside the one of the next.
* *Local files.*  Three workers are what the robbery needs, and three processes
  at the part file what a takeover of a takeover needs (`MaxTries` opens per
  process).  `MaxStores` of two stores a message again after it was read;
  `MaxTrouble` of two is a crash and a failed operation in one transfer, or two
  crashes; `MaxPids` of three sidecars is one more than may be alive.  `MaxBytes` of two
  is exceeded by transfers of one and two chunks, or by one beside a part of unknown
  size, which counts as `MaxSize`.  `MaxIncomplete` of two is not reached while
  there is room for bytes, which would take a fourth transfer and too many states: that half of
  the quota rests on `QuotaHolds`, which is for any number.
* *Exchanges.*  `Relay`: two clients and three letters of one of them, the second to
  everyone and the others to the other client, a log of two events, so that a client
  falls behind it, a queue of three, two of the three attempts, and `MaxFaults` of two; a
  letter that leaves or enters the window of a client is one of the faults.  `SwarmOffers`: a sound peer and
  one that may be mistaken or damaged, two pages asked one at a time, one mishap.  `FetchCommand`:
  files whose names, ids and prefixes collide, three chunks, a timeout of three
  intervals within `MaxTime` of six, so that a gap, a chunk and a stall fit.
  `MailStore`: two rows of three keys, one message in a page, so that cleanup
  overtakes the reader; one place for two grants; `MaxPending` deliveries and
  `MaxPosts` posts of two.
  `Conversation`: three nodes, two messages, a ring of two, one request.  `SocialStream`:
  three sockets, so that two retries are seen, three chats, two says.  `ChunkServing`: two requests and
  two lives of the manager.  `PeerNotices`: two profiles, two changes, two breaks.
  `KeywordTriggers`: two words, two texts, four registrations, so that a handler
  registers another while it is called for each text.

`LocalFiles` and `Exchanges` do not check deadlock: their processes end, and their
bounds are used up.  In every other run deadlock is checked.

## 4 Fairness

Fairness is assumed only where the code or its surroundings provide it, and only
in the runs with liveness properties.

* `Bridge`: of the SDK alone.  A connection opens its channel or is lost, a lost
  one is reported, and the other bridge announces itself on an open channel
  (which is what this bridge does at `vdo-bridge.ts:597`).  The application
  owes nothing: no message and no `connect` is assumed.
* `Handoff`: the sidecar's 500 ms timer starts flushes, a handler that has begun
  continues unless killed, and the sender's clock moves.  The network, the
  peers, their clocks and the readers owe nothing, so `HandoffSettles` holds even
  for a peer that never appears.
* `Swarm`: the pump and announce timers of each manager, time (timeouts and the
  revival interval pass), delivery of chunks on each link, and connection of
  bridges that stay in the room.  No mishap is fair.
* `MailboxWorker`: a worker that is down is started again (a service manager,
  as `docs/workers.md` advises) and goes on with its tick; an agent ends, because
  `executeAgent` has a time limit; ten seconds pass.  The requester, the owner
  and the clock of the service owe nothing: `TaskSettles` holds for a task that
  waits for its owner for ever, and not for a task that has used up its updates
  or whose requester is no longer paired, which it says.
* `AgentMail`: time passes, a handler that has stored a message goes on to notify,
  a timer that is due again and again fires (strong fairness, since the handlers
  of messages come in between), and a command that was started reads and exits.
  That a command can be started, that a sidecar stays up or comes back, and that
  anybody else reads is not assumed: `MailIsRead` excepts messages whose run was
  lost in one of these ways (`forgotten`) and those that a read left (`left`).

## 5 Proofs

| Theorem | Module | States |
|---|---|---|
| `RegistryAlwaysConsistent` | `BridgeProofs` | `Spec => []RegistryConsistent` |
| `TypeCorrect` | `BridgeProofs` | `Spec => []TypeOK` |
| `FlagsFollow` | `BridgeProofs` | `Spec => []FlagsFollowConnection` |
| `NamesStay` | `BridgeProofs` | `OneName => (Spec => IdentityPinned)` |
| `DeliveryInOrder`, `NothingElseLoses` | `BridgeProofs` | `Spec => []PerTargetFifo`, `Spec => []LossOnlyByEviction` |
| `StoredAlwaysStored`, `NeverDuplicated` | `HandoffProofs` | `Spec => []StoredIsStored`, `Spec => []NoDuplicateWork` |
| `ReadersDisjoint`, `HandedOverOnce`, `ConfirmationFinal` | `HandoffProofs` | `Spec => []ReadOnce`, `Spec => []WorkTakenOnce`, `Spec => StoredIsFinal` |
| `PromiseKept` | `HandoffProofs` | `Spec => ImplementsPromise`, the refinement of `HandoffAbs` |
| `OutboxKeepsItsWord` | `HandoffProofs` | `Spec => []OutboxSound` |
| `TypeCorrect`, `OneTurn`, `StopsClean` | `MailboxProofs` | `Spec => []TypeOK`, `Spec => []OneTurnAtATime`, `Spec => []StopsBetweenTurns` |
| `NoUngrantedAttempt`, `TellsTheTruth` | `MailboxProofs` | `Spec => []` (`launched[t] <= 1 + granted[t]` for every task), `Spec => []ReportsTruthful` |
| `WorkerPromiseKept` | `MailboxProofs` | `Spec => WorkerKeepsPromise`, the refinement of `MailboxAbs` |
| `EveryCopyReadOnce`, `OneCommandAtATime`, `NoMoreThanTheLimit` | `AgentMailProofs` | `Spec => []MailConserved`, `Spec => []OneCommand`, `Spec => []RateLimited` |
| `ReceiptsFound`, `OneSidecarPerDirectory`, `SavedStaysThere`, `QuotaHolds`, `PartFileUsedByOwner`, `WorkersOneAtATime` | `LocalFilesProofs` | `Spec => []ReceiptSeen`, `[]OneSidecar`, `[]SavedIsThere`, `[]QuotaKept`, `[]UsedByOwner`, `[]OneWorkerUnlessRobbed` |
| `OnlyHeldIsKnown`, `SlotsHeldOnce` | `SwarmProofs` | `Spec => []KnowledgeSound`, `Spec => []SlotsSound` |
| `NoLossUntold`, `SubscriptionsKept`, `DirectMessagesPrivate`, `SocialBridgeSound`, `ChunksServedOnce`, `NoticesTrue`, `TriggersCalledOnce`, `FetchTellsTheTruth`, `AskedIsWaitedFor`, `RelayDelivers` | `ExchangeProofs` | `Spec => []LossIsTold`, `[]SubscriptionsSound`, `[]DirectStaysPrivate`, `[]SocialSound`, `[]ChunksServedSound`, `[]NoticesTellWhoIsHere`, `[]TriggersRunOnce`, `[]FetchTruthful`, `[]FetchSound`, `[]RelaySound` |

They hold for any sets of streams, UUIDs, targets, peers, actions, readers,
processes, nodes, chunks and tasks and any bounds, from the assumptions named in the modules that declare the
constants (`IdAssumption`: stream ids, UUIDs and `None` are distinct; the others
say no more than what the constants are, that model values such as `Nobody` and
`Nothing` are not members of the sets they stand outside of, that readers and chunks are
finitely many, and, for `FetchCommand`, that the files are finitely many and their ids differ).

* **Lists and sums.**  `ListFacts` has the lemmas about numbers, lists and sums that
  several components cite.  The library's induction theorems take an operator,
  which the installed provers cannot instantiate; here induction is about a set
  (`NatInduct`, `ListInduct`: a set that has the first and, with each, the next, has
  all), and rests on the well-foundedness of strict inclusion among finite sets
  (`SomeLast`).  With it follows what `Only` keeps (`OnlyKeeps`: all that is in the
  set, in the order of the list) and what `SumFunctionOnSet` adds up to (`SumAdd`,
  `SumRemove`, `SumLess`).
* **Registry.**  `RegistryConsistent` is not inductive without the type of the
  registry: `Good(r)` is both.  A lemma for each operation says that it takes a
  good registry to a good one, and the theorem has one step per handler that
  cites them.  `TypeCorrect` adds the other variables.
* **Connections.**  `FollowInv` relates each record to the SDK's state of the
  connection it leads to (`Flags`: a connection that is up has a connected record, a
  closed one has not; what counts as announced was heard on it; the record of a
  ready connection is connected, unless it is one that `revivePeer` rebuilds).  It
  needs `Named` (a placeholder is the record of its own UUID, and a connection
  leads to a stream that its metadata or its endpoint named) and the types.  `addPeer` and the
  adoption of an envelope have one thing in common, `Takes`: the connection has come to
  speak for one record, all others are as they were or gone.  A lemma for each of
  the registry's branches shows it; the handlers, and the names that stay, follow
  from it.  `NamesStay` assumes `OneName`: where the SDK has a stream id for a
  connection, it is the one its endpoint publishes.
* **Queues.**  `QueueInv` says, for each target, that what the wire took followed
  by what waits is increasing and bounded by the number of sends so far; the second part is needed so that
  the next message is larger than all.  The lemmas before it are about
  concatenations and parts of increasing sequences, and then about what a flush
  and a send do, for any point at which the transport refuses.  `LossInv` says of each
  target that what waits for it was sent to it, and that what was sent to it was
  taken, waits, or was followed by `QueueSize` others (`Kept`); the message that a
  full queue drops was followed by those behind it, which are that many
  (`FirstFollowed`, by an injection).
* **Handoffs.**  `StoredIsStored` looks at the status at the sender and the records at the
  receiver, with a request and a receipt in between.  `HInv` is `Honest`
  (every message, owed receipt and record carries the signature of the
  persisted envelope, which never changes; a receipt on its way or owed, and a
  status of stored, have their record) and `Signatures` (the types of what is
  signed, and that only a signed handoff is between its attempt and the saving
  of it).  Each action changes one place in that chain.  `NoDuplicateWork`
  follows from what `Honest` says of the records: all of one request have the
  same key.
* **Refinement.**  `PInv` adds `Reading` (readers hold disjoint sets of existing
  records) and `Expiry` (a status of expired is only reported past the deadline,
  and never while a send of that handoff is in progress).  Each action of
  the detailed system changes at most one of the two mapped variables for one
  request (`FlushReports`, `StoreMaps`, `ReadMaps`, `ReportMaps`), and then as
  an action of the promise; all others stutter.
* **Outbox.**  `OutInv` is three things.  `OrderInv`: the outbox and the pass of a flush
  have their actions in the order of `queued`.  `NoneOvertaken`: a dm that the pass
  has left behind blocks its target, and one that the transport took comes before
  those for its target that are still there.  `NoneLost`: what is queued is in the
  outbox or settled, and what a flush is about to remove is settled.
* **Mailbox worker.**  Nothing in one action keeps two agents from running: it is
  the shape of a tick, which looks at every record before it starts anything.
  `TurnInv` says so: `Known` (in the first loop, unless the tick is busy, every
  running agent belongs to a record still to be visited or to the one that is
  judged; in the second loop, and in a worker that has stopped, none runs),
  `Recorded` (an agent runs only for a record in stage running, and has saved
  no outcome), `Placed` (what the tick holds fits the stage of the record it
  is about) and `TypeOK`, whose last part ties a pending update to the stage.
  One lemma per action or group of like actions; the interesting ones are
  `JudgeOverKeeps` (a turn is over only when its agent is), `EndKeeps` (the
  second loop begins when all records were visited and none was busy) and
  `AbortLeavesNone` (a failing tick ends a stopping worker only if
  `hasLiveRun` finds nothing).
* **Mailbox tasks.**  What bounds the attempts and makes the reports true is the
  agreement of three things that are never read at once: the row at the service,
  the worker's record and the agent's outcome.  `LedgerInv` adds it to `TurnInv`:
  `Fits` (a ready record has an approval, or a first attempt, not yet used;
  the approval a record waits for is the latest of its row; a task that ended did so by the
  update the record still holds, or the record is done), `Told` (success is
  reported of the last attempt's outcome), `LateFits` (a request that is still on its way is the
  record's own update, was taken, or can have no effect any more: `Moot`), `SeenFits` (a
  summary is true or older) and `TickFits` (what is moot while the worker asks
  for the task).  All rows change in one direction (`Newer`), under which
  `LateFits` and `SeenFits` are stable; each action then changes one task
  (`OneTask`, `RecordChanges`), by one of a few lemmas about the operators
  (`UpdatedFits`, `AcceptedFits`, `WithUpdateFits`, `SettledFits`, `ServedFits`).
* **Refinement of `MailboxAbs`.**  `LedgerInv` is all it needs.  Most steps are not
  seen (`NothingSeen`: they keep the rows, the attempts, the agents and the place
  between record and agent).  `DispatchSeen` is `Prepare`, whose guards are `Fits`
  of a ready record and, for the others, `Known`: the second loop is entered only
  when no agent runs.  `SpawnSeen` is `Launch` or, like `CrashSeen` and `AgentSeen`,
  `End`.  `UpdateSeen` covers the request that arrives in time and the one that arrives
  late: an update that changes the row to a final status is `Finish`, since by
  `Told` and `EndedIdle`, of the state it leads to, the last attempt was over and,
  for success, its outcome saved.  `OthersSeen` is `Grant` or nothing.
* **Agent mail.**  `MailConserved` is an equation between counters.  `MailInv`
  adds what makes it inductive: a read's list names no file twice and none it has
  taken (`ReadSound`), so that a rename that succeeds is one more copy in its hands and
  one fewer in the inbox.  `CommandInv` ties the flag `running`, on which the code
  relies, to the set of commands that live; `OrphanInv` counts those of earlier sidecars,
  of which each left one at most.  `LimitInv` says, of one runner, that `recent`, which
  the code prunes only when it looks, has the same runs in the window as the
  history `ran` (`ran = InWindow(recent)`), since a run that has left it does not come back
  (`WindowLater`), and that those never exceed the limit.
* **Local files.**  One invariant for each scene, since `Next` gives each its own
  steps.  `LockInv`: unless a start has removed a lock it had not looked at, whoever
  fills or holds the lock is the process it names, and a lock that is about to be
  removed is a dead one's.  `PartInv`: a lock that is not signed yet names nobody.
  `LookInv`: what a lookup owes is in the archive once it has looked at the inbox
  in vain.  `SidecarInv`: a command that is not over has read the
  session there is.  `QuotaInv`: the transfers that have an unfinished part, with the one
  whose part is about to be made, and without those whose part a late chunk made anew
  (`Reserved`), are within the quota; all that `Fits` counts is at least that (`SumLess`),
  as what has expired is only left out once its part is gone.
  `SavedInv`: a handler that has moved its file and not yet recorded it has it among the
  downloads.
* **Swarm.**  `KnowInv`: only what is held is announced or told as news, and what
  is held only grows, so what is known of a peer stays true.  `RequestInv`: every
  request is at a known peer, for a missing chunk, within both limits.  Only a pump
  asks for more; `PlanBounded` shows that its plan keeps the limits: the last chunk
  given to a peer in the pass over the candidates found a free slot (`ChoiceHasRoom`),
  and every other one had been counted by then.
* **Exchanges.**  One invariant for each of the nine parts, and
  one lemma for each action or group of like actions.  `PagesInv`: a mailbox keeps
  an interval of numbers that ends with the last one given.  `RoomInv`: everything a
  node knows, keeps or is about to be replayed is what it may see.  `SocketInv` and
  `ChatsInv`: what is queued of a socket came after what has been handled, and
  `PassedInv`: what came on a socket has been published or is still queued.
  `TriggersInv`: what is still to be called was there when the message came and is
  registered, or was removed since (`spared`) and will not be found.
  `NoticesInv`: unless the last notice could not be stored, the fingerprint is that of it,
  and what is on the channel ends with the profile of now.  `FetchInv`: a saved file completes the
  promise unless it could not be opened, and the timer saw no count before the last chunk came.
  `RelayInv`: whatever of a sender has reached the log, a reader or the network for
  good was written before all that is in its queue (`Posts`), so the log has a
  sender's letters in order but for those that were given up, and so has what a
  client passed on followed by what it has not yet seen of the log (`PassedInOrder`);
  what is owed to a client was passed on, refused and reported, or stands behind its
  cursor (`OwedSound`).
  `RelayMoves` covers every way in which the log moves under the cursors.
  `OffersInv`: whichever way an attempt takes, the file stays wanted, in a session or
  reported, and only a list of hashes that was checked is kept.

Only model-checked: the liveness properties (`BacklogDrains`, `HandoffSettles`,
`DownloadCompletes`, `SwarmOutlivesSeeder`, `TaskSettles`, `MailIsRead`), since reasoning
about fairness needs `ENABLED`, which the provers do not support.  Every safety
property that a passing run checks is also proved.

## 6 Where the code and its documents disagree

Two runs have the violation of one property as their result.

* `SavedResultDelivered` (`MailboxResult`).  `docs/workers.md:148-151` says that a saved
  result is delivered without running the agent again.  `tick` reads `outcome.json`
  (line 128) before it looks for the agent's processes (lines 132-133).  An agent
  that saves its outcome and exits in between is judged interrupted, and the
  worker asks for a decision because no saved outcome was found.
* `OneWorker` (`WorkerLock`).  `src/worker-config.ts:41` says "Never steal a live
  lock".  A start that found `worker.lock` taken reads it (line 52) after its owner
  has released it, and removes by name (line 55) the lock that a third start has
  created since.  `OneWorkerUnlessRobbed` is what does hold, and is proved.

Others met while modelling, which the models show as behaviours that their
properties except, each for the reason given there:

* `vdo-bridge.ts:123` documents `dataChannelReadyUuids` as the UUIDs whose control
  channel has opened.  After `revivePeer` has marked a peer disconnected, the
  handler of its close returns at line 728, before line 730 takes the UUID out
  of the set: if the SDK connects the same UUID again, it counts as ready between
  `peerConnected` and `dataChannelOpen` (`ReadyChannelsOpened` excepts `Revived`).
* `docs/protocol-and-reliability.md:25` says that a failed flush leaves the rest
  for the next channel-open or announce event.  Both flush the queue of the
  stream id; a message sent to the UUID under which the peer was first shown
  stays in the queue of the UUID (`BacklogDrains` is about stream ids).
* `docs/operations.md:125` says the sender of a handoff stops after 24 hours.
  `flushAgentOutbox` skips a handoff behind a blocked dm before it looks at the
  deadline (`cli.ts:1076`), so that it stays queued for as long as its peer is
  away (`BehindDm` in `HandoffSettles`).
* `docs/tasks.md:103` tells the requester of a cancelled task to wait for the
  worker's confirmation or actual result.  A task that is cancelled before the
  worker has claimed it has no record, and `mailbox-worker.ts:150` passes over
  every task without a record that is not submitted: nothing is confirmed until
  the task expires (`TaskSettles` is about claimed tasks).
* `cli.ts:2016` ("Report the truth") looks whether the socket is believed open.
  One that has ended, and whose end is not handled yet, takes the text and drops it:
  the peer is answered `sent` (`Truthful` promises the converse only).
* A download whose file was saved but could not be reopened as a seed
  (`swarm-manager.ts`, `completeSession`) does not reach `onComplete`: `fetch` exits with
  1 or waits on, although the file is there (`unseeded` in `ExitTellsTheTruth`).
* `docs/operations.md` asks for one sidecar per state directory, and `start` refuses
  when the session names one that runs.  It reads the session (`cli.ts:571`) and makes its
  process at line 587, and returns before that process has first written (line 724): two starts
  at once, or a second one that follows the return of the first, make two sidecars.
  `OneSidecar` is about commands of which each is `Settled`, its sidecar's first
  write included, before the next is given (`overlapped`).
* `file-transfer.ts:593-596` discards an expired transfer before it counts.  When its part
  could be removed and its manifest not, a chunk that comes a day late finds the
  manifest and makes the part again, which no quota check precedes (`anew` in `QuotaKept`).
* `docs/cli.md:253` caps wakes at `--wake-limit` per minute.  They are counted in the
  sidecar's memory: one that is started again counts from none, and does not know of the
  command that the old one left (`RateLimited` and `OneCommand` are of one runner).
* A letter that reaches a client of the HTTP relay more than five minutes after it was
  sealed, behind slow posts for instance, was accepted by the relay and is not delivered;
  only the receiver reports it (`relayRejected`; `rejected` in `NothingSkipped`).
* A process killed while it holds `recovery.lock` leaves it behind, and later
  starts that find `worker.lock` taken fail on it (`worker-config.ts:50`).
* An agent puts its listeners on the bridge after `connect()` has returned
  (`cli.ts:736-752`): announces heard before are noticed at the next one only.  A profile changed
  while `connect()` is pending is told to nobody who is already connected
  (`broadcastSkillUpdate` in `vdo-bridge.ts`; `unannounced` in `NoticesTellWhoIsHere`).
* The announce of a connection that replaces another, and carries no metadata, is
  rejected while the old one counts as connected (`vdo-bridge.ts:637-648`).  When the old
  one then closes, the inbox says that the peer left, and pings, not being announces, do
  not correct it (`unheard`).  A notice is noted as told before it is stored
  (`cli.ts:1573`): if storing it fails, it is not told again (`notStored`).

## 7 What is not modelled

* In the modelled parts: media publishing, pings and the relay fallback of the
  bridge; role, skill and status fields of a peer's record; snapshots and the
  validation of queued files; several swarm files at once, and scores other than
  failures; of the HTTP relay, encryption and the hellos themselves (a client may hear of another at
  any time) and the limit of 4096 events a client remembers; of the mailbox, pairing
  again, progress updates (the worker sends none), the deletion of a task a week after it
  expired, storage quotas, paging of `list_tasks`, and an agent that needs more than ten
  seconds to start; of `cli.ts`, the output of the commands, `watch` and `receipt` loops, and the sidecar's plain `command` replies.
* Left out on purpose: byte layouts and hashing (pure functions of their input),
  command-line parsing (`cli-lib.ts`), HTTP routing and pages, the browser call runtime, the site's
  build scripts, installers and diagnostics.  `PROJECT.json` lists each with its
  reason.

## 8 Plan

Done: the bridge with its registry and queues, because all traffic passes it;
the handoff with its refinement, a durable promise; the swarm, which has
the most concurrency; the mailbox tasks and their worker, which act on somebody
else's computer; then the files that processes share, the way mail reaches an
agent, and the exchanges over failing networks.  What would come next:

1. An abstract lock with at most one owner that `PartFile` is shown to implement,
   and `WorkerLock`, once it does; an abstract letter box for `Relay`.
2. `SwarmOffers` composed with `Swarm`, so that a download is followed from the
   query to the saved file; several files in one manager.
3. The deletion of expired tasks in `MailboxTasks`, with the worker that still
   has an update for one.
4. The waits of `receipt` and `watch` on the inbox.

