----------------------------- MODULE AgentMail -----------------------------
(***************************************************************************)
(* How mail reaches an agent: the sidecar (runAgent, cli.ts) stores what   *)
(* arrives in the inbox (Inbox) and tells its wake runner (Wake), which    *)
(* starts a command that reads the inbox and exits.  Other processes read  *)
(* at any time; the sidecar stops, is killed and starts again, and a       *)
(* command that is running then goes on.  Lookups and pruning, which leave *)
(* the inbox alone, are left to Inbox.                                     *)
(***************************************************************************)
EXTENDS Inbox, Wake

CONSTANTS
  MaxRestarts  \* bound: starts of the sidecar after the first

ASSUME AgentMailAssumption ==
  Items = Mail /\ MaxRestarts \in Nat

VARIABLES
  sidecar,     \* "up", "leaving" (after a signal) or "down"
  arrived,     \* a message that was stored and is not notified yet, or 0
  turn,        \* of each process, as a command: "off", "started", "reading" or "read"
  mine,        \* commands of this runner that have not ended
  restarts

agentVars == <<sidecar, arrived, turn, mine, restarts>>
vars == <<inboxVars, wakeVars, agentVars>>

Init ==
  /\ InboxInit /\ WakeInit
  /\ sidecar = "up" /\ arrived = 0 /\ restarts = 0
  /\ turn = [c \in Readers |-> "off"] /\ mine = {}

Free == sidecar # "down" /\ arrived = 0

(***************************************************************************)
(* The sidecar.                                                            *)
(***************************************************************************)
\* The handler of a message stores it first.
MessageStored(m) ==
  /\ Free
  /\ Store(m)
  /\ arrived' = m
  /\ UNCHANGED <<wakeVars, sidecar, turn, mine, restarts>>

MessageNotified ==
  /\ sidecar # "down" /\ arrived # 0
  /\ Notify(arrived)
  /\ arrived' = 0
  /\ UNCHANGED <<inboxVars, sidecar, turn, mine, restarts>>

\* peer_discovered, peer_updated, peer_left, and events of file transfers:
\* new mail that wakes nobody
Notice(m) ==
  /\ Free /\ stores[m] = 0
  /\ Store(m)
  /\ forgotten' = forgotten \cup {m}
  /\ UNCHANGED <<pending, timer, running, rerun, recent, disposed, ran, agentVars>>

StartCommand(c) ==
  /\ Free /\ turn[c] = "off" /\ read[c].at = "idle"
  /\ Run
  /\ turn' = [turn EXCEPT ![c] = "started"]
  /\ mine' = mine \cup {c}
  /\ UNCHANGED <<inboxVars, sidecar, arrived, restarts>>

OtherTimer ==
  /\ Free
  /\ FireInVain \/ FireTooEarly \/ RunFails
  /\ UNCHANGED <<inboxVars, agentVars>>

\* SIGINT, SIGTERM: shutdown up to bridge.disconnect, which takes a while.
Shutdown ==
  /\ Free /\ sidecar = "up"
  /\ Dispose
  /\ sidecar' = "leaving"
  /\ UNCHANGED <<inboxVars, arrived, turn, mine, restarts>>

\* What follows is the life of another runner: it has started nothing yet.
ProcessEnds ==
  /\ sidecar # "down"
  /\ sidecar' = "down" /\ arrived' = 0 /\ mine' = {}
  /\ pending' = {} /\ forgotten' = forgotten \cup pending \cup ({arrived} \ {0})
  /\ timer' = Off /\ running' = FALSE /\ rerun' = FALSE /\ disposed' = FALSE
  /\ recent' = <<>> /\ ran' = <<>>
  /\ UNCHANGED <<inboxVars, turn, restarts>>

Start ==
  /\ sidecar = "down" /\ restarts < MaxRestarts
  /\ sidecar' = "up" /\ restarts' = restarts + 1
  /\ UNCHANGED <<inboxVars, wakeVars, arrived, turn, mine>>

(***************************************************************************)
(* The wake command: one read, then it exits.                              *)
(***************************************************************************)
CommandReads(c) ==
  /\ turn[c] = "started"
  /\ IF inbox = {}
       THEN turn' = [turn EXCEPT ![c] = "read"] /\ UNCHANGED inboxVars
       ELSE turn' = [turn EXCEPT ![c] = "reading"] /\ BeginRead(c)
  /\ UNCHANGED <<wakeVars, sidecar, arrived, mine, restarts>>

ReadGoesOn(r) ==
  /\ Take(r) \/ Miss(r) \/ SkipMissing(r)
  /\ UNCHANGED <<wakeVars, agentVars>>

ReadEnds(r) ==
  /\ EndRead(r) \/ MissThrows(r) \/ ReaderKilled(r)
  /\ turn' = [turn EXCEPT ![r] = IF @ = "reading" THEN "read" ELSE @]
  /\ UNCHANGED <<wakeVars, sidecar, arrived, mine, restarts>>

CommandExits(c) ==
  /\ arrived = 0 /\ turn[c] = "read"
  /\ turn' = [turn EXCEPT ![c] = "off"]
  /\ mine' = mine \ {c}
  /\ IF c \in mine THEN CommandEnds ELSE UNCHANGED wakeVars
  /\ UNCHANGED <<inboxVars, sidecar, arrived, restarts>>

(***************************************************************************)
(* Other processes, and the clock.                                         *)
(***************************************************************************)
UserReads(r) ==
  /\ turn[r] = "off"
  /\ BeginRead(r)
  /\ UNCHANGED <<wakeVars, agentVars>>

Tick ==
  /\ Pass
  /\ UNCHANGED <<inboxVars, agentVars>>

Next ==
  \/ \E m \in Mail : MessageStored(m) \/ Notice(m)
  \/ MessageNotified \/ OtherTimer \/ Shutdown \/ ProcessEnds \/ Start \/ Tick
  \/ \E c \in Readers : StartCommand(c) \/ CommandReads(c) \/ CommandExits(c)
  \/ \E r \in Readers : ReadGoesOn(r) \/ ReadEnds(r) \/ UserReads(r)

\* Time passes, timers fire, handlers end, and the wake command reads and
\* exits (nothing limits how long it may run).  No start has to succeed: a
\* failed one is counted as forgotten mail.
Fairness ==
  /\ WF_vars(Tick) /\ WF_vars(MessageNotified)
  /\ SF_vars(OtherTimer \/ \E c \in Readers : StartCommand(c))
  /\ \A c \in Readers : WF_vars(CommandReads(c) \/ ReadGoesOn(c) \/ ReadEnds(c) \/ CommandExits(c))

Spec == Init /\ [][Next]_vars /\ Fairness

(***************************************************************************)
(* Properties                                                              *)
(***************************************************************************)
TypeOK ==
  /\ inbox \subseteq Mail /\ archive \subseteq Mail /\ left \subseteq Mail
  /\ stores \in [Mail -> 0 .. MaxStores]
  /\ done \in [Mail -> Nat]
  /\ read \in [Readers -> [at : {"idle", "take", "missed"}, rest : Seq(Mail), want : 0 .. ReadCount,
                           got : SUBSET Mail]]
  /\ look \in [Lookers -> [at : 0 .. 3, id : Mail \cup {0}, due : SUBSET Mail, found : SUBSET Mail]]
  /\ prune \in [Pruners -> Mail \cup {0}]
  /\ pending \subseteq Mail /\ forgotten \subseteq Mail
  /\ timer \in {Off} \cup Nat
  /\ {running, rerun, disposed} \subseteq BOOLEAN
  /\ recent \in Seq(0 .. Window) /\ ran \in Seq(0 .. Window)
  /\ sidecar \in {"up", "leaving", "down"} /\ arrived \in Mail \cup {0}
  /\ turn \in [Readers -> {"off", "started", "reading", "read"}]
  /\ mine \subseteq Readers /\ restarts \in 0 .. MaxRestarts

\* Two commands of one sidecar never run at once, and its runner knows of the
\* one that does (an agent turn is not reentrant).  A runner knows nothing of the
\* commands that sidecars before it started and left running: those may run beside
\* its own, one for each sidecar that has ended.
Orphans == {c \in Readers : turn[c] # "off"} \ mine
OneCommand ==
  /\ Cardinality(mine) = IF running THEN 1 ELSE 0
  /\ Cardinality(Orphans) <= restarts + IF sidecar = "down" THEN 1 ELSE 0

\* Mail is read in the end, by the command it was announced to or by somebody
\* else, unless it was not announced (a notice) or in vain (the start of a command
\* failed, the sidecar stopped) or a read left it (more than ReadCount were unread, or the
\* read failed).
MailIsRead ==
  \A m \in Mail : m \in inbox ~> (m \notin inbox \/ m \in forgotten \cup left)
=============================================================================
