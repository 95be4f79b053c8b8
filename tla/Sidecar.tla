------------------------------ MODULE Sidecar ------------------------------
(***************************************************************************)
(* The sidecar of a state directory and the commands that start and stop   *)
(* it (startAgent, stopAgent and runAgent of src/src/cli.ts).  All they    *)
(* know of each other is the session file and whether the process it names *)
(* exists.  The commands are cut where they read the file, where they look *)
(* at the process or make one, and where they write; a process never comes *)
(* back, so that a look and what follows from it are one step.             *)
(*                                                                         *)
(* Processes are known by their order.  Bounds: MaxPids sidecars, and the  *)
(* Commands, each given once.                                              *)
(***************************************************************************)
EXTENDS Naturals, FiniteSets

CONSTANTS
  MaxPids,
  Starts,   \* commands "start"
  Stops     \* commands "stop"

ASSUME SidecarAssumption == MaxPids \in Nat /\ Starts \cap Stops = {}

VARIABLES
  life,        \* of each sidecar, see Lives
  session,     \* the session file: [pid, connected], with pid 0 for no file
  command,     \* how far each command is: "given", "looking", "writing" or "over"
  seen,        \* the session it has read
  overlapped   \* ghost: a command was given before the last was Settled

sidecarVars == <<life, session, command, seen, overlapped>>

Pids == 1 .. MaxPids

\* Not made yet; running, before its first write; waiting for connect; in
\* service; told to stop; and shutting down, which is where its events still
\* write the session; or gone.
Lives == {"unused", "spawned", "connecting", "ready", "asked", "leaving", "gone"}

NoSession == [pid |-> 0, connected |-> FALSE]

SidecarInit ==
  /\ life = [p \in Pids |-> "unused"]
  /\ session = NoSession
  /\ command = [c \in Starts \cup Stops |-> "given"]
  /\ seen = [c \in Starts \cup Stops |-> NoSession]
  /\ overlapped = FALSE

Live(p) == life[p] \notin {"unused", "gone"}

\* isPidRunning, of the pid of a session
Running(s) == s.pid # 0 /\ Live(s.pid)

\* A variant: a sidecar that has not connected does not count.
RunningIfConnected(s) == Running(s) /\ s.connected

\* running of getAgentStatus, and readAgentSession before it
StatusRunning(s) == Running(s)

-----------------------------------------------------------------------------
(* The commands.                                                           *)

\* Every command has returned, and every sidecar that a start made has written the
\* session.  The second takes longer: start returns when it has made the process,
\* which has yet to load its program and come to that write.
Settled ==
  /\ \A c \in Starts \cup Stops : command[c] \in {"given", "over"}
  /\ \A p \in Pids : life[p] # "spawned"

\* getAgentStatus and stopAgent read the session.
ReadsSession(c) ==
  /\ command[c] = "given"
  /\ seen' = [seen EXCEPT ![c] = session]
  /\ command' = [command EXCEPT ![c] = "looking"]
  /\ overlapped' = (overlapped \/ ~Settled)
  /\ UNCHANGED <<life, session>>

\* startAgent: it makes a sidecar unless the one it read of runs.
Start(c) ==
  /\ c \in Starts /\ command[c] = "looking"
  /\ command' = [command EXCEPT ![c] = "over"]
  /\ \/ /\ StatusRunning(seen[c])
        /\ UNCHANGED life
     \/ /\ ~StatusRunning(seen[c])
        /\ \E p \in Pids :
             /\ life[p] = "unused" /\ \A q \in 1 .. p - 1 : life[q] # "unused"
             /\ life' = [life EXCEPT ![p] = "spawned"]
  /\ UNCHANGED <<session, seen, overlapped>>

\* process.kill: a sidecar that is ready takes the signal as a request, once,
\* except on Windows; before that the signal ends it.
AfterKill(p) ==
  CASE life[p] \in {"spawned", "connecting"} -> {"gone"}
    [] life[p] = "ready" -> {"asked", "gone"}
    [] life[p] \in {"asked", "leaving"} -> {life[p], "gone"}

\* stopAgent, when it read of no process, and when the process runs
StopNothing(c) ==
  /\ c \in Stops /\ command[c] = "looking" /\ seen[c].pid = 0
  /\ command' = [command EXCEPT ![c] = "over"]
  /\ UNCHANGED <<life, session, seen, overlapped>>

StopLooks(c) ==
  /\ c \in Stops /\ command[c] = "looking" /\ seen[c].pid # 0
  /\ command' = [command EXCEPT ![c] = "writing"]
  /\ IF Running(seen[c])
     THEN \E next \in AfterKill(seen[c].pid) : life' = [life EXCEPT ![seen[c].pid] = next]
     ELSE UNCHANGED life
  /\ UNCHANGED <<session, seen, overlapped>>

\* It writes what it has read, as not connected.
StopWrites(c) ==
  /\ c \in Stops /\ command[c] = "writing"
  /\ command' = [command EXCEPT ![c] = "over"]
  /\ session' = [seen[c] EXCEPT !.connected = FALSE]
  /\ UNCHANGED <<life, seen, overlapped>>

-----------------------------------------------------------------------------
(* The sidecar.                                                            *)

Becomes(p, before, after) ==
  /\ life[p] \in before
  /\ life' = [life EXCEPT ![p] = after]
  /\ UNCHANGED <<command, seen, overlapped>>

\* The first write of runAgent; connect follows it.
FirstWrite(p) ==
  /\ Becomes(p, {"spawned"}, "connecting")
  /\ session' = [pid |-> p, connected |-> FALSE]

\* connect resolves: syncSession(true), and the signals are handled.
Ready(p) ==
  /\ Becomes(p, {"connecting"}, "ready")
  /\ \E connected \in BOOLEAN : session' = [pid |-> p, connected |-> connected]

\* syncSession by the heartbeat, a peer's event or the transport.  Over http
\* it is the transport that says whether there is a connection.
SyncSession(p) ==
  /\ life[p] \in {"ready", "asked", "leaving"}
  /\ \E connected \in BOOLEAN : session' = [pid |-> p, connected |-> connected]
  /\ UNCHANGED <<life, command, seen, overlapped>>

\* shutdown: by a signal of the user or of stopAgent
Interrupted(p) ==
  /\ Becomes(p, {"ready"}, "asked")
  /\ UNCHANGED session

Shutdown(p) ==
  /\ Becomes(p, {"asked"}, "leaving")
  /\ session' = [pid |-> p, connected |-> FALSE]

\* disconnect is over: the process ends, after the last write or before it.
Disconnected(p) ==
  /\ Becomes(p, {"leaving"}, "gone")
  /\ session' \in {session, [pid |-> p, connected |-> FALSE]}

\* It fails to start or to connect, or is killed.
Dies(p) ==
  /\ Becomes(p, {"spawned", "connecting", "ready", "asked", "leaving"}, "gone")
  /\ UNCHANGED session

SidecarNext ==
  \/ \E c \in Starts \cup Stops :
       ReadsSession(c) \/ Start(c) \/ StopNothing(c) \/ StopLooks(c) \/ StopWrites(c)
  \/ \E p \in Pids :
       \/ FirstWrite(p) \/ Ready(p) \/ SyncSession(p) \/ Interrupted(p)
       \/ Shutdown(p) \/ Disconnected(p) \/ Dies(p)

-----------------------------------------------------------------------------
(* Correctness.                                                            *)

\* "Run one sidecar per state directory" (docs/operations.md), and what start
\* does for it: while nobody gives a command before the last one is Settled,
\* no two sidecars are alive in one directory, however slowly they connect
\* and stop and whenever they die, and the session names the one that lives
\* as soon as it has written.  An old sidecar's last writes never hide it.
\* Nothing is said once a command was given earlier: start reads the session
\* and makes its process in two steps, and a second start that follows the first
\* one's return, but not yet the first write of its sidecar, makes another.
OneSidecar ==
  overlapped \/
    /\ \A p, q \in Pids : Live(p) /\ Live(q) => p = q
    /\ \A p \in Pids : Live(p) => life[p] = "spawned" \/ session.pid = p
=============================================================================
