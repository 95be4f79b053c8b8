---------------------------- MODULE MailboxWorker ----------------------------
(***************************************************************************)
(* The mailbox worker (src/mailbox-worker.ts) and the agent it runs        *)
(* (src/worker-agent.ts) against the task table of the service.            *)
(*                                                                         *)
(* A tick reads the tasks, then visits its own records (pc = "records"),   *)
(* then the tasks (pc = "tasks").  It decides on what it read at its       *)
(* beginning, while the others go on.  A record is on disk before anything *)
(* is done about it, so that only the tick is lost when the worker dies;   *)
(* the agent is a process of its own, which goes on.                       *)
(*                                                                         *)
(* One step here is what the worker does between two waits for the service *)
(* or, where it matters, between two accesses to the files it shares with  *)
(* the agent.  An update and its answer are one step when both arrive.     *)
(* When a call fails, its request may still arrive, then or later.         *)
(***************************************************************************)
EXTENDS MailboxTasks, FiniteSets

CONSTANTS
    Outcomes,     \* the outcomes that the agents of each task may save
    MaxMishaps    \* bound: failed calls, lost agents and crashes

None == "none"

SavedOutcomes == {"completed", "needs_approval", "failed", "error"}

ASSUME WorkerAssumption == Outcomes \in [Tasks -> SUBSET SavedOutcomes] /\ MaxMishaps \in Nat

VARIABLES
    record,       \* the state directory's record of each task
    turn,         \* the files and processes of the latest attempt at each task
    pc,           \* where the worker is
    tick,         \* the variables of MailboxWorker.tick
    stopping,     \* the worker was asked to stop
    late,         \* requests of failed calls, which may still arrive
    launched,     \* how often an agent was started for each task
    mishaps

workerVars == <<record, turn, pc, tick, stopping, paired, late, launched, mishaps>>
vars == <<taskVars, workerVars>>

Stages == {"none", "claiming", "ready", "running", "reporting", "approval", "done", "blocked"}

NoRecord == [stage |-> "none", attempt |-> 0, pending |-> {}, approvalId |-> 0, nonce |-> 0]

NoTurn == [process |-> "none", outcome |-> None, cancel |-> FALSE, recent |-> FALSE]

NoTick == [todo |-> {}, seen |-> [t \in Tasks |-> Summary(NoTask)], allowed |-> FALSE,
           stopping |-> FALSE, busy |-> FALSE, at |-> 0, back |-> "rest", outcome |-> None]

Init ==
    /\ TasksInit
    /\ record = [t \in Tasks |-> NoRecord]
    /\ turn = [t \in Tasks |-> NoTurn]
    /\ launched = [t \in Tasks |-> 0]
    /\ pc = "rest" /\ tick = NoTick /\ stopping = FALSE
    /\ late = {} /\ mishaps = 0

Mishap == mishaps < MaxMishaps /\ mishaps' = mishaps + 1

(* The process of an attempt is alive, as its running.json tells; before   *)
(* that is written an attempt is given ten seconds, which are assumed to   *)
(* be enough.                                                              *)
Live(t) == turn[t].process = "running" \/ turn[t].recent

HasLiveRun ==
    \E t \in Tasks : record[t].stage = "running" /\ turn[t].outcome = None /\ Live(t)

Allowed(t) == tick.allowed /\ tick.seen[t].status # "absent"

(* The end of a tick, and of the worker if it was asked to stop.           *)
EndTick(busy) ==
    /\ pc' = IF stopping /\ ~busy /\ \A t \in Tasks : record'[t].pending = {}
             THEN "stopped" ELSE "rest"
    /\ tick' = NoTick

\* A fault for the mutation tests: the worker stops although an agent runs.
AbortAnyway ==
    /\ pc' = IF stopping THEN "stopped" ELSE "rest"
    /\ tick' = NoTick
    /\ UNCHANGED record

(* An exception of a call leaves the tick.                                 *)
Abort ==
    /\ pc' = IF stopping /\ ~HasLiveRun THEN "stopped" ELSE "rest"
    /\ tick' = NoTick
    /\ UNCHANGED record

Fetch ==
    /\ pc = "rest" /\ pc' = "records"
    /\ tick' = [NoTick EXCEPT
                  !.seen = [t \in Tasks |-> Summary(task[t])],
                  !.allowed = paired,
                  !.stopping = stopping,
                  !.todo = {t \in Tasks : record[t].pending # {} \/ record[t].stage = "running"}]
    /\ UNCHANGED <<taskVars, record, turn, stopping, paired, late, launched, mishaps>>

FetchFails ==
    /\ pc = "rest" /\ Mishap /\ Abort
    /\ UNCHANGED <<taskVars, turn, stopping, paired, late, launched>>

(* The wait for update_task, after which the tick goes on at back.         *)
Call(t, back) ==
    /\ pc' = "update"
    /\ tick' = [tick EXCEPT !.at = t, !.back = back, !.todo = @ \ {t}]

(* update(): the exact arguments are saved before the call.                *)
WithUpdate(r, summary, action) ==
    [r EXCEPT
       !.pending = {[revision |-> summary.revision, key |-> r.nonce + 1,
                     action |-> action, result |-> r.attempt]},
       !.nonce = @ + 1,
       !.stage = IF action = "start" THEN "claiming" ELSE "reporting"]

Update(t, summary, action, back) ==
    /\ record' = [record EXCEPT ![t] = WithUpdate(@, summary, action)]
    /\ Call(t, back)

Pending(t) == CHOOSE update \in record[t].pending : TRUE

AfterAccepted(r, update, row) ==
    [r EXCEPT
       !.pending = {},
       !.stage = CASE update.action = "start" -> "ready"
                   [] update.action = "request_approval" -> "approval"
                   [] OTHER -> "done",
       !.approvalId = IF update.action = "request_approval" THEN row.approval.id ELSE @]

(* After an await: loop 2 ends its tick once it has claimed a task.        *)
Resume ==
    IF tick.back = "claimed" THEN EndTick(TRUE)
    ELSE pc' = tick.back /\ tick' = [tick EXCEPT !.at = 0, !.back = "rest"]

UpdateAccepted ==
    /\ pc = "update"
    /\ LET t == tick.at
           row == Updated(task[t], Pending(t))
       IN /\ Verdict(task[t], Pending(t)) = "accepted"
          /\ task' = [task EXCEPT ![t] = row]
          /\ record' = [record EXCEPT ![t] = AfterAccepted(@, Pending(t), row)]
          /\ Resume
    /\ UNCHANGED <<granted, interventions, turn, stopping, paired, late, launched, mishaps>>

(* A definite rejection: the worker asks what became of the task.          *)
UpdateRejected ==
    /\ pc = "update" /\ Verdict(task[tick.at], Pending(tick.at)) = "rejected"
    /\ pc' = "get"
    /\ UNCHANGED <<taskVars, record, turn, tick, stopping, paired, late, launched, mishaps>>

UpdateRefused ==
    /\ pc = "update" /\ Verdict(task[tick.at], Pending(tick.at)) = "error"
    /\ Abort
    /\ UNCHANGED <<taskVars, turn, stopping, paired, late, launched, mishaps>>

(* No answer: the request was lost, or its answer, or it is still on its   *)
(* way.                                                                    *)
UpdateFails ==
    /\ pc = "update" /\ Mishap /\ Abort
    /\ late' = late \cup {[task |-> tick.at, update |-> Pending(tick.at)]}
    /\ UNCHANGED <<taskVars, turn, stopping, paired, launched>>

Late(request) ==
    /\ late' = late \ {request}
    /\ task' = [task EXCEPT ![request.task] = Updated(@, request.update)]
    /\ UNCHANGED <<granted, interventions, record, turn, pc, tick, stopping, paired, launched, mishaps>>

GetAnswered ==
    /\ pc = "get"
    /\ LET t == tick.at
           now == Summary(task[t])
           idle == [record[t] EXCEPT !.pending = {}]
       IN \/ /\ now.status # "cancel_requested"
             /\ record' = [record EXCEPT ![t] =
                  [idle EXCEPT !.stage = IF Finished(now) THEN "done" ELSE "blocked"]]
             /\ Resume
          \/ /\ now.status = "cancel_requested"
             /\ record' = [record EXCEPT ![t] = WithUpdate(idle, now, "cancelled")]
             /\ pc' = "update" /\ UNCHANGED tick
    /\ UNCHANGED <<taskVars, turn, stopping, paired, late, launched, mishaps>>

GetFails ==
    /\ pc = "get" /\ Mishap /\ Abort
    /\ UNCHANGED <<taskVars, turn, stopping, paired, late, launched>>

------------------------------------------------------------------------------
(* Loop 1: the worker's own records, in the order readdir returns them.    *)

Flush(t) ==
    /\ pc = "records" /\ t \in tick.todo /\ record[t].pending # {}
    /\ Call(t, "records")
    /\ UNCHANGED <<taskVars, record, turn, stopping, paired, late, launched, mishaps>>

(* A running record: its outcome is read, and its agent told to stop if    *)
(* the task is no longer wanted.                                           *)
ReadOutcome(t) ==
    /\ pc = "records" /\ t \in tick.todo /\ record[t].pending = {}
    /\ pc' = "judge"
    /\ tick' = [tick EXCEPT !.todo = @ \ {t}, !.at = t, !.outcome = turn[t].outcome]
    /\ LET unwanted == \/ ~Allowed(t) \/ Finished(tick.seen[t])
                       \/ tick.seen[t].status = "cancel_requested"
       IN turn' = [turn EXCEPT ![t].cancel = @ \/ unwanted]
    /\ UNCHANGED <<taskVars, record, stopping, paired, late, launched, mishaps>>

GoOn(busy) == 
    /\ pc' = "records"
    /\ tick' = [tick EXCEPT !.at = 0, !.outcome = None, !.busy = @ \/ busy]

StillRunning ==
    /\ pc = "judge" /\ tick.outcome = None /\ Live(tick.at)
    /\ GoOn(TRUE)
    /\ UNCHANGED <<taskVars, record, turn, stopping, paired, late, launched, mishaps>>

Report(outcome) ==
    CASE outcome = "completed" -> "complete"
      [] outcome = "failed"    -> "fail"
      [] OTHER                 -> "request_approval"

\* A fault for the mutation tests: a cancellation is confirmed before the agent has ended.
JudgeAtOnce ==
    /\ pc = "judge"
    /\ LET t == tick.at
           seen == tick.seen[t]
           withdrawn == seen.status = "cancel_requested"
           action == IF withdrawn THEN "cancelled" ELSE Report(tick.outcome)
       IN /\ tick.outcome # None \/ ~Live(t) \/ withdrawn
          /\ IF Finished(seen) \/ ~Allowed(t)
             THEN record' = [record EXCEPT ![t].stage = "done"] /\ GoOn(FALSE)
             ELSE /\ record' = [record EXCEPT ![t] = WithUpdate(@, seen, action)]
                  /\ pc' = "update"
                  /\ tick' = [tick EXCEPT !.back = "records", !.outcome = None]
    /\ UNCHANGED <<taskVars, turn, stopping, paired, late, launched, mishaps>>

JudgeOver ==
    /\ pc = "judge"
    /\ LET t == tick.at
           seen == tick.seen[t]
           action == IF seen.status = "cancel_requested" THEN "cancelled"
                     ELSE Report(tick.outcome)
       IN /\ tick.outcome # None \/ ~Live(t)
          /\ IF Finished(seen) \/ ~Allowed(t)
             THEN record' = [record EXCEPT ![t].stage = "done"] /\ GoOn(FALSE)
             ELSE /\ record' = [record EXCEPT ![t] = WithUpdate(@, seen, action)]
                  /\ pc' = "update"
                  /\ tick' = [tick EXCEPT !.back = "records", !.outcome = None]
    /\ UNCHANGED <<taskVars, turn, stopping, paired, late, launched, mishaps>>

------------------------------------------------------------------------------
(* Loop 2: the tasks, in the order of the list.                            *)

Claimable(t) == record[t].stage = "none" /\ tick.seen[t].status = "submitted"

Waiting(t) == record[t].pending = {} /\ record[t].stage \notin {"none", "running", "done", "blocked"}

Withdrawn(t) == Waiting(t) /\ tick.seen[t].status = "cancel_requested"

\* A fault for the mutation tests: any decision seen is taken for the one that was asked for.
DecidedBefore(t, decision) ==
    /\ Waiting(t) /\ record[t].stage = "approval" /\ tick.seen[t].status = "working"
    /\ tick.seen[t].approval.status = decision

(* The decision on this record's own request, as far as it was read.       *)
Decided(t, decision) ==
    /\ Waiting(t) /\ record[t].stage = "approval" /\ tick.seen[t].status = "working"
    /\ record[t].approvalId = tick.seen[t].approval.id
    /\ tick.seen[t].approval.status = decision

Startable(t) == Waiting(t) /\ record[t].stage = "ready" /\ tick.seen[t].status = "working"

Concerned(t) ==
    /\ Allowed(t) /\ ~Finished(tick.seen[t])
    /\ \/ Claimable(t) \/ Withdrawn(t) \/ Startable(t)
       \/ \E decision \in {"approved", "declined"} : Decided(t, decision)

EndRecords ==
    /\ pc = "records" /\ tick.todo = {}
    /\ UNCHANGED <<taskVars, record, turn, stopping, paired, late, launched, mishaps>>
    /\ IF tick.stopping \/ tick.busy
       THEN EndTick(tick.busy)
       ELSE pc' = "tasks" /\ tick' = [tick EXCEPT !.todo = {t \in Tasks : Concerned(t)}]

EndTasks ==
    /\ pc = "tasks" /\ tick.todo = {}
    /\ UNCHANGED record /\ EndTick(FALSE)
    /\ UNCHANGED <<taskVars, turn, stopping, paired, late, launched, mishaps>>

First(t) == pc = "tasks" /\ t \in tick.todo /\ \A s \in tick.todo : t <= s

Claim(t) ==
    /\ First(t) /\ Claimable(t)
    /\ Update(t, tick.seen[t], "start", "claimed")
    /\ UNCHANGED <<taskVars, turn, stopping, paired, late, launched, mishaps>>

Withdraw(t) ==
    /\ First(t) /\ Withdrawn(t)
    /\ Update(t, tick.seen[t], "cancelled", "tasks")
    /\ UNCHANGED <<taskVars, turn, stopping, paired, late, launched, mishaps>>

TakeDecision(t) ==
    /\ First(t)
    /\ \/ Decided(t, "declined") /\ Update(t, tick.seen[t], "fail", "tasks")
       \/ /\ Decided(t, "approved")
          /\ record' = [record EXCEPT ![t].stage = "ready"]
          /\ UNCHANGED <<pc, tick>>
    /\ UNCHANGED <<taskVars, turn, stopping, paired, late, launched, mishaps>>

(* dispatch() up to the saved record: a new attempt, in a new directory.   *)
Dispatch(t) ==
    /\ First(t) /\ Startable(t)
    /\ record' = [record EXCEPT ![t].stage = "running", ![t].attempt = @ + 1]
    /\ turn' = [turn EXCEPT ![t] = [NoTurn EXCEPT !.recent = TRUE]]
    /\ pc' = "spawn" /\ tick' = [tick EXCEPT !.at = t]
    /\ UNCHANGED <<taskVars, stopping, paired, late, launched, mishaps>>

\* A fault for the mutation tests: the worker goes on to further tasks after it started an agent.
SpawnAndGoOn ==
    /\ pc = "spawn"
    /\ turn' = [turn EXCEPT ![tick.at].process = "running"]
    /\ launched' = [launched EXCEPT ![tick.at] = @ + 1]
    /\ UNCHANGED record
    /\ IF tick.todo \subseteq {tick.at} THEN EndTick(TRUE)
       ELSE pc' = "tasks" /\ tick' = [tick EXCEPT !.todo = @ \ {tick.at}]
    /\ UNCHANGED <<taskVars, stopping, paired, late, mishaps>>

(* dispatch() from there on: the agent's process starts, or cannot.        *)
Spawn ==
    /\ pc = "spawn"
    /\ \/ /\ turn' = [turn EXCEPT ![tick.at].process = "running"]
          /\ launched' = [launched EXCEPT ![tick.at] = @ + 1]
          /\ UNCHANGED mishaps
       \/ /\ turn' = [turn EXCEPT ![tick.at].outcome = "error"]
          /\ Mishap /\ UNCHANGED launched
    /\ UNCHANGED record /\ EndTick(TRUE)
    /\ UNCHANGED <<taskVars, stopping, paired, late>>

------------------------------------------------------------------------------
(* The agent's process.                                                    *)

(* The agent answers, fails, or reaches its time limit; a cancelled one is *)
(* killed, which is an error, unless it is done by then.  Once an outcome  *)
(* can be read, nothing asks any more how recent the dispatch is.          *)
AgentEnds(t) ==
    /\ turn[t].process = "running"
    /\ \E outcome \in Outcomes[t] \cup (IF turn[t].cancel THEN {"error"} ELSE {}) :
           turn' = [turn EXCEPT ![t].process = "gone", ![t].outcome = outcome,
                                ![t].recent = @ /\ pc = "judge"]
    /\ UNCHANGED <<taskVars, record, pc, tick, stopping, paired, late, launched, mishaps>>

(* The agent's processes are killed before an outcome is saved.            *)
AgentLost(t) ==
    /\ turn[t].process = "running" /\ Mishap
    /\ turn' = [turn EXCEPT ![t].process = "gone"]
    /\ UNCHANGED <<taskVars, record, pc, tick, stopping, paired, late, launched>>

(* Ten seconds since the dispatch, which Spawn follows at once.            *)
GraceEnds(t) ==
    /\ turn[t].recent /\ (pc = "spawn" => tick.at # t)
    /\ turn' = [turn EXCEPT ![t].recent = FALSE]
    /\ UNCHANGED <<taskVars, record, pc, tick, stopping, paired, late, launched, mishaps>>

------------------------------------------------------------------------------
(* The worker's process.                                                   *)

On == pc \notin {"stopped", "crashed"}

Stop ==
    /\ On /\ ~stopping /\ Intervention /\ stopping' = TRUE
    /\ UNCHANGED <<task, granted, record, turn, pc, tick, paired, late, launched, mishaps>>

Crash ==
    /\ On /\ Mishap
    /\ pc' = "crashed" /\ tick' = NoTick
    /\ UNCHANGED <<taskVars, record, turn, stopping, paired, late, launched>>

Start ==
    /\ ~On
    /\ pc' = "rest" /\ stopping' = FALSE
    /\ UNCHANGED <<taskVars, record, turn, tick, paired, late, launched, mishaps>>

(* The owner ends the pairing of the two mailboxes.                        *)
Unpair ==
    /\ paired /\ Intervention /\ paired' = FALSE
    /\ UNCHANGED <<task, granted, record, turn, pc, tick, stopping, late, launched, mishaps>>

Calls ==
    \/ Fetch \/ UpdateAccepted \/ UpdateRejected \/ UpdateRefused \/ GetAnswered

Records ==
    \/ \E t \in Tasks : Flush(t) \/ ReadOutcome(t)
    \/ StillRunning \/ JudgeOver \/ EndRecords

Visits ==
    \/ \E t \in Tasks : Claim(t) \/ Withdraw(t) \/ TakeDecision(t) \/ Dispatch(t)
    \/ Spawn \/ EndTasks

WorkerStep == Start \/ Calls \/ Records \/ Visits

AgentStep(t) == AgentEnds(t) \/ GraceEnds(t)

Failures ==
    \/ FetchFails \/ UpdateFails \/ GetFails \/ Stop \/ Crash \/ Unpair
    \/ \E t \in Tasks : AgentLost(t)
    \/ \E request \in late : Late(request)

Next ==
    \/ WorkerStep \/ Failures
    \/ \E t \in Tasks : AgentStep(t)
    \/ Others /\ UNCHANGED workerVars

Spec == Init /\ [][Next]_vars

(* The worker is kept running, agents end (they have a time limit), and    *)
(* seconds pass.  Nobody else owes anything.                               *)
FairSpec ==
    /\ Spec /\ WF_vars(WorkerStep)
    /\ \A t \in Tasks : WF_vars(AgentEnds(t)) /\ WF_vars(GraceEnds(t))
------------------------------------------------------------------------------
Statuses == {"absent", "submitted", "working", "awaiting_approval", "cancel_requested"} \cup Terminal

ApprovalType == [id : Nat, status : {"none", "pending", "approved", "declined"}]

RowType == [status : Statuses, revision : Nat, approval : ApprovalType, result : Nat,
            keys : SUBSET Nat, expired : BOOLEAN]

SummaryType == [status : Statuses \cup {"expired"}, revision : Nat, approval : ApprovalType]

UpdateType == [revision : Nat, key : Nat, action : Actions, result : Nat]

RecordType == [stage : Stages, attempt : Nat, pending : SUBSET UpdateType,
               approvalId : Nat, nonce : Nat]

TurnType == [process : {"none", "running", "gone"}, outcome : SavedOutcomes \cup {None},
             cancel : BOOLEAN, recent : BOOLEAN]

TickType == [todo : SUBSET Tasks, seen : [Tasks -> SummaryType], allowed : BOOLEAN,
             stopping : BOOLEAN, busy : BOOLEAN, at : Tasks \cup {0},
             back : {"rest", "records", "tasks", "claimed"}, outcome : SavedOutcomes \cup {None}]

Places == {"rest", "records", "judge", "update", "get", "tasks", "spawn", "stopped", "crashed"}

(* A record has an update to send just as long as its stage says so.       *)
TypeOK ==
    /\ task \in [Tasks -> RowType] /\ granted \in [Tasks -> Nat] /\ interventions \in Nat
    /\ record \in [Tasks -> RecordType] /\ turn \in [Tasks -> TurnType]
    /\ launched \in [Tasks -> Nat]
    /\ pc \in Places /\ tick \in TickType /\ stopping \in BOOLEAN /\ paired \in BOOLEAN
    /\ late \subseteq [task : Tasks, update : UpdateType] /\ mishaps \in 0 .. MaxMishaps
    /\ \A t \in Tasks :
          record[t].pending # {} <=> record[t].stage \in {"claiming", "reporting"}

Active(t) == turn[t].process = "running"

(* The tasks, their records and agents as MailboxAbs sees them: an attempt *)
(* is prepared from its saved record on until its agent starts.            *)
Shown == [t \in Tasks |-> IF task[t].status \in Terminal THEN task[t].status ELSE "open"]

Results == [t \in Tasks |-> task[t].result]

Attempts == [t \in Tasks |-> record[t].attempt]

PhaseOf(t) ==
    IF pc = "spawn" /\ tick.at = t THEN "prepared"
    ELSE IF Active(t) THEN "running"
    ELSE IF turn[t].outcome = "completed" THEN "saved" ELSE "idle"

Phases == [t \in Tasks |-> PhaseOf(t)]

Promise == INSTANCE MailboxAbs WITH status <- Shown, result <- Results, attempts <- Attempts,
                                    phase <- Phases

(* The worker and the service implement the promise of MailboxAbs: no      *)
(* crash, lost answer, late request or decision read late makes an attempt *)
(* that was not approved, starts an agent twice for one or beside another, *)
(* or ends a task twice, or before its agent (lines 92, 138-142 and 157).  *)
WorkerKeepsPromise == Promise!Spec

(* Only one turn runs at a time, over all tasks, restarts of the worker    *)
(* and agents that outlive it (lines 21, 133 and 145).                     *)
OneTurnAtATime == \A s, t \in Tasks : Active(s) /\ Active(t) => s = t

(* What the service shows as the result is what the last agent saved, and  *)
(* a task is not called failed while its agent runs (lines 138-142).       *)
ReportsTruthful ==
    \A t \in Tasks :
        /\ task[t].status = "completed" =>
              task[t].result = record[t].attempt /\ turn[t].outcome = "completed"
        /\ task[t].status \in {"failed", "cancelled"} => ~Active(t)

(* A worker that was asked to stop ends between two turns, even if it ends *)
(* for want of a connection (lines 206 and 209).                           *)
StopsBetweenTurns == pc = "stopped" => \A t \in Tasks : ~Active(t)

(* The worker never looks at a task that is cancelled before it claimed    *)
(* it (line 150).                                                          *)
Settled(t) ==
    \/ task[t].status \in Terminal \cup {"absent", "awaiting_approval"}
    \/ task[t].expired
    \/ task[t].status = "cancel_requested" /\ record[t].stage = "none"

(* As long as no task has used up its updates, every task of a paired      *)
(* requester ends or waits for its owner, however often the worker is      *)
(* stopped and calls fail (lines 49-73 and 104-164).                       *)
TaskSettles ==
    []((\A t \in Tasks : task[t].revision < SoftLimit) /\ paired)
        => \A t \in Tasks : []<>Settled(t)

(* A saved result is delivered: the worker asks for a decision for want of *)
(* an outcome only if there is none (lines 128 and 138).                   *)
SavedResultDelivered ==
    [][\A t \in Tasks :
          pc = "judge" /\ tick.at = t /\ turn[t].outcome = "completed"
          /\ record'[t].pending # {}
            => \A update \in record'[t].pending : update.action # "request_approval"]_vars
==============================================================================
