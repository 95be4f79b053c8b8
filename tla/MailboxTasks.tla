---------------------------- MODULE MailboxTasks ----------------------------
(***************************************************************************)
(* The task table of the mailbox service (mailbox-service/tasks.mjs).  A   *)
(* requester creates a task for a worker, the worker reports on it, the    *)
(* requester may ask to cancel it and the requester's owner decides what   *)
(* the worker asks approval for.  Every change is one transaction of the   *)
(* store, under an optimistic revision and an idempotence key.             *)
(*                                                                         *)
(* The requester and its owner read a task and change it at once: a stale  *)
(* revision or a repeated key of theirs changes nothing (lines 112-118).   *)
(* The worker's calls, whose answers decide what it does next, are in      *)
(* MailboxWorker.                                                          *)
(***************************************************************************)
EXTENDS Naturals

CONSTANTS
    Tasks,        \* the numbers of tasks: list() orders them by their id
    SoftLimit,    \* revisions open to start and request_approval (60)
    HardLimit,    \* revisions in all (64)
    MaxGrants,    \* bound: approvals an owner grants to one task
    MaxInterventions  \* bound: tasks cancelled or expired, workers stopped,
                      \* pairings ended

ASSUME TasksAssumption ==
    /\ Tasks \subseteq Nat
    /\ {SoftLimit, HardLimit, MaxGrants, MaxInterventions} \subseteq Nat
    /\ SoftLimit <= HardLimit

VARIABLES
    task,         \* the row of each task
    granted,      \* how many approvals each task was granted
    paired,       \* the requester's mailbox and the worker's are peers
    interventions

\* what the service itself changes; a pairing is ended with Unpair (MailboxWorker)
taskVars == <<task, granted, interventions>>

Actions == {"start", "request_approval", "complete", "fail", "cancelled"}

Terminal == {"completed", "failed", "cancelled"}

NoApproval == [id |-> 0, status |-> "none"]

NoTask == [status |-> "absent", revision |-> 0, approval |-> NoApproval,
           result |-> 0, keys |-> {}, expired |-> FALSE]

(* What the worker reads of a row: an unfinished task that is past its     *)
(* time is shown as expired.                                               *)
Summary(row) ==
    [status   |-> IF row.expired /\ row.status \notin Terminal THEN "expired" ELSE row.status,
     revision |-> row.revision,
     approval |-> row.approval]

Finished(summary) == summary.status \in Terminal \cup {"expired"}

(* The statuses a worker's action is allowed in, and the one it leads to.  *)
AllowedIn(action) ==
    CASE action = "start"            -> {"submitted"}
      [] action = "request_approval" -> {"working"}
      [] action = "complete"         -> {"working", "cancel_requested"}
      [] OTHER -> {"submitted", "working", "awaiting_approval", "cancel_requested"}

StatusAfter(action) ==
    CASE action = "start"            -> "working"
      [] action = "request_approval" -> "awaiting_approval"
      [] action = "complete"         -> "completed"
      [] action = "fail"             -> "failed"
      [] action = "cancelled"        -> "cancelled"

AtLimit(row, action) ==
    \/ row.revision >= HardLimit
    \/ row.revision >= SoftLimit /\ action \in {"start", "request_approval"}

\* A fault for the mutation tests: update_task without the look for a repeated key.
NeverRepeated(row, update) == FALSE

(* An update that was applied before is answered and changes nothing.      *)
Repeated(row, update) == update.key \in row.keys

Open(row) == row.status \notin Terminal \cup {"absent"} /\ ~row.expired

(* What update_task answers: accepted, rejected for one of the four        *)
(* reasons that the worker takes for definite, or any other error.  The    *)
(* message that tells of a change is stored with it, and between mailboxes *)
(* that are not paired it is refused.                                      *)
Verdict(row, update) ==
    IF Repeated(row, update) THEN "accepted"
    ELSE IF ~Open(row) \/ row.revision # update.revision THEN "rejected"
    ELSE IF AtLimit(row, update.action) THEN "error"
    ELSE IF row.status \notin AllowedIn(update.action) THEN "rejected"
    ELSE IF paired THEN "accepted" ELSE "error"

(* The row after update_task; the id of an approval is fresh.              *)
Updated(row, update) ==
    IF Repeated(row, update) \/ Verdict(row, update) # "accepted" THEN row
    ELSE [row EXCEPT
            !.status   = StatusAfter(update.action),
            !.revision = @ + 1,
            !.keys     = @ \cup {update.key},
            !.result   = IF update.action = "complete" THEN update.result ELSE @,
            !.approval = IF update.action = "request_approval"
                         THEN [id |-> row.revision + 1, status |-> "pending"] ELSE @]

TasksInit == task = [t \in Tasks |-> NoTask] /\ granted = [t \in Tasks |-> 0]
             /\ interventions = 0 /\ paired = TRUE

Intervention == interventions < MaxInterventions /\ interventions' = interventions + 1

Create(t) ==
    /\ task[t] = NoTask /\ paired
    /\ task' = [task EXCEPT ![t].status = "submitted", ![t].revision = 1]
    /\ UNCHANGED <<granted, interventions>>

(* The requester asks for a task to be cancelled.                          *)
Cancel(t) ==
    /\ Intervention
    /\ paired /\ Open(task[t]) /\ task[t].status # "cancel_requested"
    /\ task[t].revision < HardLimit
    /\ task' = [task EXCEPT ![t].status = "cancel_requested", ![t].revision = @ + 1]
    /\ UNCHANGED granted

(* The owner of the requester approves or declines what the worker asked.  *)
Decide(t, decision) ==
    /\ paired /\ Open(task[t]) /\ task[t].status = "awaiting_approval"
    /\ task[t].approval.status = "pending"
    /\ task[t].revision < HardLimit
    /\ decision = "approved" => granted[t] < MaxGrants
    /\ task' = [task EXCEPT ![t].status = "working", ![t].revision = @ + 1,
                            ![t].approval.status = decision]
    /\ granted' = [granted EXCEPT ![t] = IF decision = "approved" THEN @ + 1 ELSE @]
    /\ UNCHANGED interventions

(* The time a task may take is over.                                       *)
Expire(t) ==
    /\ Intervention
    /\ Open(task[t])
    /\ task' = [task EXCEPT ![t].expired = TRUE]
    /\ UNCHANGED granted

(* The requesters, their owners and the clock.                             *)
Others ==
    \E t \in Tasks :
        \/ Create(t) \/ Cancel(t) \/ Expire(t)
        \/ \E decision \in {"approved", "declined"} : Decide(t, decision)
=============================================================================
