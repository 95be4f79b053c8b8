---------------------------- MODULE MailboxProofs ----------------------------
(***************************************************************************)
(* Theorems about the mailbox worker: its variables have their types, at   *)
(* most one agent runs, a worker that was asked to stop leaves none        *)
(* behind, attempts need approvals, reports are true, and the worker and   *)
(* the service implement the promise of MailboxAbs.                        *)
(***************************************************************************)
EXTENDS MailboxWorker, TLAPS

(* The first loop of a tick, and its waits for the service.                *)
InRecords == pc \in {"records", "judge"} \/ (pc \in {"update", "get"} /\ tick.back = "records")

(* The second loop, which is entered only when no agent runs.              *)
InTasks == pc \in {"tasks", "spawn"} \/ (pc \in {"update", "get"} /\ tick.back # "records")

(* The tick is about a record that is in the stage its place is for.       *)
Placed ==
    /\ pc \in {"update", "get"} =>
          tick.at \in Tasks /\ record[tick.at].pending # {} /\ tick.back # "rest"
    /\ pc \in {"judge", "update", "get"} => tick.at \notin tick.todo
    /\ pc \in {"judge", "spawn"} => tick.at \in Tasks /\ record[tick.at].stage = "running"
    /\ pc = "judge" /\ tick.outcome # None => turn[tick.at].outcome # None
    /\ pc = "spawn" => turn[tick.at].outcome = None
    /\ InRecords => \A t \in tick.todo : record[t].pending # {} \/ record[t].stage = "running"

(* An agent runs only for a record that says so, and has saved nothing.    *)
Recorded ==
    \A t \in Tasks : Active(t) => record[t].stage = "running" /\ turn[t].outcome = None

(* What the worker knows of running agents: those it has not visited yet,  *)
(* the one it looks at, and none later on.                                 *)
Known ==
    /\ InRecords /\ ~tick.busy =>
          \A t \in Tasks : Active(t) => t \in tick.todo \/ (pc = "judge" /\ tick.at = t)
    /\ InTasks \/ pc = "stopped" => \A t \in Tasks : ~Active(t)

TurnInv == TypeOK /\ Placed /\ Recorded /\ Known /\ OneTurnAtATime
------------------------------------------------------------------------------
(* The operators keep the types.                                           *)

LEMMA NoneTyped == NoTick \in TickType /\ NoTurn \in TurnType /\ NoTask \in RowType /\ NoRecord \in RecordType
<1>1. Summary(NoTask) \in SummaryType
  BY DEF Summary, NoTask, NoApproval, SummaryType, ApprovalType, Statuses, Terminal
<1>2. NoTick \in TickType
  BY <1>1 DEF NoTick, TickType, None
<1> QED
  BY <1>2 DEF NoTurn, TurnType, NoTask, NoApproval, RowType, ApprovalType, Statuses, NoRecord,
     RecordType, Stages, None

LEMMA SummaryTyped ==
  ASSUME NEW row \in RowType
  PROVE  Summary(row) \in SummaryType
BY DEF RowType, Summary, SummaryType

LEMMA UpdatedTyped ==
  ASSUME NEW row \in RowType, NEW update \in UpdateType
  PROVE  Updated(row, update) \in RowType
<1>1. CASE Repeated(row, update) \/ Verdict(row, update) # "accepted"
  BY <1>1 DEF Updated
<1>2. CASE ~(Repeated(row, update) \/ Verdict(row, update) # "accepted")
  <2>1. PICK status \in Statuses : status = StatusAfter(update.action)
    BY DEF UpdateType, StatusAfter, Actions, Statuses, Terminal
  <2>2. update.key \in Nat /\ update.result \in Nat /\ row.revision \in Nat
    BY DEF UpdateType, RowType
  <2>3. PICK keys \in SUBSET Nat : keys = row.keys \cup {update.key}
    BY <2>2 DEF RowType
  <2>4. PICK result \in Nat : result = IF update.action = "complete" THEN update.result ELSE row.result
    BY <2>2 DEF RowType
  <2>5. PICK approval \in ApprovalType :
           approval = IF update.action = "request_approval"
                      THEN [id |-> row.revision + 1, status |-> "pending"] ELSE row.approval
    <3>1. row.approval \in ApprovalType
      BY DEF RowType
    <3>2. [id |-> row.revision + 1, status |-> "pending"] \in ApprovalType
      BY <2>2 DEF ApprovalType
    <3> QED
      BY <3>1, <3>2
  <2>6. PICK revision \in Nat : revision = row.revision + 1
    BY <2>2
  <2>7. Updated(row, update) =
          [row EXCEPT !.status = status, !.revision = revision, !.keys = keys,
                      !.result = result, !.approval = approval]
    BY <1>2, <2>1, <2>3, <2>4, <2>5, <2>6 DEF Updated
  <2> QED
    BY <2>7 DEF RowType
<1> QED
  BY <1>1, <1>2

LEMMA WithUpdateTyped ==
  ASSUME NEW r \in RecordType, NEW summary \in SummaryType, NEW action \in Actions
  PROVE  /\ WithUpdate(r, summary, action) \in RecordType
         /\ WithUpdate(r, summary, action).pending # {}
         /\ WithUpdate(r, summary, action).stage \in {"claiming", "reporting"}
<1> DEFINE update == [revision |-> summary.revision, key |-> r.nonce + 1,
                      action |-> action, result |-> r.attempt]
<1>1. update \in UpdateType
  BY DEF RecordType, SummaryType, UpdateType
<1>2. PICK pending \in SUBSET UpdateType : pending = {update} /\ pending # {}
  BY <1>1
<1>3. PICK nonce \in Nat : nonce = r.nonce + 1
  BY DEF RecordType
<1>4. PICK stage \in {"claiming", "reporting"} :
         stage = IF action = "start" THEN "claiming" ELSE "reporting"
  OBVIOUS
<1>5. WithUpdate(r, summary, action) =
        [r EXCEPT !.pending = pending, !.nonce = nonce, !.stage = stage]
  BY <1>2, <1>3, <1>4 DEF WithUpdate
<1> QED
  BY <1>2, <1>3, <1>4, <1>5 DEF RecordType, Stages

LEMMA AfterAcceptedTyped ==
  ASSUME NEW r \in RecordType, NEW update \in UpdateType, NEW row \in RowType
  PROVE  /\ AfterAccepted(r, update, row) \in RecordType
         /\ AfterAccepted(r, update, row).pending = {}
         /\ AfterAccepted(r, update, row).stage \in {"ready", "approval", "done"}
<1>1. row.approval.id \in Nat
  BY DEF RowType, ApprovalType
<1> QED
  BY <1>1 DEF RecordType, AfterAccepted, Stages

LEMMA PendingTyped ==
  ASSUME TypeOK, NEW t \in Tasks, record[t].pending # {}
  PROVE  Pending(t) \in UpdateType
<1>1. record[t].pending \subseteq UpdateType
  BY DEF TypeOK, RecordType
<1> QED
  BY <1>1 DEF Pending

------------------------------------------------------------------------------
(* How a tick moves.                                                       *)

LEMMA EndTickMoves ==
  ASSUME NEW busy \in BOOLEAN, EndTick(busy)
  PROVE  /\ tick' = NoTick /\ tick' \in TickType
         /\ pc' \in {"rest", "stopped"} /\ (busy => pc' = "rest")
BY NoneTyped DEF EndTick

LEMMA AbortMoves ==
  ASSUME Abort
  PROVE  /\ tick' = NoTick /\ tick' \in TickType /\ record' = record
         /\ pc' \in {"rest", "stopped"} /\ (HasLiveRun => pc' = "rest")
BY NoneTyped DEF Abort

LEMMA CallMoves ==
  ASSUME TypeOK, NEW t \in Tasks, NEW back \in {"records", "tasks", "claimed"}, Call(t, back)
  PROVE  /\ pc' = "update" /\ tick' \in TickType
         /\ tick'.at = t /\ tick'.back = back /\ tick'.todo = tick.todo \ {t}
         /\ tick'.busy = tick.busy
<1>1. tick \in TickType
  BY DEF TypeOK
<1>2. tick.todo \ {t} \in SUBSET Tasks
  BY <1>1 DEF TickType
<1> QED
  BY <1>1, <1>2 DEF Call, TickType

LEMMA ResumeMoves ==
  ASSUME TypeOK, tick.back # "rest", Resume
  PROVE  /\ tick' \in TickType
         /\ tick.back = "claimed" => pc' = "rest"
         /\ tick.back # "claimed" =>
               pc' = tick.back /\ tick'.todo = tick.todo /\ tick'.busy = tick.busy
<1>1. tick \in TickType
  BY DEF TypeOK
<1>2. CASE tick.back = "claimed"
  BY <1>2, EndTickMoves DEF Resume
<1>3. CASE tick.back # "claimed"
  <2>1. tick' = [tick EXCEPT !.at = 0, !.back = "rest"] /\ pc' = tick.back
    BY <1>3 DEF Resume
  <2> QED
    BY <1>1, <1>3, <2>1 DEF TickType
<1> QED
  BY <1>2, <1>3

LEMMA GoOnMoves ==
  ASSUME TypeOK, NEW busy \in BOOLEAN, GoOn(busy)
  PROVE  /\ tick' \in TickType /\ pc' = "records" /\ tick'.todo = tick.todo
         /\ tick'.busy = (tick.busy \/ busy)
<1>1. tick \in TickType
  BY DEF TypeOK
<1> QED
  BY <1>1 DEF GoOn, TickType, None

------------------------------------------------------------------------------
(* Types.                                                                  *)

LEMMA RecordStep ==
  ASSUME TypeOK, NEW t \in Tasks, NEW r \in RecordType,
         r.pending # {} <=> r.stage \in {"claiming", "reporting"},
         record' = [record EXCEPT ![t] = r]
  PROVE  /\ record' \in [Tasks -> RecordType]
         /\ \A s \in Tasks : record'[s].pending # {} <=> record'[s].stage \in {"claiming", "reporting"}
BY DEF TypeOK

LEMMA RowTyped ==
  ASSUME NEW row \in RowType, NEW status \in Statuses
  PROVE  /\ [row EXCEPT !.status = status, !.revision = 1] \in RowType
         /\ [row EXCEPT !.status = status, !.revision = @ + 1] \in RowType
         /\ [row EXCEPT !.expired = TRUE] \in RowType
         /\ \A decision \in {"approved", "declined"} :
               [row EXCEPT !.status = status, !.revision = @ + 1, !.approval.status = decision] \in RowType
<1>1. PICK revision \in Nat : revision = row.revision + 1
  BY DEF RowType
<1>2. ASSUME NEW decision \in {"approved", "declined"}
      PROVE  [row EXCEPT !.status = status, !.revision = @ + 1, !.approval.status = decision] \in RowType
  <2>1. PICK approval \in ApprovalType : approval = [row.approval EXCEPT !.status = decision]
    BY DEF RowType, ApprovalType
  <2>2. [row EXCEPT !.status = status, !.revision = @ + 1, !.approval.status = decision]
          = [row EXCEPT !.status = status, !.revision = revision, !.approval = approval]
    BY <1>1, <2>1
  <2> QED
    BY <2>1, <2>2, <1>1 DEF RowType
<1> QED
  BY <1>1, <1>2 DEF RowType

LEMMA TaskStep ==
  ASSUME TypeOK, Others
  PROVE  task' \in [Tasks -> RowType] /\ granted' \in [Tasks -> Nat] /\ interventions' \in Nat
<1> DEFINE Typed == task' \in [Tasks -> RowType] /\ granted' \in [Tasks -> Nat] /\ interventions' \in Nat
<1>0. task \in [Tasks -> RowType] /\ granted \in [Tasks -> Nat] /\ interventions \in Nat
  BY DEF TypeOK
<1>a. {"submitted", "cancel_requested", "working"} \subseteq Statuses
  BY DEF Statuses
<1>1. ASSUME NEW t \in Tasks, Create(t) PROVE Typed
  <2>1. PICK row \in RowType : row = task[t]
    BY <1>0
  <2>2. PICK new \in RowType : new = [row EXCEPT !.status = "submitted", !.revision = 1]
    BY <1>a, RowTyped
  <2>3. task' = [task EXCEPT ![t] = new]
    BY <1>0, <1>1, <2>1, <2>2 DEF Create
  <2>4. granted' \in [Tasks -> Nat] /\ interventions' \in Nat
    BY <1>0, <1>1 DEF Create
  <2> QED
    BY <1>0, <2>3, <2>4
<1>2. ASSUME NEW t \in Tasks, Cancel(t) PROVE Typed
  <2>1. PICK row \in RowType : row = task[t]
    BY <1>0
  <2>2. PICK new \in RowType : new = [row EXCEPT !.status = "cancel_requested", !.revision = @ + 1]
    BY <1>a, RowTyped
  <2>3. task' = [task EXCEPT ![t] = new]
    BY <1>0, <1>2, <2>1, <2>2 DEF Cancel
  <2>4. granted' \in [Tasks -> Nat] /\ interventions' \in Nat
    BY <1>0, <1>2 DEF Cancel, Intervention
  <2> QED
    BY <1>0, <2>3, <2>4
<1>3. ASSUME NEW t \in Tasks, Expire(t) PROVE Typed
  <2>1. PICK row \in RowType : row = task[t]
    BY <1>0
  <2>2. PICK new \in RowType : new = [row EXCEPT !.expired = TRUE]
    BY <1>a, RowTyped
  <2>3. task' = [task EXCEPT ![t] = new]
    BY <1>0, <1>3, <2>1, <2>2 DEF Expire
  <2>4. granted' \in [Tasks -> Nat] /\ interventions' \in Nat
    BY <1>0, <1>3 DEF Expire, Intervention
  <2> QED
    BY <1>0, <2>3, <2>4
<1>4. ASSUME NEW t \in Tasks, NEW decision \in {"approved", "declined"}, Decide(t, decision)
      PROVE  Typed
  <2>1. PICK row \in RowType : row = task[t]
    BY <1>0
  <2>2. PICK new \in RowType : new = [row EXCEPT !.status = "working", !.revision = @ + 1, !.approval.status = decision]
    BY <1>a, RowTyped
  <2>3. task' = [task EXCEPT ![t] = new]
    BY <1>0, <1>4, <2>1, <2>2 DEF Decide
  <2>4. granted' \in [Tasks -> Nat] /\ interventions' \in Nat
    BY <1>0, <1>4 DEF Decide
  <2> QED
    BY <1>0, <2>3, <2>4
<1> QED
  BY <1>1, <1>2, <1>3, <1>4 DEF Others

------------------------------------------------------------------------------
(* Every action keeps the invariant.  An action that ends a tick leaves    *)
(* the records and the agents as they are.                                 *)

(* No agent is left behind when a worker gives up its tick.                *)
LEMMA AbortLeavesNone ==
  ASSUME TurnInv, Abort, pc' = "stopped", NEW t \in Tasks
  PROVE  ~Active(t)
<1>1. ~HasLiveRun
  BY DEF Abort
<1> QED
  BY <1>1 DEF TurnInv, Recorded, HasLiveRun, Live, Active

LEMMA TickOver ==
  ASSUME TurnInv, record' = record, turn' = turn, tick' = NoTick,
         pc' \in {"rest", "stopped", "crashed"},
         pc' = "stopped" => \A t \in Tasks : ~Active(t)
  PROVE  Placed' /\ Recorded' /\ Known' /\ OneTurnAtATime'
BY DEF TurnInv, Placed, Recorded, Known, OneTurnAtATime, InRecords, InTasks, Active

LEMMA FailedCall ==
  ASSUME TurnInv, FetchFails \/ UpdateRefused \/ UpdateFails \/ GetFails
  PROVE  TurnInv'
<1>1. Abort /\ turn' = turn
  BY DEF FetchFails, UpdateRefused, UpdateFails, GetFails
<1>2. Placed' /\ Recorded' /\ Known' /\ OneTurnAtATime'
  BY <1>1, AbortMoves, AbortLeavesNone, TickOver
<1>3. late' \subseteq [task : Tasks, update : UpdateType]
  <2>1. CASE pc = "update"
    <3>1. tick.at \in Tasks /\ Pending(tick.at) \in UpdateType
      BY <2>1, PendingTyped DEF TurnInv, Placed
    <3> QED
      BY <3>1 DEF FetchFails, UpdateRefused, UpdateFails, GetFails, TurnInv, TypeOK
  <2>2. CASE pc # "update"
    BY <2>2 DEF FetchFails, UpdateRefused, UpdateFails, GetFails, TurnInv, TypeOK
  <2> QED
    BY <2>1, <2>2
<1>4. mishaps' \in 0 .. MaxMishaps
  BY WorkerAssumption DEF FetchFails, UpdateRefused, UpdateFails, GetFails, Mishap, TurnInv, TypeOK
<1>5. UNCHANGED <<taskVars, turn, stopping, paired, launched>>
  BY DEF FetchFails, UpdateRefused, UpdateFails, GetFails
<1>6. TypeOK'
  BY <1>1, <1>3, <1>4, <1>5, AbortMoves DEF TurnInv, TypeOK, Places, taskVars
<1> QED
  BY <1>2, <1>6 DEF TurnInv

LEMMA FetchKeeps ==
  ASSUME TurnInv, Fetch
  PROVE  TurnInv'
<1>0. TypeOK
  BY DEF TurnInv
<1>1. PICK seen \in [Tasks -> SummaryType] : seen = [t \in Tasks |-> Summary(task[t])]
  BY <1>0, SummaryTyped DEF TypeOK
<1>2. PICK todo \in SUBSET Tasks :
         todo = {t \in Tasks : record[t].pending # {} \/ record[t].stage = "running"}
  OBVIOUS
<1>3. tick' = [NoTick EXCEPT !.seen = seen, !.allowed = paired, !.stopping = stopping, !.todo = todo]
  BY <1>1, <1>2 DEF Fetch
<1>4. paired \in BOOLEAN /\ stopping \in BOOLEAN /\ NoTick \in TickType
  BY <1>0, NoneTyped DEF TypeOK
<1>5. tick' \in TickType
  BY <1>3, <1>4 DEF TickType
<1>6. tick'.todo = todo /\ ~tick'.busy /\ pc' = "records"
  BY <1>3 DEF NoTick, Fetch
<1>7. UNCHANGED <<taskVars, record, turn, stopping, paired, late, launched, mishaps>>
  BY DEF Fetch
<1>8. TypeOK'
  BY <1>0, <1>5, <1>6, <1>7 DEF TypeOK, taskVars, Places
<1>9. Placed' /\ Recorded' /\ Known' /\ OneTurnAtATime'
  BY <1>2, <1>6, <1>7 DEF TurnInv, Placed, Recorded, Known, OneTurnAtATime, InRecords, InTasks, Active
<1> QED
  BY <1>8, <1>9 DEF TurnInv

(* The answer to an update takes it out of the record; the tick goes on    *)
(* where it waited.                                                        *)
LEMMA Answered ==
  ASSUME TurnInv, pc \in {"update", "get"}, NEW r \in RecordType,
         r.pending = {}, r.stage # "running",
         record' = [record EXCEPT ![tick.at] = r], turn' = turn, Resume
  PROVE  Placed' /\ Recorded' /\ Known' /\ OneTurnAtATime'
<1>1. TypeOK /\ tick.at \in Tasks /\ record[tick.at].pending # {} /\ tick.back # "rest"
  BY DEF TurnInv, Placed
<1>2. tick.back \in {"records", "tasks", "claimed"} /\ tick.todo \subseteq Tasks
  BY <1>1 DEF TypeOK, TickType
<1>3. record[tick.at].stage # "running"
  BY <1>1 DEF TypeOK
<1>4. \A t \in Tasks : ~(t = tick.at) => record'[t] = record[t]
  BY <1>1 DEF TypeOK
<1>5. Recorded' /\ OneTurnAtATime'
  BY <1>1, <1>3, <1>4 DEF TurnInv, Recorded, OneTurnAtATime, Active
<1>6. CASE tick.back = "claimed"
  <2>1. pc' = "rest"
    BY <1>1, <1>6, ResumeMoves
  <2> QED
    BY <1>5, <2>1 DEF Placed, Known, InRecords, InTasks
<1>7. CASE tick.back = "tasks"
  <2>1. pc' = "tasks"
    BY <1>1, <1>7, ResumeMoves
  <2> QED
    BY <1>5, <1>7, <2>1 DEF TurnInv, Placed, Known, InRecords, InTasks, Active
<1>8. CASE tick.back = "records"
  <2>1. pc' = "records" /\ tick'.todo = tick.todo /\ tick'.busy = tick.busy
    BY <1>1, <1>8, ResumeMoves
  <2>2. InRecords /\ tick.at \notin tick.todo
    BY <1>8 DEF TurnInv, Placed, InRecords
  <2>3. Placed'
    BY <1>2, <1>4, <2>1, <2>2 DEF TurnInv, Placed, InRecords
  <2>4. Known'
    BY <2>1, <2>2 DEF TurnInv, Known, InRecords, InTasks, Active
  <2> QED
    BY <1>5, <2>3, <2>4
<1> QED
  BY <1>2, <1>6, <1>7, <1>8

LEMMA UpdateAcceptedKeeps ==
  ASSUME TurnInv, UpdateAccepted
  PROVE  TurnInv'
<1>1. TypeOK /\ tick.at \in Tasks /\ record[tick.at].pending # {} /\ tick.back # "rest"
  BY DEF TurnInv, Placed, UpdateAccepted
<1>2. PICK update \in UpdateType : update = Pending(tick.at)
  BY <1>1, PendingTyped
<1>3. PICK row \in RowType : row = Updated(task[tick.at], update)
  BY <1>1, UpdatedTyped DEF TypeOK
<1>4. PICK r \in RecordType : r = AfterAccepted(record[tick.at], update, row)
                              /\ r.pending = {} /\ r.stage \in {"ready", "approval", "done"}
  BY <1>1, AfterAcceptedTyped DEF TypeOK
<1>5. /\ task' = [task EXCEPT ![tick.at] = row] /\ record' = [record EXCEPT ![tick.at] = r] /\ Resume
      /\ UNCHANGED <<granted, interventions, turn, stopping, paired, late, launched, mishaps>>
  BY <1>1, <1>2, <1>3, <1>4 DEF UpdateAccepted, TypeOK
<1>6. Placed' /\ Recorded' /\ Known' /\ OneTurnAtATime'
  BY <1>4, <1>5, Answered DEF UpdateAccepted
<1>7. TypeOK'
  <2>1. task' \in [Tasks -> RowType]
    BY <1>1, <1>5 DEF TypeOK
  <2>2. /\ record' \in [Tasks -> RecordType]
        /\ \A s \in Tasks : record'[s].pending # {} <=> record'[s].stage \in {"claiming", "reporting"}
    BY <1>1, <1>4, <1>5, RecordStep
  <2>3. tick' \in TickType /\ pc' \in Places
    BY <1>1, <1>5, ResumeMoves DEF TypeOK, TickType, Places
  <2> QED
    BY <1>1, <1>5, <2>1, <2>2, <2>3 DEF TypeOK
<1> QED
  BY <1>6, <1>7 DEF TurnInv

(* A record with an update to send is not one of a running agent.          *)
LEMMA Sending ==
  ASSUME TurnInv, pc' \in {"update", "get"}, tick'.at \in Tasks,
         NEW r \in RecordType, r.pending # {}, r.stage # "running",
         record' = [record EXCEPT ![tick'.at] = r], turn' = turn,
         ~Active(tick'.at),
         InRecords' => /\ InRecords /\ tick'.todo \subseteq tick.todo /\ tick'.busy = tick.busy
                       /\ \A t \in Tasks : Active(t) /\ ~tick.busy => t \in tick'.todo,
         InTasks' => InTasks,
         tick'.back # "rest", tick'.at \notin tick'.todo
  PROVE  Placed' /\ Recorded' /\ Known' /\ OneTurnAtATime'
<1>1. TypeOK
  BY DEF TurnInv
<1>2. record'[tick'.at] = r /\ \A t \in Tasks : t # tick'.at => record'[t] = record[t]
  BY <1>1 DEF TypeOK
<1>3. Recorded' /\ OneTurnAtATime'
  BY <1>2 DEF TurnInv, Recorded, OneTurnAtATime, Active
<1>4. tick.todo \subseteq Tasks
  BY <1>1 DEF TypeOK, TickType
<1>5. Placed'
  BY <1>2, <1>4 DEF TurnInv, Placed, InRecords
<1>6. Known'
  BY DEF TurnInv, Known, InRecords, InTasks, Active
<1> QED
  BY <1>3, <1>5, <1>6

LEMMA UpdateRejectedKeeps ==
  ASSUME TurnInv, UpdateRejected
  PROVE  TurnInv'
<1>1. pc = "update" /\ pc' = "get"
        /\ UNCHANGED <<taskVars, record, turn, tick, stopping, paired, late, launched, mishaps>>
  BY DEF UpdateRejected
<1>2. TypeOK'
  BY <1>1 DEF TurnInv, TypeOK, taskVars, Places
<1>3. Placed' /\ Recorded' /\ Known' /\ OneTurnAtATime'
  BY <1>1 DEF TurnInv, Placed, Recorded, Known, OneTurnAtATime, InRecords, InTasks, Active
<1> QED
  BY <1>2, <1>3 DEF TurnInv

LEMMA GetAnsweredKeeps ==
  ASSUME TurnInv, GetAnswered
  PROVE  TurnInv'
<1>1. TypeOK /\ tick.at \in Tasks /\ record[tick.at].pending # {} /\ tick.back # "rest"
      /\ tick.at \notin tick.todo /\ pc = "get"
  BY DEF TurnInv, Placed, GetAnswered
<1>2. PICK now \in SummaryType : now = Summary(task[tick.at])
  BY <1>1, SummaryTyped DEF TypeOK
<1>3. PICK idle \in RecordType : idle = [record[tick.at] EXCEPT !.pending = {}]
  <2>1. PICK r \in RecordType : r = record[tick.at]
    BY <1>1 DEF TypeOK
  <2>2. [r EXCEPT !.pending = {}] \in RecordType
    BY DEF RecordType
  <2> QED
    BY <2>1, <2>2
<1>4. UNCHANGED <<taskVars, turn, stopping, paired, late, launched, mishaps>>
  BY DEF GetAnswered
<1>5. CASE /\ record' = [record EXCEPT ![tick.at] =
                 [idle EXCEPT !.stage = IF Finished(now) THEN "done" ELSE "blocked"]]
           /\ Resume
  <2>1. idle.pending = {}
    BY <1>3, <1>1 DEF TypeOK, RecordType
  <2>2. PICK stage \in {"done", "blocked"} : stage = IF Finished(now) THEN "done" ELSE "blocked"
    OBVIOUS
  <2>r. PICK r \in RecordType : r = [idle EXCEPT !.stage = stage] /\ r.pending = {} /\ r.stage = stage
    <3>1. [idle EXCEPT !.stage = stage] \in RecordType
      BY DEF RecordType, Stages
    <3>2. [idle EXCEPT !.stage = stage].pending = {} /\ [idle EXCEPT !.stage = stage].stage = stage
      BY <2>1 DEF RecordType
    <3> QED
      BY <3>1, <3>2
  <2>3. record' = [record EXCEPT ![tick.at] = r]
    BY <1>5, <2>2, <2>r
  <2>4. Placed' /\ Recorded' /\ Known' /\ OneTurnAtATime'
    BY <1>1, <1>4, <1>5, <2>r, <2>3, Answered
  <2>5. /\ record' \in [Tasks -> RecordType]
        /\ \A s \in Tasks : record'[s].pending # {} <=> record'[s].stage \in {"claiming", "reporting"}
    BY <1>1, <2>r, <2>3, RecordStep
  <2>6. tick' \in TickType /\ pc' \in Places
    BY <1>1, <1>5, ResumeMoves DEF TypeOK, TickType, Places
  <2> QED
    BY <1>1, <1>4, <2>4, <2>5, <2>6 DEF TurnInv, TypeOK, taskVars
<1>6. CASE /\ record' = [record EXCEPT ![tick.at] = WithUpdate(idle, now, "cancelled")]
           /\ pc' = "update" /\ UNCHANGED tick
  <2>1. PICK r \in RecordType : r = WithUpdate(idle, now, "cancelled")
            /\ r.pending # {} /\ r.stage \in {"claiming", "reporting"}
    BY WithUpdateTyped DEF Actions
  <2>2. record' = [record EXCEPT ![tick.at] = r]
    BY <1>6, <2>1
  <2>3. record[tick.at].stage # "running" /\ ~Active(tick.at)
    BY <1>1 DEF TypeOK, TurnInv, Recorded
  <2>4. tick.todo \subseteq Tasks
    BY <1>1 DEF TypeOK, TickType
  <2>5. \A t \in Tasks : InRecords /\ ~tick.busy /\ Active(t) => t \in tick.todo
    BY <1>1 DEF TurnInv, Known
  <2>6. InRecords' = InRecords /\ InTasks' = InTasks
    BY <1>1, <1>6 DEF InRecords, InTasks
  <2>7. Placed' /\ Recorded' /\ Known' /\ OneTurnAtATime'
    BY <1>1, <1>4, <1>6, <2>1, <2>2, <2>3, <2>5, <2>6, Sending
  <2>8. /\ record' \in [Tasks -> RecordType]
        /\ \A s \in Tasks : record'[s].pending # {} <=> record'[s].stage \in {"claiming", "reporting"}
    BY <1>1, <2>1, <2>2, RecordStep
  <2> QED
    BY <1>1, <1>4, <1>6, <2>7, <2>8 DEF TurnInv, TypeOK, taskVars, Places
<1> QED
  BY <1>2, <1>3, <1>5, <1>6 DEF GetAnswered

LEMMA FlushKeeps ==
  ASSUME TurnInv, NEW t \in Tasks, Flush(t)
  PROVE  TurnInv'
<1>1. /\ TypeOK /\ pc = "records" /\ t \in tick.todo /\ record[t].pending # {} /\ Call(t, "records")
      /\ UNCHANGED <<taskVars, record, turn, stopping, paired, late, launched, mishaps>>
  BY DEF Flush, TurnInv
<1>2. /\ pc' = "update" /\ tick' \in TickType /\ tick'.at = t /\ tick'.back = "records"
      /\ tick'.todo = tick.todo \ {t} /\ tick'.busy = tick.busy
  BY <1>1, CallMoves
<1>3. TypeOK'
  BY <1>1, <1>2 DEF TypeOK, taskVars, Places
<1>4. ~Active(t)
  BY <1>1 DEF TypeOK, TurnInv, Recorded
<1>5. Placed' /\ Recorded' /\ OneTurnAtATime'
  BY <1>1, <1>2 DEF TurnInv, Placed, Recorded, OneTurnAtATime, InRecords, Active
<1>6. Known'
  BY <1>1, <1>2, <1>4 DEF TurnInv, Known, InRecords, InTasks, Active
<1> QED
  BY <1>3, <1>5, <1>6 DEF TurnInv

(* What a step changes in a turn.                                          *)
LEMMA TurnStep ==
  ASSUME TypeOK, NEW t \in Tasks, NEW new \in TurnType, turn' = [turn EXCEPT ![t] = new]
  PROVE  /\ turn' \in [Tasks -> TurnType] /\ turn'[t] = new
         /\ \A s \in Tasks : s # t => turn'[s] = turn[s]
BY DEF TypeOK

LEMMA TurnTyped ==
  ASSUME NEW old \in TurnType, NEW outcome \in SavedOutcomes \cup {None},
         NEW cancel \in BOOLEAN, NEW recent \in BOOLEAN
  PROVE  /\ [old EXCEPT !.cancel = cancel] \in TurnType
         /\ [old EXCEPT !.recent = recent] \in TurnType
         /\ [old EXCEPT !.outcome = outcome] \in TurnType
         /\ [old EXCEPT !.process = "running"] \in TurnType
         /\ [old EXCEPT !.process = "gone"] \in TurnType
         /\ [old EXCEPT !.process = "gone", !.outcome = outcome, !.recent = recent] \in TurnType
BY DEF TurnType

LEMMA ReadOutcomeKeeps ==
  ASSUME TurnInv, NEW t \in Tasks, ReadOutcome(t)
  PROVE  TurnInv'
<1>1. /\ TypeOK /\ pc = "records" /\ t \in tick.todo /\ record[t].pending = {} /\ pc' = "judge"
      /\ tick \in TickType /\ turn[t] \in TurnType
      /\ UNCHANGED <<taskVars, record, stopping, paired, late, launched, mishaps>>
  BY DEF ReadOutcome, TurnInv, TypeOK
<1>2. PICK old \in TurnType : old = turn[t]
  BY <1>1
<1>3. PICK cancel \in BOOLEAN :
         cancel = (old.cancel \/ ~Allowed(t) \/ Finished(tick.seen[t])
                     \/ tick.seen[t].status = "cancel_requested")
  BY <1>1 DEF TurnType
<1>4. PICK new \in TurnType : new = [old EXCEPT !.cancel = cancel]
  BY TurnTyped
<1>5. turn' = [turn EXCEPT ![t] = new]
  BY <1>2, <1>3, <1>4 DEF ReadOutcome
<1>6. /\ turn' \in [Tasks -> TurnType] /\ turn'[t].process = turn[t].process
      /\ turn'[t].outcome = turn[t].outcome /\ \A s \in Tasks : s # t => turn'[s] = turn[s]
  BY <1>1, <1>2, <1>4, <1>5, TurnStep DEF TurnType
<1>7. PICK todo \in SUBSET Tasks : todo = tick.todo \ {t}
  BY <1>1 DEF TickType
<1>8. PICK outcome \in SavedOutcomes \cup {None} : outcome = turn[t].outcome
  BY <1>1 DEF TurnType
<1>9. tick' = [tick EXCEPT !.todo = todo, !.at = t, !.outcome = outcome]
  BY <1>7, <1>8 DEF ReadOutcome
<1>10. /\ tick' \in TickType /\ tick'.at = t /\ tick'.todo = todo /\ tick'.outcome = outcome
       /\ tick'.busy = tick.busy
  BY <1>1, <1>9 DEF TickType
<1>11. TypeOK'
  BY <1>1, <1>6, <1>10 DEF TypeOK, taskVars, Places
<1>12. \A s \in Tasks : Active(s)' = Active(s) /\ turn'[s].outcome = turn[s].outcome
  BY <1>6 DEF Active
<1>13. Recorded' /\ OneTurnAtATime'
  BY <1>1, <1>12 DEF TurnInv, Recorded, OneTurnAtATime
<1>14. record[t].stage = "running"
  BY <1>1 DEF TurnInv, Placed, InRecords
<1>15. Placed'
  BY <1>1, <1>6, <1>7, <1>8, <1>10, <1>14 DEF TurnInv, Placed, InRecords
<1>16. Known'
  BY <1>1, <1>7, <1>10, <1>12 DEF TurnInv, Known, InRecords, InTasks
<1> QED
  BY <1>11, <1>13, <1>15, <1>16 DEF TurnInv

LEMMA StillRunningKeeps ==
  ASSUME TurnInv, StillRunning
  PROVE  TurnInv'
<1>1. /\ TypeOK /\ pc = "judge" /\ GoOn(TRUE)
      /\ UNCHANGED <<taskVars, record, turn, stopping, paired, late, launched, mishaps>>
  BY DEF StillRunning, TurnInv
<1>2. pc' = "records" /\ tick' \in TickType /\ tick'.todo = tick.todo /\ tick'.busy = TRUE
  BY <1>1, GoOnMoves
<1>3. TypeOK'
  BY <1>1, <1>2 DEF TypeOK, taskVars, Places
<1>4. Placed' /\ Recorded' /\ Known' /\ OneTurnAtATime'
  BY <1>1, <1>2 DEF TurnInv, Placed, Recorded, Known, OneTurnAtATime, InRecords, InTasks, Active
<1> QED
  BY <1>3, <1>4 DEF TurnInv

LEMMA ReportTyped ==
  ASSUME NEW outcome, NEW summary
  PROVE  (IF summary.status = "cancel_requested" THEN "cancelled" ELSE Report(outcome)) \in Actions
BY DEF Report, Actions

(* The agent that is judged has ended.                                     *)
LEMMA JudgeOverKeeps ==
  ASSUME TurnInv, JudgeOver
  PROVE  TurnInv'
<1>1. /\ TypeOK /\ pc = "judge" /\ tick.at \in Tasks /\ tick \in TickType
      /\ record[tick.at] \in RecordType /\ tick.at \notin tick.todo
      /\ record[tick.at].stage = "running"
      /\ UNCHANGED <<taskVars, turn, stopping, paired, late, launched, mishaps>>
  BY DEF JudgeOver, TurnInv, Placed, TypeOK
<1>2. ~Active(tick.at)
  <2>1. tick.outcome # None => turn[tick.at].outcome # None
    BY <1>1 DEF TurnInv, Placed
  <2>2. tick.outcome # None \/ ~Live(tick.at)
    BY DEF JudgeOver
  <2> QED
    BY <1>1, <2>1, <2>2 DEF TurnInv, Recorded, Live, Active
<1>3. \A t \in Tasks : Active(t) /\ ~tick.busy => t \in tick.todo
  BY <1>1, <1>2 DEF TurnInv, Known, InRecords
<1>4. CASE record' = [record EXCEPT ![tick.at].stage = "done"] /\ GoOn(FALSE)
  <2>1. PICK old \in RecordType : old = record[tick.at]
    BY <1>1
  <2>2. PICK r \in RecordType : r = [old EXCEPT !.stage = "done"] /\ r.pending = old.pending /\ r.stage = "done"
    <3>1. [old EXCEPT !.stage = "done"] \in RecordType
      BY DEF RecordType, Stages
    <3>2. [old EXCEPT !.stage = "done"].pending = old.pending /\ [old EXCEPT !.stage = "done"].stage = "done"
      BY DEF RecordType
    <3> QED
      BY <3>1, <3>2
  <2>3. record' = [record EXCEPT ![tick.at] = r]
    BY <1>1, <1>4, <2>1, <2>2
  <2>4. r.pending = {}
    BY <1>1, <2>1, <2>2 DEF TypeOK
  <2>5. /\ record' \in [Tasks -> RecordType]
        /\ \A s \in Tasks : record'[s].pending # {} <=> record'[s].stage \in {"claiming", "reporting"}
    BY <1>1, <2>2, <2>3, <2>4, RecordStep
  <2>6. pc' = "records" /\ tick' \in TickType /\ tick'.todo = tick.todo /\ tick'.busy = tick.busy
    BY <1>1, <1>4, GoOnMoves DEF TickType
  <2>7. TypeOK'
    BY <1>1, <2>5, <2>6 DEF TypeOK, taskVars, Places
  <2>8. \A t \in Tasks : t # tick.at => record'[t] = record[t]
    BY <1>1, <2>3 DEF TypeOK
  <2>9. Recorded' /\ OneTurnAtATime'
    BY <1>1, <1>2, <2>8 DEF TurnInv, Recorded, OneTurnAtATime, Active
  <2>10. Placed'
    BY <1>1, <2>6, <2>8 DEF TurnInv, Placed, InRecords, TickType
  <2>11. Known'
    BY <1>1, <1>3, <2>6 DEF TurnInv, Known, InRecords, InTasks, Active
  <2> QED
    BY <2>7, <2>9, <2>10, <2>11 DEF TurnInv
<1>5. ASSUME NEW action \in Actions,
             record' = [record EXCEPT ![tick.at] = WithUpdate(@, tick.seen[tick.at], action)],
             pc' = "update", tick' = [tick EXCEPT !.back = "records", !.outcome = None]
      PROVE  TurnInv'
  <2>1. tick.seen[tick.at] \in SummaryType
    BY <1>1 DEF TickType
  <2>2. PICK r \in RecordType : /\ r = WithUpdate(record[tick.at], tick.seen[tick.at], action)
                                /\ r.pending # {} /\ r.stage \in {"claiming", "reporting"}
    BY <1>1, <2>1, WithUpdateTyped
  <2>3. record' = [record EXCEPT ![tick.at] = r]
    BY <1>1, <1>5, <2>2
  <2>4. /\ record' \in [Tasks -> RecordType]
        /\ \A s \in Tasks : record'[s].pending # {} <=> record'[s].stage \in {"claiming", "reporting"}
    BY <1>1, <2>2, <2>3, RecordStep
  <2>5. /\ tick' \in TickType /\ tick'.at = tick.at /\ tick'.todo = tick.todo
        /\ tick'.busy = tick.busy /\ tick'.back = "records"
    BY <1>1, <1>5 DEF TickType, None
  <2>6. TypeOK'
    BY <1>1, <1>5, <2>4, <2>5 DEF TypeOK, taskVars, Places
  <2>7. InRecords /\ InRecords' /\ ~InTasks'
    BY <1>1, <1>5, <2>5 DEF InRecords, InTasks
  <2>8. Placed' /\ Recorded' /\ Known' /\ OneTurnAtATime'
    BY <1>1, <1>2, <1>3, <1>5, <2>2, <2>3, <2>5, <2>7, Sending
  <2> QED
    BY <2>6, <2>8 DEF TurnInv
<1> QED
  BY <1>4, <1>5, ReportTyped DEF JudgeOver

(* The second loop begins only when all records were looked at and none    *)
(* was busy.                                                               *)
LEMMA EndKeeps ==
  ASSUME TurnInv, EndRecords \/ EndTasks
  PROVE  TurnInv'
<1>1. /\ TypeOK /\ tick \in TickType /\ pc \in {"records", "tasks"} /\ tick.todo = {}
      /\ UNCHANGED <<taskVars, record, turn, stopping, paired, late, launched, mishaps>>
  BY DEF EndRecords, EndTasks, TurnInv, TypeOK
<1>2. pc = "tasks" \/ ~tick.busy => \A t \in Tasks : ~Active(t)
  BY <1>1 DEF TurnInv, Known, InRecords, InTasks
<1>3. ASSUME NEW busy \in BOOLEAN, EndTick(busy), ~busy => \A t \in Tasks : ~Active(t)
      PROVE  TurnInv'
  <2>1. /\ tick' = NoTick /\ tick' \in TickType
        /\ pc' \in {"rest", "stopped"} /\ (busy => pc' = "rest")
    BY <1>3, EndTickMoves
  <2>2. TypeOK'
    BY <1>1, <2>1 DEF TypeOK, taskVars, Places
  <2>3. Placed' /\ Recorded' /\ Known' /\ OneTurnAtATime'
    BY <1>1, <1>3, <2>1, TickOver
  <2> QED
    BY <2>2, <2>3 DEF TurnInv
<1>4. CASE EndTasks
  BY <1>2, <1>3, <1>4 DEF EndTasks
<1>5. CASE EndRecords /\ EndTick(tick.busy)
  <2>1. tick.busy \in BOOLEAN
    BY <1>1 DEF TickType
  <2> QED
    BY <1>2, <1>3, <1>5, <2>1 DEF EndRecords
<1>6. CASE EndRecords /\ ~tick.busy /\ pc' = "tasks"
           /\ tick' = [tick EXCEPT !.todo = {t \in Tasks : Concerned(t)}]
  <2>1. PICK todo \in SUBSET Tasks : todo = {t \in Tasks : Concerned(t)}
    OBVIOUS
  <2>2. tick' = [tick EXCEPT !.todo = todo]
    BY <1>6, <2>1
  <2>3. tick' \in TickType
    BY <1>1, <2>2 DEF TickType
  <2>4. TypeOK'
    BY <1>1, <1>6, <2>3 DEF TypeOK, taskVars, Places
  <2>5. Placed' /\ Recorded' /\ Known' /\ OneTurnAtATime'
    BY <1>1, <1>2, <1>6 DEF TurnInv, Placed, Recorded, Known, OneTurnAtATime, InRecords, InTasks, Active
  <2> QED
    BY <2>4, <2>5 DEF TurnInv
<1> QED
  BY <1>4, <1>5, <1>6 DEF EndRecords

(* The second loop: no agent runs while the worker visits the tasks.       *)
LEMMA NoneActive ==
  ASSUME TurnInv, pc \in {"tasks", "spawn"}
  PROVE  \A t \in Tasks : ~Active(t)
BY DEF TurnInv, Known, InTasks

LEMMA UpdateKeeps ==
  ASSUME TurnInv, NEW t \in Tasks, NEW action \in Actions, NEW back \in {"tasks", "claimed"},
         pc = "tasks", Update(t, tick.seen[t], action, back),
         UNCHANGED <<taskVars, turn, stopping, paired, late, launched, mishaps>>
  PROVE  TurnInv'
<1>1. TypeOK /\ tick \in TickType /\ record[t] \in RecordType
  BY DEF TurnInv, TypeOK
<1>2. tick.seen[t] \in SummaryType
  BY <1>1 DEF TickType
<1>3. PICK r \in RecordType : /\ r = WithUpdate(record[t], tick.seen[t], action)
                              /\ r.pending # {} /\ r.stage \in {"claiming", "reporting"}
  BY <1>1, <1>2, WithUpdateTyped
<1>4. record' = [record EXCEPT ![t] = r]
  BY <1>1, <1>3 DEF Update
<1>5. /\ record' \in [Tasks -> RecordType]
      /\ \A s \in Tasks : record'[s].pending # {} <=> record'[s].stage \in {"claiming", "reporting"}
  BY <1>1, <1>3, <1>4, RecordStep
<1>6. /\ pc' = "update" /\ tick' \in TickType /\ tick'.at = t /\ tick'.back = back
      /\ tick'.todo = tick.todo \ {t} /\ tick'.busy = tick.busy
  BY <1>1, CallMoves DEF Update
<1>7. TypeOK'
  BY <1>1, <1>5, <1>6 DEF TypeOK, taskVars, Places
<1>8. ~InRecords' /\ InTasks
  BY <1>6 DEF InRecords, InTasks
<1>9. t \notin tick'.todo /\ ~Active(t)
  BY <1>6, NoneActive
<1>10. Placed' /\ Recorded' /\ Known' /\ OneTurnAtATime'
  BY <1>3, <1>4, <1>6, <1>8, <1>9, Sending
<1> QED
  BY <1>7, <1>10 DEF TurnInv

LEMMA VisitKeeps ==
  ASSUME TurnInv, NEW t \in Tasks, Claim(t) \/ Withdraw(t) \/ TakeDecision(t)
  PROVE  TurnInv'
<1>1. CASE Claim(t)
  BY <1>1, UpdateKeeps DEF Claim, First, Actions
<1>2. CASE Withdraw(t)
  BY <1>2, UpdateKeeps DEF Withdraw, First, Actions
<1>3. CASE TakeDecision(t) /\ Update(t, tick.seen[t], "fail", "tasks")
  BY <1>3, UpdateKeeps DEF TakeDecision, First, Actions
<1>4. CASE TakeDecision(t) /\ Decided(t, "approved") /\ UNCHANGED <<pc, tick>>
           /\ record' = [record EXCEPT ![t].stage = "ready"]
  <2>1. /\ TypeOK /\ record[t] \in RecordType /\ record[t].pending = {} /\ pc = "tasks"
        /\ UNCHANGED <<taskVars, turn, stopping, paired, late, launched, mishaps>>
    BY <1>4 DEF TakeDecision, First, Decided, Waiting, TurnInv, TypeOK
  <2>2. PICK old \in RecordType : old = record[t]
    BY <2>1
  <2>3. PICK r \in RecordType : r = [old EXCEPT !.stage = "ready"] /\ r.pending = old.pending /\ r.stage = "ready"
    <3>1. [old EXCEPT !.stage = "ready"] \in RecordType
      BY DEF RecordType, Stages
    <3>2. [old EXCEPT !.stage = "ready"].pending = old.pending /\ [old EXCEPT !.stage = "ready"].stage = "ready"
      BY DEF RecordType
    <3> QED
      BY <3>1, <3>2
  <2>4. record' = [record EXCEPT ![t] = r]
    BY <1>4, <2>1, <2>2, <2>3
  <2>5. r.pending = {}
    BY <2>1, <2>2, <2>3
  <2>6. /\ record' \in [Tasks -> RecordType]
        /\ \A s \in Tasks : record'[s].pending # {} <=> record'[s].stage \in {"claiming", "reporting"}
    BY <2>1, <2>3, <2>4, <2>5, RecordStep
  <2>7. TypeOK'
    BY <1>4, <2>1, <2>6 DEF TypeOK, taskVars
  <2>8. Placed' /\ Recorded' /\ Known' /\ OneTurnAtATime'
    BY <1>4, <2>1, NoneActive DEF Placed, Recorded, Known, OneTurnAtATime, InRecords, InTasks, Active
  <2> QED
    BY <2>7, <2>8 DEF TurnInv
<1> QED
  BY <1>1, <1>2, <1>3, <1>4 DEF TakeDecision

LEMMA DispatchKeeps ==
  ASSUME TurnInv, NEW t \in Tasks, Dispatch(t)
  PROVE  TurnInv'
<1>1. /\ TypeOK /\ tick \in TickType /\ record[t] \in RecordType /\ record[t].pending = {}
      /\ pc = "tasks" /\ pc' = "spawn"
      /\ UNCHANGED <<taskVars, stopping, paired, late, launched, mishaps>>
  BY DEF Dispatch, First, Startable, Waiting, TurnInv, TypeOK
<1>2. PICK old \in RecordType : old = record[t]
  BY <1>1
<1>3. PICK attempt \in Nat : attempt = old.attempt + 1
  BY DEF RecordType
<1>4. PICK r \in RecordType : /\ r = [old EXCEPT !.stage = "running", !.attempt = attempt]
                              /\ r.pending = old.pending /\ r.stage = "running"
  <2>1. [old EXCEPT !.stage = "running", !.attempt = attempt] \in RecordType
    BY DEF RecordType, Stages
  <2>2. /\ [old EXCEPT !.stage = "running", !.attempt = attempt].pending = old.pending
        /\ [old EXCEPT !.stage = "running", !.attempt = attempt].stage = "running"
    BY DEF RecordType
  <2> QED
    BY <2>1, <2>2
<1>5. record' = [record EXCEPT ![t] = r]
  BY <1>1, <1>2, <1>3, <1>4 DEF Dispatch
<1>6. /\ record' \in [Tasks -> RecordType] /\ record'[t].stage = "running"
      /\ \A s \in Tasks : record'[s].pending # {} <=> record'[s].stage \in {"claiming", "reporting"}
  BY <1>1, <1>2, <1>4, <1>5, RecordStep DEF TypeOK
<1>7. PICK new \in TurnType : /\ new = [NoTurn EXCEPT !.recent = TRUE]
                              /\ new.process = "none" /\ new.outcome = None
  <2>1. [NoTurn EXCEPT !.recent = TRUE] \in TurnType
    BY NoneTyped, TurnTyped
  <2> QED
    BY <2>1 DEF NoTurn
<1>8. turn' = [turn EXCEPT ![t] = new]
  BY <1>7 DEF Dispatch
<1>9. /\ turn' \in [Tasks -> TurnType] /\ turn'[t] = new
      /\ \A s \in Tasks : s # t => turn'[s] = turn[s]
  BY <1>1, <1>8, TurnStep
<1>10. tick' \in TickType /\ tick'.at = t
  BY <1>1 DEF Dispatch, TickType
<1>11. TypeOK'
  BY <1>1, <1>6, <1>9, <1>10 DEF TypeOK, taskVars, Places
<1>12. \A s \in Tasks : ~Active(s)'
  BY <1>1, <1>7, <1>9, NoneActive DEF Active
<1>13. Recorded' /\ OneTurnAtATime' /\ Known'
  BY <1>1, <1>12 DEF Recorded, OneTurnAtATime, Known, InRecords
<1>14. Placed'
  BY <1>1, <1>6, <1>7, <1>9, <1>10 DEF Placed, InRecords
<1> QED
  BY <1>11, <1>13, <1>14 DEF TurnInv

LEMMA SpawnKeeps ==
  ASSUME TurnInv, Spawn
  PROVE  TurnInv'
<1>1. /\ TypeOK /\ pc = "spawn" /\ tick.at \in Tasks /\ record[tick.at].stage = "running"
      /\ turn[tick.at].outcome = None
      /\ UNCHANGED <<taskVars, record, stopping, paired, late>>
  BY DEF Spawn, TurnInv, Placed
<1>2. tick' = NoTick /\ tick' \in TickType /\ pc' = "rest"
  BY EndTickMoves DEF Spawn
<1>3. PICK old \in TurnType : old = turn[tick.at]
  BY <1>1 DEF TypeOK
<1>4. /\ launched' \in [Tasks -> Nat] /\ mishaps' \in 0 .. MaxMishaps
  BY <1>1, WorkerAssumption DEF Spawn, Mishap, TypeOK
<1>5. PICK new \in TurnType : /\ turn' = [turn EXCEPT ![tick.at] = new]
                              /\ new.process = "running" => new.outcome = None
  <2>1. CASE turn' = [turn EXCEPT ![tick.at].process = "running"]
    <3>1. PICK new \in TurnType : new = [old EXCEPT !.process = "running"] /\ new.outcome = old.outcome
      <4>1. [old EXCEPT !.process = "running"] \in TurnType
        BY TurnTyped
      <4> QED
        BY <4>1 DEF TurnType
    <3>2. turn' = [turn EXCEPT ![tick.at] = new]
      BY <1>3, <2>1, <3>1
    <3> QED
      BY <1>1, <1>3, <3>1, <3>2
  <2>2. CASE turn' = [turn EXCEPT ![tick.at].outcome = "error"]
    <3>1. PICK new \in TurnType : new = [old EXCEPT !.outcome = "error"] /\ new.process = old.process
      <4>1. [old EXCEPT !.outcome = "error"] \in TurnType
        BY TurnTyped DEF SavedOutcomes
      <4> QED
        BY <4>1 DEF TurnType
    <3>2. turn' = [turn EXCEPT ![tick.at] = new]
      BY <1>3, <2>2, <3>1
    <3>3. new.process # "running"
      BY <1>1, <1>3, <3>1, NoneActive DEF Active
    <3> QED
      BY <3>2, <3>3
  <2> QED
    BY <2>1, <2>2 DEF Spawn
<1>6. /\ turn' \in [Tasks -> TurnType] /\ turn'[tick.at] = new
      /\ \A s \in Tasks : s # tick.at => turn'[s] = turn[s]
  BY <1>1, <1>5, TurnStep
<1>7. TypeOK'
  BY <1>1, <1>2, <1>4, <1>6 DEF TypeOK, taskVars, Places
<1>8. \A s \in Tasks : s # tick.at => ~Active(s)'
  BY <1>1, <1>6, NoneActive DEF Active
<1>9. Recorded' /\ OneTurnAtATime'
  BY <1>1, <1>5, <1>6, <1>8 DEF Recorded, OneTurnAtATime, Active
<1>10. Placed' /\ Known'
  BY <1>2 DEF Placed, Known, InRecords, InTasks
<1> QED
  BY <1>7, <1>9, <1>10 DEF TurnInv

(* What the agents do: none starts by itself, and an outcome stays.        *)
LEMMA AgentMoves ==
  ASSUME TurnInv, NEW t \in Tasks, NEW new \in TurnType, turn' = [turn EXCEPT ![t] = new],
         new.process = "running" => Active(t),
         new.outcome = turn[t].outcome \/ (Active(t) /\ new.process = "gone" /\ new.outcome # None),
         UNCHANGED <<taskVars, record, pc, tick, stopping, paired, late, launched>>,
         mishaps' \in 0 .. MaxMishaps
  PROVE  TurnInv'
<1>1. TypeOK
  BY DEF TurnInv
<1>2. /\ turn' \in [Tasks -> TurnType] /\ turn'[t] = new
      /\ \A s \in Tasks : s # t => turn'[s] = turn[s]
  BY <1>1, TurnStep
<1>3. TypeOK'
  BY <1>1, <1>2 DEF TypeOK, taskVars
<1>4. \A s \in Tasks : Active(s)' => Active(s)
  BY <1>2 DEF Active
<1>5. Recorded' /\ OneTurnAtATime' /\ Known'
  BY <1>2, <1>4 DEF TurnInv, Recorded, OneTurnAtATime, Known, InRecords, InTasks, Active
<1>6. pc = "spawn" => new.outcome = turn[t].outcome
  BY NoneActive
<1>7. Placed'
  BY <1>2, <1>6 DEF TurnInv, Placed, InRecords
<1> QED
  BY <1>3, <1>5, <1>7 DEF TurnInv

LEMMA AgentKeeps ==
  ASSUME TurnInv, NEW t \in Tasks, AgentEnds(t) \/ AgentLost(t) \/ GraceEnds(t)
  PROVE  TurnInv'
<1>a. TypeOK /\ MaxMishaps \in Nat /\ mishaps \in 0 .. MaxMishaps
  BY WorkerAssumption DEF TurnInv, TypeOK
<1>b. mishaps' = mishaps \/ (mishaps < MaxMishaps /\ mishaps' = mishaps + 1)
  BY DEF AgentEnds, AgentLost, GraceEnds, Mishap
<1>c. UNCHANGED <<taskVars, record, pc, tick, stopping, paired, late, launched>>
  BY DEF AgentEnds, AgentLost, GraceEnds
<1>1. /\ TypeOK /\ mishaps' \in 0 .. MaxMishaps
      /\ UNCHANGED <<taskVars, record, pc, tick, stopping, paired, late, launched>>
  BY <1>a, <1>b, <1>c
<1>2. PICK old \in TurnType : old = turn[t]
  BY <1>1 DEF TypeOK
<1>3. CASE AgentEnds(t)
  <2>1. PICK outcome \in Outcomes[t] \cup (IF turn[t].cancel THEN {"error"} ELSE {}) :
           turn' = [turn EXCEPT ![t].process = "gone", ![t].outcome = outcome,
                                ![t].recent = @ /\ pc = "judge"]
    BY <1>3 DEF AgentEnds
  <2>2. outcome \in SavedOutcomes /\ outcome # None
    BY WorkerAssumption DEF SavedOutcomes, None
  <2>3. PICK recent \in BOOLEAN : recent = (old.recent /\ pc = "judge")
    BY DEF TurnType
  <2>4. PICK new \in TurnType : /\ new = [old EXCEPT !.process = "gone", !.outcome = outcome, !.recent = recent]
                                /\ new.process = "gone" /\ new.outcome = outcome
    <3>1. [old EXCEPT !.process = "gone", !.outcome = outcome, !.recent = recent] \in TurnType
      BY <2>2, TurnTyped
    <3>2. /\ [old EXCEPT !.process = "gone", !.outcome = outcome, !.recent = recent].process = "gone"
          /\ [old EXCEPT !.process = "gone", !.outcome = outcome, !.recent = recent].outcome = outcome
      BY DEF TurnType
    <3> QED
      BY <3>1, <3>2
  <2>5. turn' = [turn EXCEPT ![t] = new]
    BY <1>2, <2>1, <2>3, <2>4
  <2>6. Active(t)
    BY <1>3 DEF AgentEnds, Active
  <2> QED
    BY <1>1, <2>2, <2>4, <2>5, <2>6, AgentMoves
<1>4. CASE AgentLost(t)
  <2>1. PICK new \in TurnType : /\ new = [old EXCEPT !.process = "gone"]
                                /\ new.process = "gone" /\ new.outcome = old.outcome
    <3>1. [old EXCEPT !.process = "gone"] \in TurnType
      BY TurnTyped
    <3> QED
      BY <3>1 DEF TurnType
  <2>2. turn' = [turn EXCEPT ![t] = new]
    BY <1>2, <1>4, <2>1 DEF AgentLost
  <2> QED
    BY <1>1, <1>2, <2>1, <2>2, AgentMoves
<1>5. CASE GraceEnds(t)
  <2>1. PICK new \in TurnType : /\ new = [old EXCEPT !.recent = FALSE]
                                /\ new.process = old.process /\ new.outcome = old.outcome
    <3>1. [old EXCEPT !.recent = FALSE] \in TurnType
      BY TurnTyped
    <3> QED
      BY <3>1 DEF TurnType
  <2>2. turn' = [turn EXCEPT ![t] = new]
    BY <1>2, <1>5, <2>1 DEF GraceEnds
  <2> QED
    BY <1>1, <1>2, <2>1, <2>2, AgentMoves DEF Active
<1> QED
  BY <1>3, <1>4, <1>5

LEMMA ProcessKeeps ==
  ASSUME TurnInv, Stop \/ Crash \/ Start \/ Unpair
  PROVE  TurnInv'
<1>1. TypeOK /\ record' = record /\ turn' = turn
  BY DEF Stop, Crash, Start, Unpair, TurnInv
<1>2. CASE Stop \/ Unpair
  <2>1. pc' = pc /\ tick' = tick
    BY <1>2 DEF Stop, Unpair
  <2>2. TypeOK'
    <3>1. interventions' \in Nat /\ stopping' \in BOOLEAN /\ paired' \in BOOLEAN
      <4>1. interventions' \in Nat
        BY <1>1, <1>2 DEF Stop, Unpair, Intervention, TypeOK
      <4>2. CASE Stop
        BY <1>1, <4>1, <4>2 DEF Stop, TypeOK
      <4>3. CASE Unpair
        <5>1. paired' = FALSE /\ stopping' = stopping /\ stopping \in BOOLEAN
          BY <1>1, <4>3, Zenon DEF Unpair, TypeOK
        <5>2. paired' \in BOOLEAN
          BY <5>1, Zenon
        <5>3. stopping' \in BOOLEAN
          BY <5>1, Zenon
        <5> QED
          BY <4>1, <5>2, <5>3
      <4> QED
        BY <1>2, <4>2, <4>3
    <3>2. UNCHANGED <<task, granted, late, launched, mishaps>>
      BY <1>2 DEF Stop, Unpair
    <3> QED
      BY <1>1, <2>1, <3>1, <3>2 DEF TypeOK
  <2>3. Placed' /\ Recorded' /\ Known' /\ OneTurnAtATime'
    BY <1>1, <2>1 DEF TurnInv, Placed, Recorded, Known, OneTurnAtATime, InRecords, InTasks, Active
  <2> QED
    BY <2>2, <2>3 DEF TurnInv
<1>3. CASE Crash
  <2>1. TypeOK'
    BY <1>1, <1>3, WorkerAssumption, NoneTyped DEF Crash, Mishap, TypeOK, taskVars, Places
  <2>2. Placed' /\ Recorded' /\ Known' /\ OneTurnAtATime'
    BY <1>1, <1>3, TickOver DEF Crash
  <2> QED
    BY <2>1, <2>2 DEF TurnInv
<1>4. CASE Start
  <2>1. TypeOK'
    BY <1>1, <1>4 DEF Start, TypeOK, taskVars, Places
  <2>2. Placed' /\ Recorded' /\ Known' /\ OneTurnAtATime'
    BY <1>1, <1>4 DEF Start, TurnInv, Placed, Recorded, Known, OneTurnAtATime, InRecords, InTasks, Active
  <2> QED
    BY <2>1, <2>2 DEF TurnInv
<1> QED
  BY <1>2, <1>3, <1>4

(* The service and those who use it touch neither records nor agents.      *)
LEMMA ServiceKeeps ==
  ASSUME TurnInv,
         (\E request \in late : Late(request)) \/ (Others /\ UNCHANGED workerVars)
           \/ UNCHANGED vars
  PROVE  TurnInv'
<1>1. TypeOK /\ UNCHANGED <<record, turn, pc, tick, stopping, paired, launched, mishaps>>
  BY DEF Late, workerVars, vars, TurnInv
<1>2. /\ task' \in [Tasks -> RowType] /\ granted' \in [Tasks -> Nat] /\ interventions' \in Nat
      /\ late' \subseteq [task : Tasks, update : UpdateType]
  <2>1. ASSUME NEW request \in late, Late(request)
        PROVE  task' \in [Tasks -> RowType]
    <3>1. request.task \in Tasks /\ request.update \in UpdateType
      BY <1>1 DEF TypeOK
    <3>2. PICK row \in RowType : row = Updated(task[request.task], request.update)
      BY <1>1, <3>1, UpdatedTyped DEF TypeOK
    <3>3. task' = [task EXCEPT ![request.task] = row]
      BY <2>1, <3>2 DEF Late
    <3> QED
      BY <1>1, <3>1, <3>3 DEF TypeOK
  <2>2. CASE \E request \in late : Late(request)
    BY <1>1, <2>1, <2>2 DEF Late, TypeOK
  <2>3. CASE Others /\ UNCHANGED workerVars
    BY <1>1, <2>3, TaskStep DEF TypeOK, workerVars
  <2>4. CASE UNCHANGED vars
    BY <1>1, <2>4 DEF TypeOK, vars, taskVars, workerVars
  <2> QED
    BY <2>2, <2>3, <2>4
<1>3. TypeOK'
  BY <1>1, <1>2 DEF TypeOK
<1>4. Placed' /\ Recorded' /\ Known' /\ OneTurnAtATime'
  BY <1>1 DEF TurnInv, Placed, Recorded, Known, OneTurnAtATime, InRecords, InTasks, Active
<1> QED
  BY <1>3, <1>4 DEF TurnInv

------------------------------------------------------------------------------
LEMMA TurnInit == Init => TurnInv
<1> SUFFICES ASSUME Init PROVE TurnInv
  OBVIOUS
<1>1. TypeOK
  <2>1. task \in [Tasks -> RowType] /\ record \in [Tasks -> RecordType] /\ turn \in [Tasks -> TurnType]
    BY NoneTyped DEF Init, TasksInit
  <2>2. granted \in [Tasks -> Nat] /\ launched \in [Tasks -> Nat] /\ interventions \in Nat
    BY DEF Init, TasksInit
  <2>3. tick \in TickType /\ pc \in Places /\ mishaps \in 0 .. MaxMishaps
    BY NoneTyped, WorkerAssumption DEF Init, Places
  <2>4. \A t \in Tasks :
           record[t].pending # {} <=> record[t].stage \in {"claiming", "reporting"}
    BY DEF Init, NoRecord
  <2>5. stopping \in BOOLEAN /\ paired \in BOOLEAN /\ late = {}
    BY DEF Init, TasksInit
  <2> QED
    BY <2>1, <2>2, <2>3, <2>4, <2>5 DEF TypeOK
<1>2. Placed /\ Recorded /\ Known /\ OneTurnAtATime
  BY DEF Init, Placed, Recorded, Known, OneTurnAtATime, InRecords, InTasks, Active, NoTurn
<1> QED
  BY <1>1, <1>2 DEF TurnInv

LEMMA TurnStays == TurnInv /\ [Next]_vars => TurnInv'
<1> SUFFICES ASSUME TurnInv, [Next]_vars PROVE TurnInv'
  OBVIOUS
<1>1. CASE Calls
  BY <1>1, FetchKeeps, UpdateAcceptedKeeps, UpdateRejectedKeeps, GetAnsweredKeeps, FailedCall DEF Calls
<1>2. CASE Records
  BY <1>2, FlushKeeps, ReadOutcomeKeeps, StillRunningKeeps, JudgeOverKeeps, EndKeeps DEF Records
<1>3. CASE Visits
  BY <1>3, VisitKeeps, DispatchKeeps, SpawnKeeps, EndKeeps DEF Visits
<1>4. CASE Start \/ Failures
  BY <1>4, FailedCall, ProcessKeeps, AgentKeeps, ServiceKeeps DEF Failures
<1>5. CASE \E t \in Tasks : AgentStep(t)
  BY <1>5, AgentKeeps DEF AgentStep
<1>6. CASE (Others /\ UNCHANGED workerVars) \/ UNCHANGED vars
  BY <1>6, ServiceKeeps
<1> QED
  BY <1>1, <1>2, <1>3, <1>4, <1>5, <1>6 DEF Next, WorkerStep

(* The inductive invariant: where the worker is, what its records say and  *)
(* which agents run fit together.                                          *)
THEOREM TurnInvariant == Spec => []TurnInv
BY TurnInit, TurnStays, PTL DEF Spec

(* Every variable keeps its type, whatever fails and whenever the worker   *)
(* is restarted; a record has an update to send just as long as its stage  *)
(* says so.                                                                *)
THEOREM TypeCorrect == Spec => []TypeOK
<1>1. TurnInv => TypeOK
  BY DEF TurnInv
<1> QED
  BY <1>1, TurnInvariant, PTL

(* The agents of any number of tasks run one at a time: a restarted worker *)
(* finds the agent that outlived it before it starts another.              *)
THEOREM OneTurn == Spec => []OneTurnAtATime
<1>1. TurnInv => OneTurnAtATime
  BY DEF TurnInv
<1> QED
  BY <1>1, TurnInvariant, PTL

(* A worker that was asked to stop leaves no agent running, whether its    *)
(* last tick was completed or given up.                                    *)
THEOREM StopsClean == Spec => []StopsBetweenTurns
<1>1. TurnInv => StopsBetweenTurns
  BY DEF TurnInv, Known, StopsBetweenTurns
<1> QED
  BY <1>1, TurnInvariant, PTL
------------------------------------------------------------------------------
(* What a task, its record and its agent say of each other.                *)

(* An update that can change the row no more, neither now nor later.       *)
Moot(row, u) ==
    \/ u.revision < row.revision
    \/ row.status \in Terminal \/ row.expired
    \/ row.status \notin AllowedIn(u.action)

Reports == {"complete", "fail", "cancelled"}

(* The record r waits for the decision the row shows, or for the answer    *)
(* to a request that the row has taken.                                    *)
Asked(row, r) ==
    \/ r.stage = "approval"
    \/ \E u \in r.pending : u.action = "request_approval" /\ u.key \in row.keys

(* A record, its row and the number of approvals granted: attempts are     *)
(* bounded by these, an approval is used once, and only the record's       *)
(* update ends the task.                                                   *)
Fits(row, r, g) ==
    /\ row.approval.id <= row.revision
    /\ \A k \in row.keys : k <= r.nonce
    /\ \A u \in r.pending : u.key <= r.nonce /\ u.revision <= row.revision
    /\ \A u, v \in r.pending : u = v
    /\ r.attempt <= 1 + g
    /\ r.stage = "none" => r.attempt = 0
    /\ \A u \in r.pending : u.action = "start" => r.attempt = 0
    /\ r.stage = "ready" => r.attempt <= g
    /\ r.stage = "approval" => r.approvalId = row.approval.id
    /\ Asked(row, r) /\ row.approval.status = "approved" => r.attempt <= g
    /\ row.status \in Terminal =>
          \/ r.stage \in {"done", "blocked"}
          \/ \E u \in r.pending : u.key \in row.keys /\ u.action \in Reports

(* Success is reported, and shown, of the outcome o of the last attempt.   *)
Told(row, r, o) ==
    /\ \A u \in r.pending : u.action = "complete" => u.result = r.attempt /\ o = "completed"
    /\ row.status = "completed" => row.result = r.attempt /\ o = "completed"

(* A request that may still arrive is the record's, or has no effect.      *)
LateFits(row, r, u) ==
    /\ u.key <= r.nonce /\ u.revision <= row.revision
    /\ u \in r.pending \/ u.key \in row.keys \/ Moot(row, u)

(* What a tick has seen of a row is true or older.                         *)
SeenFits(row, seen) ==
    /\ seen.revision <= row.revision /\ seen.approval.id <= row.revision
    /\ seen.approval.id = row.approval.id /\ seen.approval.status = "approved"
          => row.approval.status = "approved"

(* How a row changes.                                                      *)
Newer(row, n) ==
    /\ row.revision <= n.revision /\ row.keys \subseteq n.keys
    /\ n.status # row.status => row.revision < n.revision
    /\ row.status \in Terminal => n.status = row.status
    /\ row.expired => n.expired
    /\ \/ /\ n.approval.id = row.approval.id
          /\ row.approval.status = "approved" => n.approval.status = "approved"
       \/ row.revision < n.approval.id

LEMMA NewerLate ==
  ASSUME NEW row \in RowType, NEW n \in RowType, NEW r, NEW u \in UpdateType,
         Newer(row, n), LateFits(row, r, u)
  PROVE  LateFits(n, r, u)
<1>1. u.revision \in Nat /\ row.revision \in Nat /\ n.revision \in Nat
  BY DEF RowType, UpdateType
<1>2. Moot(row, u) => Moot(n, u)
  <2>1. u.revision < row.revision => u.revision < n.revision
    BY <1>1 DEF Newer
  <2>2. row.status # n.status /\ u.revision <= row.revision => u.revision < n.revision
    BY <1>1 DEF Newer
  <2> QED
    BY <2>1, <2>2 DEF Newer, Moot, LateFits
<1> QED
  BY <1>1, <1>2 DEF Newer, LateFits

LEMMA NewerSeen ==
  ASSUME NEW row \in RowType, NEW n \in RowType, NEW seen \in SummaryType,
         Newer(row, n), SeenFits(row, seen)
  PROVE  SeenFits(n, seen)
<1>1. /\ seen.revision \in Nat /\ row.revision \in Nat /\ n.revision \in Nat
      /\ seen.approval.id \in Nat /\ n.approval.id \in Nat
  BY DEF RowType, SummaryType, ApprovalType
<1>2. seen.revision <= n.revision /\ seen.approval.id <= n.revision
  BY <1>1 DEF Newer, SeenFits
<1>3. row.revision < n.approval.id => seen.approval.id # n.approval.id
  BY <1>1 DEF SeenFits
<1> QED
  BY <1>2, <1>3 DEF Newer, SeenFits

LEMMA UpdatedFields ==
  ASSUME NEW row \in RowType, NEW u \in UpdateType, NEW n, n = Updated(row, u)
  PROVE  \/ n = row /\ (u.key \in row.keys \/ Verdict(row, u) # "accepted")
         \/ /\ u.key \notin row.keys /\ Verdict(row, u) = "accepted" /\ Open(row)
            /\ u.revision = row.revision /\ row.status \in AllowedIn(u.action)
            /\ n.status = StatusAfter(u.action) /\ n.revision = row.revision + 1
            /\ n.keys = row.keys \cup {u.key} /\ n.expired = row.expired
            /\ n.result = IF u.action = "complete" THEN u.result ELSE row.result
            /\ u.action = "request_approval" =>
                  n.approval.id = row.revision + 1 /\ n.approval.status = "pending"
            /\ u.action # "request_approval" => n.approval = row.approval
<1>1. CASE Repeated(row, u) \/ Verdict(row, u) # "accepted"
  BY <1>1 DEF Updated, Repeated
<1>2. CASE ~(Repeated(row, u) \/ Verdict(row, u) # "accepted")
  <2>1. PICK status : status = StatusAfter(u.action)
    OBVIOUS
  <2>2. PICK keys : keys = row.keys \cup {u.key}
    OBVIOUS
  <2>3. PICK result : result = IF u.action = "complete" THEN u.result ELSE row.result
    OBVIOUS
  <2>4. PICK approval : approval = IF u.action = "request_approval"
                                   THEN [id |-> row.revision + 1, status |-> "pending"]
                                   ELSE row.approval
    OBVIOUS
  <2>5. PICK revision : revision = row.revision + 1
    OBVIOUS
  <2>6. n = [row EXCEPT !.status = status, !.revision = revision, !.keys = keys,
                        !.result = result, !.approval = approval]
    BY <1>2, <2>1, <2>2, <2>3, <2>4, <2>5 DEF Updated
  <2>7. /\ n.status = status /\ n.revision = revision /\ n.keys = keys
        /\ n.result = result /\ n.approval = approval /\ n.expired = row.expired
    BY <2>6 DEF RowType
  <2>8. Open(row) /\ u.revision = row.revision /\ row.status \in AllowedIn(u.action)
    BY <1>2 DEF Verdict
  <2> QED
    BY <1>2, <2>1, <2>2, <2>3, <2>4, <2>5, <2>7, <2>8 DEF Repeated
<1> QED
  BY <1>1, <1>2

LEMMA UpdatedNewer ==
  ASSUME NEW row \in RowType, NEW u \in UpdateType
  PROVE  Newer(row, Updated(row, u))
<1>1. PICK n \in RowType : n = Updated(row, u)
  BY UpdatedTyped
<1>2. row.revision \in Nat /\ row.revision <= row.revision /\ row.revision < row.revision + 1
  BY DEF RowType
<1>3. CASE n = row
  BY <1>1, <1>2, <1>3 DEF Newer
<1>4. CASE n # row
  BY <1>1, <1>2, <1>4, UpdatedFields DEF Newer, Open
<1> QED
  BY <1>3, <1>4

(* A request that arrives, in time or late, leaves the record fitting.     *)
LEMMA UpdatedFits ==
  ASSUME NEW row \in RowType, NEW r \in RecordType, NEW g \in Nat, NEW o, NEW u \in UpdateType,
         r.pending # {} <=> r.stage \in {"claiming", "reporting"},
         Fits(row, r, g), Told(row, r, o), LateFits(row, r, u)
  PROVE  Fits(Updated(row, u), r, g) /\ Told(Updated(row, u), r, o)
<1>1. PICK n \in RowType : n = Updated(row, u)
  BY UpdatedTyped
<1>2. CASE n = row
  BY <1>1, <1>2
<1>3. CASE n # row
  <2>1. /\ u.key \notin row.keys /\ Open(row)
        /\ u.revision = row.revision /\ row.status \in AllowedIn(u.action)
        /\ n.status = StatusAfter(u.action) /\ n.revision = row.revision + 1
        /\ n.keys = row.keys \cup {u.key}
        /\ n.result = IF u.action = "complete" THEN u.result ELSE row.result
        /\ u.action = "request_approval" =>
              n.approval.id = row.revision + 1 /\ n.approval.status = "pending"
        /\ u.action # "request_approval" => n.approval = row.approval
    BY <1>1, <1>3, UpdatedFields
  <2>2. /\ row.revision \in Nat /\ u.revision \in Nat /\ row.approval.id \in Nat
        /\ u.action \in Actions
    BY DEF RowType, UpdateType, ApprovalType
  <2>3. ~Moot(row, u)
    BY <2>1, <2>2 DEF Moot, Open
  <2>4. u \in r.pending /\ u.key <= r.nonce /\ \A v \in r.pending : v = u
    BY <2>1, <2>3 DEF LateFits, Fits
  <2>5. r.stage \in {"claiming", "reporting"}
    BY <2>4
  <2>6. n.approval.id <= n.revision
    BY <2>1, <2>2 DEF Fits
  <2>7. \A k \in n.keys : k <= r.nonce
    BY <2>1, <2>4 DEF Fits
  <2>8. \A v \in r.pending : v.key <= r.nonce /\ v.revision <= n.revision
    BY <2>1, <2>2, <2>4
  <2>9. ~(Asked(n, r) /\ n.approval.status = "approved")
    BY <2>1, <2>4, <2>5 DEF Asked
  <2>10. n.status \in Terminal => u.action \in Reports
    BY <2>1, <2>2 DEF StatusAfter, Terminal, Actions, Reports
  <2>11. Fits(n, r, g)
    BY <2>1, <2>4, <2>5, <2>6, <2>7, <2>8, <2>9, <2>10 DEF Fits
  <2>12. n.status = "completed" => u.action = "complete"
    BY <2>1, <2>2 DEF StatusAfter, Actions
  <2>13. Told(n, r, o)
    BY <2>1, <2>4, <2>12 DEF Told
  <2> QED
    BY <1>1, <2>11, <2>13
<1> QED
  BY <1>2, <1>3

(* The requesters, their owners and the clock.                             *)
LEMMA ServedFits ==
  ASSUME NEW row \in RowType, NEW r \in RecordType, NEW g \in Nat, NEW o,
         NEW n \in RowType, NEW g2 \in Nat, Fits(row, r, g), Told(row, r, o),
         n.keys = row.keys, n.result = row.result,
         row.expired => n.expired,
         \/ n.status = row.status /\ n.revision = row.revision
         \/ /\ n.revision = row.revision + 1
            /\ row.status \notin Terminal /\ n.status \notin Terminal,
         n.approval.id = row.approval.id,
         \/ n.approval.status = row.approval.status /\ g2 = g
         \/ row.approval.status = "pending" /\ n.approval.status = "approved" /\ g2 = g + 1
         \/ row.approval.status = "pending" /\ n.approval.status = "declined" /\ g2 = g
  PROVE  Fits(n, r, g2) /\ Told(n, r, o) /\ Newer(row, n)
<1>1. /\ row.revision \in Nat /\ n.revision \in Nat /\ row.approval.id \in Nat /\ r.attempt \in Nat
      /\ \A u \in r.pending : u.revision \in Nat
  BY DEF RowType, ApprovalType, RecordType, UpdateType
<1>2. row.revision <= n.revision /\ g <= g2
  BY <1>1
<1>3. n.status # row.status => row.revision < n.revision
  BY <1>1
<1>4. Newer(row, n)
  BY <1>2, <1>3 DEF Newer
<1>5. r.attempt <= 1 + g2 /\ (r.attempt <= g => r.attempt <= g2)
  BY <1>1, <1>2 DEF Fits
<1>6. Asked(n, r) /\ n.approval.status = "approved" => r.attempt <= g2
  <2>1. Asked(n, r) <=> Asked(row, r)
    BY DEF Asked
  <2>2. CASE row.approval.status = "approved"
    BY <1>5, <2>1, <2>2 DEF Fits
  <2>3. CASE row.approval.status # "approved"
    BY <1>1, <2>3 DEF Fits
  <2> QED
    BY <2>2, <2>3
<1>7. n.approval.id <= n.revision /\ \A u \in r.pending : u.revision <= n.revision
  BY <1>1, <1>2 DEF Fits
<1>8. n.status \in Terminal => row.status = n.status
  OBVIOUS
<1>9. Fits(n, r, g2)
  BY <1>5, <1>6, <1>7, <1>8 DEF Fits
<1>10. n.status = "completed" => row.status = n.status
  BY <1>8 DEF Terminal
<1>11. Told(n, r, o)
  BY <1>10 DEF Told
<1> QED
  BY <1>4, <1>9, <1>11

LEMMA WithUpdateFields ==
  ASSUME NEW r \in RecordType, NEW seen, NEW action, NEW n, n = WithUpdate(r, seen, action)
  PROVE  /\ n.pending = {[revision |-> seen.revision, key |-> r.nonce + 1,
                          action |-> action, result |-> r.attempt]}
         /\ n.nonce = r.nonce + 1 /\ n.attempt = r.attempt /\ n.approvalId = r.approvalId
         /\ n.stage = IF action = "start" THEN "claiming" ELSE "reporting"
<1>1. PICK pending : pending = {[revision |-> seen.revision, key |-> r.nonce + 1,
                                 action |-> action, result |-> r.attempt]}
  OBVIOUS
<1>2. PICK nonce : nonce = r.nonce + 1
  OBVIOUS
<1>3. PICK stage : stage = IF action = "start" THEN "claiming" ELSE "reporting"
  OBVIOUS
<1>4. n = [r EXCEPT !.pending = pending, !.nonce = nonce, !.stage = stage]
  BY <1>1, <1>2, <1>3 DEF WithUpdate
<1> QED
  BY <1>1, <1>2, <1>3, <1>4 DEF RecordType

(* An update that is saved is a new one, of a task that has not ended.     *)
LEMMA WithUpdateFits ==
  ASSUME NEW row \in RowType, NEW r \in RecordType, NEW g \in Nat, NEW o, NEW seen \in SummaryType,
         NEW action, Fits(row, r, g), Told(row, r, o), SeenFits(row, seen),
         row.status \notin Terminal,
         action = "start" => r.attempt = 0,
         action = "complete" => o = "completed"
  PROVE  LET n == WithUpdate(r, seen, action)
         IN Fits(row, n, g) /\ Told(row, n, o) /\ n.attempt = r.attempt
<1>1. PICK n : n = WithUpdate(r, seen, action)
  OBVIOUS
<1>2. PICK u : u = [revision |-> seen.revision, key |-> r.nonce + 1,
                    action |-> action, result |-> r.attempt]
  OBVIOUS
<1>3. /\ u.revision = seen.revision /\ u.key = r.nonce + 1 /\ u.action = action
      /\ u.result = r.attempt
  BY <1>2
<1>4. /\ n.pending = {u} /\ n.nonce = r.nonce + 1 /\ n.attempt = r.attempt
      /\ n.stage \in {"claiming", "reporting"}
  BY <1>1, <1>2, WithUpdateFields
<1>5. /\ r.nonce \in Nat /\ \A k \in row.keys : k \in Nat
  BY DEF RecordType, RowType
<1>6. u.key \notin row.keys /\ \A k \in row.keys : k <= n.nonce
  BY <1>3, <1>4, <1>5 DEF Fits
<1>7. u.key <= n.nonce /\ u.revision <= row.revision
  BY <1>3, <1>4, <1>5 DEF SeenFits
<1>8. ~Asked(row, n)
  BY <1>4, <1>6 DEF Asked
<1>9. Fits(row, n, g)
  BY <1>3, <1>4, <1>6, <1>7, <1>8 DEF Fits
<1>10. Told(row, n, o)
  BY <1>3, <1>4 DEF Told, Terminal
<1> QED
  BY <1>1, <1>4, <1>9, <1>10

LEMMA AfterAcceptedFields ==
  ASSUME NEW r \in RecordType, NEW u, NEW row, NEW n, n = AfterAccepted(r, u, row)
  PROVE  /\ n.pending = {} /\ n.nonce = r.nonce /\ n.attempt = r.attempt
         /\ n.stage = CASE u.action = "start" -> "ready"
                        [] u.action = "request_approval" -> "approval"
                        [] OTHER -> "done"
         /\ u.action = "request_approval" => n.approvalId = row.approval.id
<1>1. PICK stage : stage = CASE u.action = "start" -> "ready"
                             [] u.action = "request_approval" -> "approval"
                             [] OTHER -> "done"
  OBVIOUS
<1>2. PICK approvalId : approvalId = IF u.action = "request_approval" THEN row.approval.id
                                     ELSE r.approvalId
  OBVIOUS
<1>3. n = [r EXCEPT !.pending = {}, !.stage = stage, !.approvalId = approvalId]
  BY <1>1, <1>2 DEF AfterAccepted
<1> QED
  BY <1>1, <1>2, <1>3 DEF RecordType

(* The answer to an update that was taken.                                 *)
LEMMA AcceptedFits ==
  ASSUME NEW row \in RowType, NEW r \in RecordType, NEW g \in Nat, NEW o, NEW u \in r.pending,
         r.pending # {} <=> r.stage \in {"claiming", "reporting"},
         Fits(row, r, g), Told(row, r, o), u.key \in row.keys
  PROVE  LET n == AfterAccepted(r, u, row)
         IN Fits(row, n, g) /\ Told(row, n, o) /\ n.attempt = r.attempt /\ n.nonce = r.nonce
<1>1. PICK n : n = AfterAccepted(r, u, row)
  OBVIOUS
<1>2. /\ n.pending = {} /\ n.nonce = r.nonce /\ n.attempt = r.attempt
      /\ u.action = "start" => n.stage = "ready"
      /\ u.action = "request_approval" => n.stage = "approval" /\ n.approvalId = row.approval.id
      /\ u.action \notin {"start", "request_approval"} => n.stage = "done"
  BY <1>1, AfterAcceptedFields
<1>3. \A v \in r.pending : v = u
  BY DEF Fits
<1>4. n.stage = "ready" => n.attempt <= g
  BY <1>2 DEF Fits
<1>5. Asked(row, n) /\ row.approval.status = "approved" => n.attempt <= g
  <2>1. Asked(row, n) => u.action = "request_approval"
    BY <1>2 DEF Asked
  <2> QED
    BY <1>2, <2>1 DEF Asked, Fits
<1>6. row.status \in Terminal => n.stage \in {"done", "blocked"}
  <2>1. r.stage \notin {"done", "blocked"}
    OBVIOUS
  <2>2. row.status \in Terminal => \E v \in r.pending : v.action \in Reports
    BY <2>1 DEF Fits
  <2>3. row.status \in Terminal => u.action \in Reports
    BY <1>3, <2>2
  <2> QED
    BY <1>2, <2>3 DEF Reports
<1>7. Fits(row, n, g)
  BY <1>2, <1>4, <1>5, <1>6 DEF Fits
<1>8. Told(row, n, o)
  BY <1>2 DEF Told
<1> QED
  BY <1>1, <1>2, <1>7, <1>8

------------------------------------------------------------------------------
(* The ledger of all tasks, and what the worker knows of it.               *)
TasksFit ==
    \A t \in Tasks :
        /\ Fits(task[t], record[t], granted[t])
        /\ Told(task[t], record[t], turn[t].outcome)
        /\ SeenFits(task[t], tick.seen[t])
        /\ launched[t] <= record[t].attempt

LateFit == \A q \in late : LateFits(task[q.task], record[q.task], q.update)

TickFits ==
    /\ pc = "get" => \A u \in record[tick.at].pending :
          u.key \notin task[tick.at].keys /\ Moot(task[tick.at], u)
    /\ pc = "spawn" => launched[tick.at] < record[tick.at].attempt
    /\ pc = "judge" /\ tick.outcome # None => turn[tick.at].outcome = tick.outcome

LedgerInv == TurnInv /\ TasksFit /\ LateFit /\ TickFits

(* One task in a step: its row only goes on, and an update leaves its      *)
(* record when it was taken or has become moot.                            *)
Advances(t) ==
    /\ Newer(task[t], task'[t])
    /\ Fits(task'[t], record'[t], granted'[t])
    /\ Told(task'[t], record'[t], turn'[t].outcome)
    /\ launched'[t] <= record'[t].attempt
    /\ record[t].nonce <= record'[t].nonce
    /\ \A v \in record[t].pending :
          v \in record'[t].pending \/ v.key \in task'[t].keys \/ Moot(task'[t], v)

LEMMA NewerSelf ==
  ASSUME NEW row \in RowType
  PROVE  Newer(row, row)
<1>1. row.revision \in Nat
  BY DEF RowType
<1> QED
  BY <1>1 DEF Newer

LEMMA Rests ==
  ASSUME TypeOK, TasksFit, NEW t \in Tasks,
         task'[t] = task[t], record'[t] = record[t], granted'[t] = granted[t],
         turn'[t].outcome = turn[t].outcome, launched'[t] = launched[t]
  PROVE  Advances(t)
<1>1. task[t] \in RowType /\ record[t].nonce \in Nat
  BY DEF TypeOK, RecordType
<1>2. Newer(task[t], task'[t])
  BY <1>1, NewerSelf
<1> QED
  BY <1>1, <1>2 DEF Advances, TasksFit

LEMMA Unseen ==
  ASSUME NEW row \in RowType
  PROVE  SeenFits(row, Summary(NoTask))
<1>1. row.revision \in Nat
  BY DEF RowType
<1> QED
  BY <1>1 DEF SeenFits, Summary, NoTask, NoApproval

LEMMA LedgerStep ==
  ASSUME TypeOK, TypeOK', TasksFit, LateFit,
         \A t \in Tasks : Advances(t),
         tick'.seen = tick.seen \/ tick' = NoTick
           \/ tick'.seen = [t \in Tasks |-> Summary(task'[t])],
         \A q \in late' : q \in late \/ LateFits(task'[q.task], record'[q.task], q.update)
  PROVE  TasksFit' /\ LateFit'
<1>1. ASSUME NEW t \in Tasks
      PROVE  SeenFits(task[t], tick.seen[t])' /\ task[t] \in RowType /\ task'[t] \in RowType
  <2>1. task[t] \in RowType /\ task'[t] \in RowType /\ Newer(task[t], task'[t])
    BY DEF TypeOK, Advances
  <2>2. CASE tick'.seen = tick.seen
    <3>1. tick.seen[t] \in SummaryType
      BY DEF TypeOK, TickType
    <3>2. SeenFits(task[t], tick.seen[t])
      BY DEF TasksFit
    <3> QED
      BY <2>1, <2>2, <3>1, <3>2, NewerSeen
  <2>3. CASE tick' = NoTick
    <3>1. tick'.seen[t] = Summary(NoTask)
      BY <2>3 DEF NoTick
    <3> QED
      BY <2>1, <3>1, Unseen
  <2>4. CASE tick'.seen = [s \in Tasks |-> Summary(task'[s])]
    <3>1. tick'.seen[t] = Summary(task'[t])
      BY <2>4
    <3>2. task'[t].approval.id <= task'[t].revision /\ task'[t].revision \in Nat
      BY <2>1 DEF Advances, Fits, RowType
    <3> QED
      BY <2>1, <3>1, <3>2 DEF SeenFits, Summary
  <2> QED
    BY <2>1, <2>2, <2>3, <2>4
<1>2. TasksFit'
  BY <1>1 DEF TasksFit, Advances
<1>3. ASSUME NEW q \in late
      PROVE  LateFits(task'[q.task], record'[q.task], q.update)
  <2>1. PICK t \in Tasks : t = q.task
    BY DEF TypeOK
  <2>2. PICK u \in UpdateType : u = q.update
    BY DEF TypeOK
  <2>3. task[t] \in RowType /\ task'[t] \in RowType /\ Newer(task[t], task'[t])
    BY <1>1 DEF Advances
  <2>4. LateFits(task[t], record[t], u)
    BY <2>1, <2>2 DEF LateFit
  <2>5. LateFits(task'[t], record[t], u)
    BY <2>3, <2>4, NewerLate
  <2>6. u.key \in Nat /\ record[t].nonce \in Nat /\ record'[t].nonce \in Nat
    BY DEF UpdateType, TypeOK, RecordType
  <2>7. record[t].nonce <= record'[t].nonce
    BY DEF Advances
  <2>8. u \in record[t].pending =>
           u \in record'[t].pending \/ u.key \in task'[t].keys \/ Moot(task'[t], u)
    BY DEF Advances
  <2>9. LateFits(task'[t], record'[t], u)
    BY <2>5, <2>6, <2>7, <2>8 DEF LateFits
  <2> QED
    BY <2>1, <2>2, <2>9
<1>4. LateFit'
  BY <1>3 DEF LateFit
<1> QED
  BY <1>2, <1>4

(* Steps that change no row, no record and no outcome.                     *)
LEMMA Quiet ==
  ASSUME LedgerInv, TypeOK', UNCHANGED <<task, record, granted, launched>>,
         \A t \in Tasks : turn'[t].outcome = turn[t].outcome,
         tick'.seen = tick.seen \/ tick' = NoTick
           \/ tick'.seen = [t \in Tasks |-> Summary(task[t])],
         \A q \in late' : q \in late \/ LateFits(task[q.task], record[q.task], q.update)
  PROVE  TasksFit' /\ LateFit'
<1>1. TypeOK /\ TasksFit /\ LateFit
  BY DEF LedgerInv, TurnInv
<1>2. \A t \in Tasks : Advances(t)
  BY <1>1, Rests
<1>3. task' = task /\ record' = record
  OBVIOUS
<1>4. tick'.seen = tick.seen \/ tick' = NoTick
        \/ tick'.seen = [t \in Tasks |-> Summary(task'[t])]
  BY <1>3
<1>5. \A q \in late' : q \in late \/ LateFits(task'[q.task], record'[q.task], q.update)
  BY <1>3
<1> QED
  BY <1>1, <1>2, <1>4, <1>5, LedgerStep

LEMMA FailedCallLedger ==
  ASSUME LedgerInv, TypeOK', FetchFails \/ UpdateRefused \/ UpdateFails \/ GetFails
  PROVE  TasksFit' /\ LateFit' /\ TickFits'
<1>1. Abort /\ UNCHANGED <<taskVars, turn, launched>>
  BY DEF FetchFails, UpdateRefused, UpdateFails, GetFails
<1>2. tick' = NoTick /\ record' = record /\ pc' \in {"rest", "stopped"}
  BY <1>1, AbortMoves
<1>3. ASSUME NEW q \in late', q \notin late
      PROVE  LateFits(task[q.task], record[q.task], q.update)
  <2>1. pc = "update" /\ q = [task |-> tick.at, update |-> Pending(tick.at)]
    BY <1>3 DEF FetchFails, UpdateRefused, UpdateFails, GetFails
  <2>2. tick.at \in Tasks /\ record[tick.at].pending # {}
    BY <2>1 DEF LedgerInv, TurnInv, Placed
  <2>3. PICK u : u = Pending(tick.at)
    OBVIOUS
  <2>4. u \in record[tick.at].pending
    BY <2>2, <2>3 DEF Pending
  <2>5. Fits(task[tick.at], record[tick.at], granted[tick.at])
    BY <2>2 DEF LedgerInv, TasksFit
  <2>6. LateFits(task[tick.at], record[tick.at], u)
    BY <2>4, <2>5 DEF Fits, LateFits
  <2> QED
    BY <2>1, <2>3, <2>6
<1>4. TasksFit' /\ LateFit'
  BY <1>1, <1>2, <1>3, Quiet DEF taskVars
<1>5. TickFits'
  BY <1>2 DEF TickFits
<1> QED
  BY <1>4, <1>5

LEMMA FetchLedger ==
  ASSUME LedgerInv, TypeOK', Fetch
  PROVE  TasksFit' /\ LateFit' /\ TickFits'
<1>1. PICK seen : seen = [t \in Tasks |-> Summary(task[t])]
  OBVIOUS
<1>2. PICK todo : todo = {t \in Tasks : record[t].pending # {} \/ record[t].stage = "running"}
  OBVIOUS
<1>3. tick' = [NoTick EXCEPT !.seen = seen, !.allowed = paired, !.stopping = stopping, !.todo = todo]
  BY <1>1, <1>2 DEF Fetch
<1>4. tick'.seen = seen
  BY <1>3 DEF NoTick
<1>5. pc' = "records" /\ UNCHANGED <<taskVars, record, turn, late, launched>>
  BY DEF Fetch
<1>6. TasksFit' /\ LateFit'
  BY <1>1, <1>4, <1>5, Quiet DEF taskVars
<1> QED
  BY <1>5, <1>6 DEF TickFits

LEMMA UpdateRejectedLedger ==
  ASSUME LedgerInv, TypeOK', UpdateRejected
  PROVE  TasksFit' /\ LateFit' /\ TickFits'
<1>1. pc = "update" /\ pc' = "get" /\ UNCHANGED <<taskVars, record, turn, tick, late, launched>>
  BY DEF UpdateRejected
<1>2. TasksFit' /\ LateFit'
  BY <1>1, Quiet DEF taskVars
<1>3. TypeOK /\ tick.at \in Tasks /\ record[tick.at].pending # {}
  BY <1>1 DEF LedgerInv, TurnInv, Placed
<1>4. PICK u \in UpdateType : u = Pending(tick.at)
  BY <1>3, PendingTyped
<1>5. u \in record[tick.at].pending
  BY <1>3, <1>4 DEF Pending
<1>6. PICK row \in RowType : row = task[tick.at]
  BY <1>3 DEF TypeOK
<1>7. Verdict(row, u) = "rejected"
  BY <1>4, <1>6 DEF UpdateRejected
<1>8. Fits(row, record[tick.at], granted[tick.at])
  BY <1>3, <1>6 DEF LedgerInv, TasksFit
<1>9. u.key \notin row.keys /\ (~Open(row) \/ row.revision # u.revision \/ row.status \notin AllowedIn(u.action))
  BY <1>7 DEF Verdict, Repeated
<1>10. u.revision <= row.revision /\ u.revision \in Nat /\ row.revision \in Nat
  BY <1>5, <1>8 DEF Fits, UpdateType, RowType
<1>11. u.action \in Actions /\ (row.status = "absent" => row.status \notin AllowedIn(u.action))
  BY DEF AllowedIn, UpdateType, Actions
<1>12. Moot(row, u)
  BY <1>9, <1>10, <1>11 DEF Moot, Open
<1>13. \A v \in record[tick.at].pending : v = u
  BY <1>5, <1>8 DEF Fits
<1>14. TickFits'
  BY <1>1, <1>6, <1>9, <1>12, <1>13 DEF TickFits, taskVars
<1> QED
  BY <1>2, <1>14

LEMMA RecordsLedger ==
  ASSUME LedgerInv, TypeOK',
         (\E t \in Tasks : Flush(t)) \/ StillRunning \/ EndRecords \/ EndTasks
  PROVE  TasksFit' /\ LateFit' /\ TickFits'
<1>1. TypeOK /\ tick \in TickType
  BY DEF LedgerInv, TurnInv, TypeOK
<1>2. UNCHANGED <<taskVars, record, turn, late, launched>>
  BY DEF Flush, StillRunning, EndRecords, EndTasks
<1>3. /\ tick'.seen = tick.seen \/ tick' = NoTick
      /\ pc' \in {"update", "records", "rest", "stopped", "tasks"}
  <2>1. CASE \E t \in Tasks : Flush(t)
    BY <1>1, <2>1 DEF Flush, Call, TickType
  <2>2. CASE StillRunning
    BY <1>1, <2>2 DEF StillRunning, GoOn, TickType
  <2>3. CASE EndTasks
    BY <2>3 DEF EndTasks, EndTick
  <2>4. CASE EndRecords
    <3>1. CASE EndTick(tick.busy)
      BY <3>1 DEF EndTick
    <3>2. CASE pc' = "tasks" /\ tick' = [tick EXCEPT !.todo = {t \in Tasks : Concerned(t)}]
      BY <1>1, <3>2 DEF TickType
    <3> QED
      BY <2>4, <3>1, <3>2 DEF EndRecords
  <2> QED
    BY <2>1, <2>2, <2>3, <2>4
<1>4. TasksFit' /\ LateFit'
  BY <1>2, <1>3, Quiet DEF taskVars
<1> QED
  BY <1>3, <1>4 DEF TickFits

LEMMA ReadOutcomeLedger ==
  ASSUME LedgerInv, TypeOK', NEW t \in Tasks, ReadOutcome(t)
  PROVE  TasksFit' /\ LateFit' /\ TickFits'
<1>1. /\ TypeOK /\ pc' = "judge" /\ tick \in TickType /\ turn[t] \in TurnType
      /\ UNCHANGED <<taskVars, record, late, launched>>
  BY DEF ReadOutcome, LedgerInv, TurnInv, TypeOK
<1>2. PICK cancel : turn' = [turn EXCEPT ![t].cancel = cancel]
  BY DEF ReadOutcome
<1>3. \A s \in Tasks : turn'[s].outcome = turn[s].outcome
  BY <1>1, <1>2 DEF TypeOK, TurnType
<1>4. tick'.seen = tick.seen /\ tick'.at = t /\ tick'.outcome = turn[t].outcome
  BY <1>1 DEF ReadOutcome, TickType
<1>5. TasksFit' /\ LateFit'
  BY <1>1, <1>3, <1>4, Quiet DEF taskVars
<1> QED
  BY <1>1, <1>3, <1>4, <1>5 DEF TickFits

LEMMA ProcessLedger ==
  ASSUME LedgerInv, TypeOK', Stop \/ Crash \/ Start \/ Unpair \/ UNCHANGED vars
  PROVE  TasksFit' /\ LateFit' /\ TickFits'
<1>1. UNCHANGED <<task, granted, record, turn, late, launched>>
  BY DEF Stop, Crash, Start, Unpair, vars, taskVars, workerVars
<1>2. tick'.seen = tick.seen \/ tick' = NoTick
  BY DEF Stop, Crash, Start, Unpair, vars, workerVars
<1>3. TasksFit' /\ LateFit'
  BY <1>1, <1>2, Quiet
<1>4. pc' \in {"rest", "crashed"} \/ (pc' = pc /\ tick' = tick)
  BY DEF Stop, Crash, Start, Unpair, vars, workerVars
<1>5. TickFits'
  BY <1>1, <1>4 DEF TickFits, LedgerInv
<1> QED
  BY <1>3, <1>5

(* Steps that change one task, or what is kept of it.                      *)
LEMMA OneTask ==
  ASSUME LedgerInv, TypeOK', NEW t \in Tasks, Advances(t),
         \A s \in Tasks : s # t =>
            /\ task'[s] = task[s] /\ record'[s] = record[s] /\ granted'[s] = granted[s]
            /\ turn'[s].outcome = turn[s].outcome /\ launched'[s] = launched[s],
         tick'.seen = tick.seen \/ tick' = NoTick, late' \subseteq late
  PROVE  TasksFit' /\ LateFit'
<1>1. TypeOK /\ TasksFit /\ LateFit
  BY DEF LedgerInv, TurnInv
<1>2. ASSUME NEW s \in Tasks, s # t
      PROVE  Advances(s)
  BY <1>1, <1>2, Rests
<1>3. \A s \in Tasks : Advances(s)
  BY <1>2
<1> QED
  BY <1>1, <1>3, LedgerStep

(* Only the record r of the task t changes, and with it its agent.         *)
LEMMA RecordChanges ==
  ASSUME LedgerInv, TypeOK', NEW t \in Tasks, NEW r \in RecordType,
         record' = [record EXCEPT ![t] = r], UNCHANGED <<task, granted>>,
         \A s \in Tasks : s # t => turn'[s].outcome = turn[s].outcome /\ launched'[s] = launched[s],
         Fits(task[t], r, granted[t]), Told(task[t], r, turn'[t].outcome),
         launched'[t] <= r.attempt, record[t].nonce <= r.nonce,
         \A v \in record[t].pending :
            v \in r.pending \/ v.key \in task[t].keys \/ Moot(task[t], v),
         tick'.seen = tick.seen \/ tick' = NoTick, late' = late
  PROVE  TasksFit' /\ LateFit'
<1>1. TypeOK /\ task[t] \in RowType
  BY DEF LedgerInv, TurnInv, TypeOK
<1>2. record'[t] = r /\ \A s \in Tasks : s # t => record'[s] = record[s]
  BY <1>1 DEF TypeOK
<1>3. Newer(task[t], task'[t])
  BY <1>1, NewerSelf
<1>4. Advances(t)
  BY <1>2, <1>3 DEF Advances
<1> QED
  BY <1>2, <1>4, OneTask

LEMMA ResumeLedger ==
  ASSUME TypeOK, tick.back # "rest", Resume
  PROVE  /\ tick'.seen = tick.seen \/ tick' = NoTick
         /\ pc' \in {"rest", "stopped", "records", "tasks"}
<1>1. tick \in TickType
  BY DEF TypeOK
<1> QED
  BY <1>1 DEF Resume, EndTick, TickType

LEMMA UpdateAcceptedLedger ==
  ASSUME LedgerInv, TypeOK', UpdateAccepted
  PROVE  TasksFit' /\ LateFit' /\ TickFits'
<1>1. PICK t \in Tasks : t = tick.at
  BY DEF UpdateAccepted, LedgerInv, TurnInv, Placed
<1>2. TypeOK /\ tick.back # "rest" /\ record[t].pending # {}
  BY <1>1 DEF UpdateAccepted, LedgerInv, TurnInv, Placed
<1>3. PICK u \in UpdateType : u = Pending(t)
  BY <1>2, PendingTyped
<1>4. PICK old \in RecordType : old = record[t]
  BY <1>2 DEF TypeOK
<1>5. u \in old.pending /\ (old.pending # {} <=> old.stage \in {"claiming", "reporting"})
  BY <1>2, <1>3, <1>4 DEF Pending, TypeOK
<1>6. PICK row \in RowType : row = task[t]
  BY <1>2 DEF TypeOK
<1>7. PICK n \in RowType : n = Updated(row, u)
  BY UpdatedTyped
<1>8. PICK g \in Nat : g = granted[t]
  BY <1>2 DEF TypeOK
<1>9. PICK r : r = AfterAccepted(old, u, n)
  OBVIOUS
<1>10. /\ Verdict(row, u) = "accepted" /\ Resume
       /\ task' = [task EXCEPT ![t] = n] /\ record' = [record EXCEPT ![t] = r]
       /\ UNCHANGED <<granted, turn, late, launched>>
  BY <1>1, <1>2, <1>3, <1>4, <1>6, <1>7, <1>9 DEF UpdateAccepted, TypeOK
<1>11. PICK o : o = turn[t].outcome
  OBVIOUS
<1>12. Fits(row, old, g) /\ Told(row, old, o) /\ launched[t] <= old.attempt
  BY <1>4, <1>6, <1>8, <1>11 DEF LedgerInv, TasksFit
<1>13. LateFits(row, old, u)
  BY <1>5, <1>12 DEF Fits, LateFits
<1>14. Fits(n, old, g) /\ Told(n, old, o)
  BY <1>5, <1>7, <1>12, <1>13, UpdatedFits
<1>15. Newer(row, n)
  BY <1>7, UpdatedNewer
<1>16. u.key \in n.keys
  BY <1>7, <1>10, UpdatedFields
<1>17. Fits(n, r, g) /\ Told(n, r, o) /\ r.attempt = old.attempt /\ r.nonce = old.nonce
  BY <1>5, <1>9, <1>14, <1>16, AcceptedFits
<1>18. \A v \in old.pending : v.key \in n.keys
  BY <1>5, <1>12, <1>16 DEF Fits
<1>19. task'[t] = n /\ record'[t] = r
       /\ \A s \in Tasks : s # t => task'[s] = task[s] /\ record'[s] = record[s]
  BY <1>2, <1>10 DEF TypeOK
<1>20. old.nonce \in Nat
  BY DEF RecordType
<1>21. Advances(t)
  BY <1>4, <1>6, <1>8, <1>10, <1>11, <1>12, <1>15, <1>17, <1>18, <1>19, <1>20 DEF Advances
<1>22. tick'.seen = tick.seen \/ tick' = NoTick
  BY <1>2, <1>10, ResumeLedger
<1>23. TasksFit' /\ LateFit'
  BY <1>10, <1>19, <1>21, <1>22, OneTask
<1>24. TickFits'
  BY <1>2, <1>10, ResumeLedger DEF TickFits
<1> QED
  BY <1>23, <1>24

(* A record without an update.                                             *)
LEMMA SettledFits ==
  ASSUME NEW row \in RowType, NEW r \in RecordType, NEW g \in Nat, NEW o, NEW n \in RecordType,
         Fits(row, r, g), Told(row, r, o),
         n.pending = {}, n.attempt = r.attempt, n.nonce = r.nonce,
         n.stage \notin {"none", "ready", "approval"},
         n.stage \in {"done", "blocked"} \/ row.status \notin Terminal
  PROVE  Fits(row, n, g) /\ Told(row, n, o)
<1>1. ~Asked(row, n)
  BY DEF Asked
<1> QED
  BY <1>1 DEF Fits, Told

LEMMA GetAnsweredLedger ==
  ASSUME LedgerInv, TypeOK', GetAnswered
  PROVE  TasksFit' /\ LateFit' /\ TickFits'
<1>1. PICK t \in Tasks : t = tick.at
  BY DEF GetAnswered, LedgerInv, TurnInv, Placed
<1>2. /\ TypeOK /\ tick.back # "rest" /\ record[t].pending # {} /\ pc = "get"
      /\ UNCHANGED <<taskVars, turn, late, launched>>
  BY <1>1 DEF GetAnswered, LedgerInv, TurnInv, Placed
<1>3. PICK old \in RecordType : old = record[t]
  BY <1>2 DEF TypeOK
<1>4. PICK row \in RowType : row = task[t]
  BY <1>2 DEF TypeOK
<1>5. PICK g \in Nat : g = granted[t]
  BY <1>2 DEF TypeOK
<1>6. PICK o : o = turn[t].outcome
  OBVIOUS
<1>7. Fits(row, old, g) /\ Told(row, old, o) /\ launched[t] <= old.attempt
  BY <1>3, <1>4, <1>5, <1>6 DEF LedgerInv, TasksFit
<1>8. \A v \in old.pending : Moot(row, v)
  BY <1>1, <1>2, <1>3, <1>4 DEF LedgerInv, TickFits
<1>9. PICK now \in SummaryType : now = Summary(row)
  BY SummaryTyped
<1>10. PICK idle : idle = [old EXCEPT !.pending = {}]
  OBVIOUS
<1>11. /\ idle \in RecordType /\ idle.pending = {} /\ idle.attempt = old.attempt
       /\ idle.nonce = old.nonce /\ idle.stage = old.stage /\ old.nonce \in Nat
  BY <1>10 DEF RecordType
<1>12. old.stage \in {"claiming", "reporting"}
  BY <1>2, <1>3 DEF TypeOK
<1>13. CASE /\ record' = [record EXCEPT ![t] =
                  [idle EXCEPT !.stage = IF Finished(now) THEN "done" ELSE "blocked"]]
            /\ Resume
  <2>1. PICK stage \in {"done", "blocked"} : stage = IF Finished(now) THEN "done" ELSE "blocked"
    OBVIOUS
  <2>2. PICK r : r = [idle EXCEPT !.stage = stage]
    OBVIOUS
  <2>3. /\ r \in RecordType /\ r.pending = {} /\ r.attempt = old.attempt /\ r.nonce = old.nonce
        /\ r.stage = stage
    BY <1>11, <2>1, <2>2 DEF RecordType, Stages
  <2>4. record' = [record EXCEPT ![t] = r]
    BY <1>13, <2>1, <2>2
  <2>5. Fits(row, r, g) /\ Told(row, r, o)
    BY <1>7, <2>1, <2>3, SettledFits
  <2>6. Fits(task[t], r, granted[t]) /\ Told(task[t], r, turn'[t].outcome)
    BY <1>2, <1>4, <1>5, <1>6, <2>5
  <2>7. launched'[t] <= r.attempt /\ record[t].nonce <= r.nonce
    BY <1>2, <1>3, <1>7, <1>11, <2>3
  <2>8. \A v \in record[t].pending : Moot(task[t], v)
    BY <1>3, <1>4, <1>8
  <2>9. tick'.seen = tick.seen \/ tick' = NoTick
    BY <1>1, <1>2, <1>13, ResumeLedger
  <2>10. TasksFit' /\ LateFit'
    BY <1>2, <2>3, <2>4, <2>6, <2>7, <2>8, <2>9, RecordChanges DEF taskVars
  <2> QED
    BY <1>2, <1>13, <2>10, ResumeLedger DEF TickFits
<1>14. CASE /\ now.status = "cancel_requested"
            /\ record' = [record EXCEPT ![t] = WithUpdate(idle, now, "cancelled")]
            /\ pc' = "update" /\ UNCHANGED tick
  <2>1. row.status \notin Terminal
    BY <1>9, <1>14 DEF Summary, Terminal
  <2>2. Fits(row, idle, g) /\ Told(row, idle, o)
    BY <1>7, <1>11, <1>12, <2>1, SettledFits
  <2>3. SeenFits(row, now)
    <3>1. row.approval.id <= row.revision /\ row.revision \in Nat
      BY <1>7 DEF Fits, RowType
    <3> QED
      BY <1>9, <3>1 DEF SeenFits, Summary
  <2>4. PICK r : r = WithUpdate(idle, now, "cancelled")
    OBVIOUS
  <2>5. r \in RecordType
    BY <1>11, <2>4, WithUpdateTyped DEF Actions
  <2>6. Fits(row, r, g) /\ Told(row, r, o) /\ r.attempt = old.attempt
    BY <1>11, <2>1, <2>2, <2>3, <2>4, WithUpdateFits
  <2>7. r.nonce = old.nonce + 1
    BY <1>11, <2>4, WithUpdateFields
  <2>8. record' = [record EXCEPT ![t] = r]
    BY <1>14, <2>4
  <2>9. Fits(task[t], r, granted[t]) /\ Told(task[t], r, turn'[t].outcome)
    BY <1>2, <1>4, <1>5, <1>6, <2>6
  <2>10. launched'[t] <= r.attempt /\ record[t].nonce <= r.nonce
    BY <1>2, <1>3, <1>7, <1>11, <2>6, <2>7
  <2>11. \A v \in record[t].pending : Moot(task[t], v)
    BY <1>3, <1>4, <1>8
  <2>12. TasksFit' /\ LateFit'
    BY <1>2, <1>14, <2>5, <2>8, <2>9, <2>10, <2>11, RecordChanges DEF taskVars
  <2> QED
    BY <1>14, <2>12 DEF TickFits
<1> QED
  BY <1>1, <1>2, <1>3, <1>4, <1>9, <1>10, <1>13, <1>14 DEF GetAnswered

(* An update is saved in a record that has none.                           *)
LEMMA SavedLedger ==
  ASSUME LedgerInv, TypeOK', NEW t \in Tasks, NEW action \in Actions,
         record[t].pending = {}, record[t].stage \notin {"done", "blocked"},
         action = "start" => record[t].stage = "none",
         action = "complete" => turn[t].outcome = "completed",
         record' = [record EXCEPT ![t] = WithUpdate(@, tick.seen[t], action)],
         UNCHANGED <<taskVars, turn, late, launched>>, tick'.seen = tick.seen
  PROVE  TasksFit' /\ LateFit'
<1>1. TypeOK
  BY DEF LedgerInv, TurnInv
<1>2. PICK old \in RecordType : old = record[t]
  BY <1>1 DEF TypeOK
<1>3. PICK row \in RowType : row = task[t]
  BY <1>1 DEF TypeOK
<1>4. PICK g \in Nat : g = granted[t]
  BY <1>1 DEF TypeOK
<1>5. PICK o : o = turn[t].outcome
  OBVIOUS
<1>6. PICK seen \in SummaryType : seen = tick.seen[t]
  BY <1>1 DEF TypeOK, TickType
<1>7. Fits(row, old, g) /\ Told(row, old, o) /\ SeenFits(row, seen) /\ launched[t] <= old.attempt
  BY <1>2, <1>3, <1>4, <1>5, <1>6 DEF LedgerInv, TasksFit
<1>8. row.status \notin Terminal
  BY <1>2, <1>7 DEF Fits
<1>9. action = "start" => old.attempt = 0
  BY <1>2, <1>7 DEF Fits
<1>10. PICK r : r = WithUpdate(old, seen, action)
  OBVIOUS
<1>11. r \in RecordType
  BY <1>10, WithUpdateTyped
<1>12. Fits(row, r, g) /\ Told(row, r, o) /\ r.attempt = old.attempt
  BY <1>2, <1>5, <1>7, <1>8, <1>9, <1>10, WithUpdateFits
<1>13. r.nonce = old.nonce + 1 /\ old.nonce \in Nat
  BY <1>10, WithUpdateFields DEF RecordType
<1>14. record' = [record EXCEPT ![t] = r]
  BY <1>2, <1>6, <1>10
<1>15. Fits(task[t], r, granted[t]) /\ Told(task[t], r, turn'[t].outcome)
  BY <1>3, <1>4, <1>5, <1>12
<1>16. launched'[t] <= r.attempt /\ record[t].nonce <= r.nonce
  BY <1>2, <1>7, <1>12, <1>13
<1> QED
  BY <1>11, <1>14, <1>15, <1>16, RecordChanges DEF taskVars

LEMMA JudgeOverLedger ==
  ASSUME LedgerInv, TypeOK', JudgeOver
  PROVE  TasksFit' /\ LateFit' /\ TickFits'
<1>1. PICK t \in Tasks : t = tick.at /\ record[t].stage = "running"
  BY DEF JudgeOver, LedgerInv, TurnInv, Placed
<1>2. /\ TypeOK /\ pc = "judge" /\ tick \in TickType /\ record[t].pending = {}
      /\ UNCHANGED <<taskVars, turn, late, launched>>
  BY <1>1 DEF JudgeOver, LedgerInv, TurnInv, TypeOK
<1>3. CASE record' = [record EXCEPT ![t].stage = "done"] /\ GoOn(FALSE)
  <2>1. PICK old \in RecordType : old = record[t]
    BY <1>2 DEF TypeOK
  <2>2. PICK r : r = [old EXCEPT !.stage = "done"]
    OBVIOUS
  <2>3. /\ r \in RecordType /\ r.pending = {} /\ r.attempt = old.attempt /\ r.nonce = old.nonce
        /\ r.stage = "done" /\ old.nonce \in Nat
    BY <1>2, <2>1, <2>2 DEF RecordType, Stages
  <2>4. record' = [record EXCEPT ![t] = r]
    BY <1>3, <2>1, <2>2
  <2>5. /\ task[t] \in RowType /\ granted[t] \in Nat /\ Fits(task[t], old, granted[t])
        /\ Told(task[t], old, turn[t].outcome) /\ launched[t] <= old.attempt
    BY <1>2, <2>1 DEF LedgerInv, TasksFit, TypeOK
  <2>6. Fits(task[t], r, granted[t]) /\ Told(task[t], r, turn[t].outcome)
    BY <2>3, <2>5, SettledFits
  <2>7. launched'[t] <= r.attempt /\ record[t].nonce <= r.nonce
    BY <1>2, <2>1, <2>3, <2>5
  <2>8. tick'.seen = tick.seen /\ pc' = "records"
    BY <1>2, <1>3 DEF GoOn, TickType
  <2>9. Told(task[t], r, turn'[t].outcome)
    BY <1>2, <2>6
  <2>10. TasksFit' /\ LateFit'
    BY <1>2, <2>3, <2>4, <2>6, <2>7, <2>8, <2>9, RecordChanges DEF taskVars
  <2> QED
    BY <2>8, <2>10 DEF TickFits
<1>4. ASSUME NEW action \in Actions,
             action = "complete" => tick.outcome = "completed", action # "start",
             record' = [record EXCEPT ![t] = WithUpdate(@, tick.seen[t], action)],
             pc' = "update", tick' = [tick EXCEPT !.back = "records", !.outcome = None]
      PROVE  TasksFit' /\ LateFit' /\ TickFits'
  <2>1. action = "complete" => turn[t].outcome = "completed"
    BY <1>1, <1>2, <1>4 DEF LedgerInv, TickFits, None
  <2>2. tick'.seen = tick.seen
    BY <1>2, <1>4 DEF TickType
  <2>3. TasksFit' /\ LateFit'
    BY <1>1, <1>2, <1>4, <2>1, <2>2, SavedLedger
  <2> QED
    BY <1>4, <2>3 DEF TickFits
<1>5. PICK action : action = IF tick.seen[t].status = "cancel_requested" THEN "cancelled"
                             ELSE Report(tick.outcome)
  OBVIOUS
<1>6. action \in Actions /\ action # "start" /\ (action = "complete" => tick.outcome = "completed")
  BY <1>5 DEF Report, Actions
<1> QED
  BY <1>1, <1>3, <1>4, <1>5, <1>6 DEF JudgeOver

LEMMA VisitLedger ==
  ASSUME LedgerInv, TypeOK', NEW t \in Tasks, Claim(t) \/ Withdraw(t) \/ TakeDecision(t)
  PROVE  TasksFit' /\ LateFit' /\ TickFits'
<1>1. /\ TypeOK /\ tick \in TickType /\ pc = "tasks"
      /\ UNCHANGED <<taskVars, turn, late, launched>>
      /\ record[t].pending = {} <=> record[t].stage \notin {"claiming", "reporting"}
  BY DEF Claim, Withdraw, TakeDecision, First, LedgerInv, TurnInv, TypeOK
<1>2. ASSUME NEW action \in Actions, NEW back, Update(t, tick.seen[t], action, back),
             record[t].pending = {}, record[t].stage \notin {"done", "blocked"},
             action = "start" => record[t].stage = "none", action # "complete"
      PROVE  TasksFit' /\ LateFit' /\ TickFits'
  <2>1. /\ record' = [record EXCEPT ![t] = WithUpdate(@, tick.seen[t], action)]
        /\ pc' = "update" /\ tick'.seen = tick.seen
    BY <1>1, <1>2 DEF Update, Call, TickType
  <2>2. TasksFit' /\ LateFit'
    BY <1>1, <1>2, <2>1, SavedLedger
  <2> QED
    BY <2>1, <2>2 DEF TickFits
<1>3. CASE Claim(t)
  BY <1>1, <1>2, <1>3 DEF Claim, Claimable, Actions
<1>4. CASE Withdraw(t)
  BY <1>1, <1>2, <1>4 DEF Withdraw, Withdrawn, Waiting, Actions
<1>5. CASE Decided(t, "declined") /\ Update(t, tick.seen[t], "fail", "tasks")
  BY <1>1, <1>2, <1>5 DEF Decided, Waiting, Actions
<1>6. CASE Decided(t, "approved") /\ record' = [record EXCEPT ![t].stage = "ready"] /\ UNCHANGED <<pc, tick>>
  <2>1. PICK old \in RecordType : old = record[t]
    BY <1>1 DEF TypeOK
  <2>2. PICK r : r = [old EXCEPT !.stage = "ready"]
    OBVIOUS
  <2>3. /\ old.pending = {} /\ old.stage = "approval" /\ old.approvalId = tick.seen[t].approval.id
        /\ tick.seen[t].approval.status = "approved"
    BY <1>6, <2>1 DEF Decided, Waiting
  <2>4. /\ r \in RecordType /\ r.pending = {} /\ r.attempt = old.attempt /\ r.nonce = old.nonce
        /\ r.stage = "ready" /\ old.nonce \in Nat
    BY <2>2, <2>3 DEF RecordType, Stages
  <2>5. record' = [record EXCEPT ![t] = r]
    BY <1>6, <2>1, <2>2
  <2>6. /\ Fits(task[t], old, granted[t]) /\ Told(task[t], old, turn[t].outcome)
        /\ SeenFits(task[t], tick.seen[t]) /\ launched[t] <= old.attempt
    BY <2>1 DEF LedgerInv, TasksFit
  <2>7. task[t].approval.status = "approved"
    BY <2>3, <2>6 DEF Fits, SeenFits
  <2>8. old.attempt <= granted[t]
    BY <2>3, <2>6, <2>7 DEF Fits, Asked
  <2>9. task[t].status \notin Terminal
    BY <2>3, <2>6 DEF Fits
  <2>10. ~Asked(task[t], r)
    BY <2>4 DEF Asked
  <2>11. Fits(task[t], r, granted[t])
    BY <2>4, <2>6, <2>8, <2>9, <2>10 DEF Fits
  <2>12. Told(task[t], r, turn'[t].outcome)
    BY <1>1, <2>4, <2>6 DEF Told
  <2>13. launched'[t] <= r.attempt /\ record[t].nonce <= r.nonce
    BY <1>1, <2>1, <2>4, <2>6
  <2>14. record[t].pending = {}
    BY <2>1, <2>3
  <2>15. TasksFit' /\ LateFit'
    BY <1>1, <1>6, <2>4, <2>5, <2>11, <2>12, <2>13, <2>14, RecordChanges DEF taskVars
  <2> QED
    BY <1>1, <1>6, <2>15 DEF TickFits
<1> QED
  BY <1>3, <1>4, <1>5, <1>6 DEF TakeDecision

LEMMA DispatchLedger ==
  ASSUME LedgerInv, TypeOK', NEW t \in Tasks, Dispatch(t)
  PROVE  TasksFit' /\ LateFit' /\ TickFits'
<1>1. /\ TypeOK /\ tick \in TickType /\ record[t].pending = {} /\ record[t].stage = "ready"
      /\ pc' = "spawn" /\ UNCHANGED <<taskVars, late, launched>>
  BY DEF Dispatch, Startable, Waiting, LedgerInv, TurnInv, TypeOK
<1>2. PICK old \in RecordType : old = record[t]
  BY <1>1 DEF TypeOK
<1>3. PICK attempt \in Nat : attempt = old.attempt + 1
  BY DEF RecordType
<1>4. PICK r : r = [old EXCEPT !.stage = "running", !.attempt = attempt]
  OBVIOUS
<1>5. /\ r \in RecordType /\ r.pending = {} /\ r.attempt = attempt /\ r.nonce = old.nonce
      /\ r.stage = "running" /\ old.nonce \in Nat /\ old.attempt \in Nat
  BY <1>1, <1>2, <1>4 DEF RecordType, Stages
<1>6. record' = [record EXCEPT ![t] = r]
  BY <1>2, <1>3, <1>4 DEF Dispatch
<1>7. /\ Fits(task[t], old, granted[t]) /\ Told(task[t], old, turn[t].outcome)
      /\ launched[t] <= old.attempt /\ launched[t] \in Nat /\ granted[t] \in Nat
  BY <1>1, <1>2 DEF LedgerInv, TasksFit, TypeOK
<1>8. task[t].status \notin Terminal /\ old.attempt <= granted[t]
  BY <1>1, <1>2, <1>7 DEF Fits
<1>9. r.attempt <= 1 + granted[t] /\ ~Asked(task[t], r)
  BY <1>3, <1>5, <1>7, <1>8 DEF Asked
<1>10. Fits(task[t], r, granted[t])
  BY <1>5, <1>7, <1>8, <1>9 DEF Fits
<1>11. Told(task[t], r, turn'[t].outcome)
  BY <1>5, <1>8 DEF Told, Terminal
<1>12. launched'[t] < r.attempt /\ launched'[t] <= r.attempt /\ record[t].nonce <= r.nonce
  BY <1>1, <1>2, <1>3, <1>5, <1>7
<1>13. \A s \in Tasks : s # t => turn'[s].outcome = turn[s].outcome /\ launched'[s] = launched[s]
  BY <1>1 DEF Dispatch, TypeOK
<1>14. tick'.seen = tick.seen /\ tick'.at = t
  BY <1>1 DEF Dispatch, TickType
<1>15. TasksFit' /\ LateFit'
  BY <1>1, <1>5, <1>6, <1>10, <1>11, <1>12, <1>13, <1>14, RecordChanges DEF taskVars
<1>16. record'[t] = r
  BY <1>1, <1>6 DEF TypeOK
<1>17. TickFits'
  BY <1>1, <1>12, <1>14, <1>16 DEF TickFits
<1> QED
  BY <1>15, <1>17

LEMMA SpawnLedger ==
  ASSUME LedgerInv, TypeOK', Spawn
  PROVE  TasksFit' /\ LateFit' /\ TickFits'
<1>1. PICK t \in Tasks : t = tick.at /\ record[t].stage = "running"
  BY DEF Spawn, LedgerInv, TurnInv, Placed
<1>2. /\ TypeOK /\ record[t].pending = {} /\ tick' = NoTick /\ pc' = "rest"
      /\ UNCHANGED <<taskVars, record, late>>
  BY <1>1, EndTickMoves DEF Spawn, LedgerInv, TurnInv, TypeOK
<1>3. /\ Fits(task[t], record[t], granted[t]) /\ Told(task[t], record[t], turn[t].outcome)
      /\ launched[t] < record[t].attempt /\ launched[t] \in Nat /\ record[t].attempt \in Nat
  BY <1>1, <1>2 DEF Spawn, LedgerInv, TasksFit, TickFits, TypeOK, RecordType
<1>4. task[t].status \notin Terminal
  BY <1>1, <1>2, <1>3 DEF Fits
<1>5. Told(task[t], record[t], turn'[t].outcome)
  BY <1>2, <1>4 DEF Told, Terminal
<1>6. launched'[t] \in {launched[t], launched[t] + 1}
      /\ \A s \in Tasks : s # t => launched'[s] = launched[s] /\ turn'[s].outcome = turn[s].outcome
  BY <1>1, <1>2 DEF Spawn, TypeOK
<1>7. launched'[t] <= record[t].attempt
  BY <1>3, <1>6
<1>8. Newer(task[t], task'[t]) /\ record[t].nonce \in Nat
  BY <1>2, NewerSelf DEF TypeOK, taskVars, RecordType
<1>9. Advances(t)
  BY <1>2, <1>3, <1>5, <1>7, <1>8 DEF Advances, taskVars
<1>10. TasksFit' /\ LateFit'
  BY <1>2, <1>6, <1>9, OneTask DEF taskVars
<1> QED
  BY <1>2, <1>10 DEF TickFits

LEMMA AgentLedger ==
  ASSUME LedgerInv, TypeOK', NEW t \in Tasks, AgentEnds(t) \/ AgentLost(t) \/ GraceEnds(t)
  PROVE  TasksFit' /\ LateFit' /\ TickFits'
<1>1. TypeOK /\ turn[t] \in TurnType /\ UNCHANGED <<taskVars, record, pc, tick, late, launched>>
  BY DEF AgentEnds, AgentLost, GraceEnds, LedgerInv, TurnInv, TypeOK
<1>2. \A s \in Tasks : s # t => turn'[s].outcome = turn[s].outcome
  BY <1>1 DEF AgentEnds, AgentLost, GraceEnds, TypeOK
<1>3. AgentLost(t) \/ GraceEnds(t) => turn'[t].outcome = turn[t].outcome
  BY <1>1 DEF AgentLost, GraceEnds, TypeOK, TurnType
<1>4. CASE turn'[t].outcome = turn[t].outcome
  <2>1. \A s \in Tasks : turn'[s].outcome = turn[s].outcome
    BY <1>2, <1>4
  <2>2. TasksFit' /\ LateFit'
    BY <1>1, <2>1, Quiet DEF taskVars
  <2>3. TickFits'
    <3>1. pc = "judge" => tick.at \in Tasks
      BY DEF LedgerInv, TurnInv, Placed
    <3> QED
      BY <1>1, <2>1, <3>1 DEF LedgerInv, TickFits, taskVars
  <2> QED
    BY <2>2, <2>3
<1>5. CASE AgentEnds(t)
  <2>1. record[t].stage = "running" /\ turn[t].outcome = None
    BY <1>5 DEF AgentEnds, LedgerInv, TurnInv, Recorded, Active
  <2>2. record[t].pending = {} /\ record[t].nonce \in Nat /\ task[t] \in RowType
    BY <1>1, <2>1 DEF TypeOK, RecordType
  <2>3. /\ Fits(task[t], record[t], granted[t]) /\ Told(task[t], record[t], turn[t].outcome)
        /\ launched[t] <= record[t].attempt
    BY DEF LedgerInv, TasksFit
  <2>4. task[t].status \notin Terminal
    BY <2>1, <2>2, <2>3 DEF Fits
  <2>5. Told(task[t], record[t], turn'[t].outcome)
    BY <2>2, <2>4 DEF Told, Terminal
  <2>6. Newer(task[t], task'[t])
    BY <1>1, <2>2, NewerSelf DEF taskVars
  <2>7. Advances(t)
    BY <1>1, <2>2, <2>3, <2>5, <2>6 DEF Advances, taskVars
  <2>8. TasksFit' /\ LateFit'
    BY <1>1, <1>2, <2>7, OneTask DEF taskVars
  <2>9. pc = "judge" /\ tick.outcome # None => tick.at \in Tasks /\ tick.at # t
    BY <2>1 DEF LedgerInv, TurnInv, Placed
  <2>10. TickFits'
    BY <1>1, <1>2, <2>9 DEF LedgerInv, TickFits, taskVars
  <2> QED
    BY <2>8, <2>10
<1> QED
  BY <1>3, <1>4, <1>5

(* A request that arrives late.  While the worker asks what became of an   *)
(* update, no request can have an effect any more.                         *)
LEMMA LateLedger ==
  ASSUME LedgerInv, TypeOK', NEW request \in late, Late(request)
  PROVE  TasksFit' /\ LateFit' /\ TickFits'
<1>1. TypeOK /\ late' \subseteq late /\ UNCHANGED <<granted, record, turn, pc, tick, launched>>
  BY DEF Late, LedgerInv, TurnInv
<1>2. PICK t \in Tasks : t = request.task
  BY <1>1 DEF TypeOK
<1>3. PICK u \in UpdateType : u = request.update
  BY <1>1 DEF TypeOK
<1>4. PICK row \in RowType : row = task[t]
  BY <1>1 DEF TypeOK
<1>5. PICK old \in RecordType : old = record[t]
  BY <1>1 DEF TypeOK
<1>6. PICK g \in Nat : g = granted[t]
  BY <1>1 DEF TypeOK
<1>7. PICK o : o = turn[t].outcome
  OBVIOUS
<1>8. PICK n \in RowType : n = Updated(row, u)
  BY UpdatedTyped
<1>9. task' = [task EXCEPT ![t] = n]
  BY <1>2, <1>3, <1>4, <1>8 DEF Late
<1>10. task'[t] = n /\ \A s \in Tasks : s # t => task'[s] = task[s]
  BY <1>1, <1>9 DEF TypeOK
<1>11. Fits(row, old, g) /\ Told(row, old, o) /\ launched[t] <= old.attempt
  BY <1>4, <1>5, <1>6, <1>7 DEF LedgerInv, TasksFit
<1>12. LateFits(row, old, u)
  BY <1>2, <1>3, <1>4, <1>5 DEF LedgerInv, LateFit
<1>13. old.pending # {} <=> old.stage \in {"claiming", "reporting"}
  BY <1>1, <1>5 DEF TypeOK
<1>14. Fits(n, old, g) /\ Told(n, old, o)
  BY <1>8, <1>11, <1>12, <1>13, UpdatedFits
<1>15. Newer(row, n) /\ old.nonce \in Nat
  BY <1>8, UpdatedNewer DEF RecordType
<1>16. Advances(t)
  BY <1>1, <1>4, <1>5, <1>6, <1>7, <1>10, <1>11, <1>14, <1>15 DEF Advances
<1>17. TasksFit' /\ LateFit'
  BY <1>1, <1>10, <1>16, OneTask
<1>18. pc = "get" /\ tick.at = t => n = row
  <2>1. SUFFICES ASSUME pc = "get", tick.at = t, n # row
                 PROVE  FALSE
    OBVIOUS
  <2>2. /\ u.key \notin row.keys /\ Open(row) /\ u.revision = row.revision
        /\ row.status \in AllowedIn(u.action)
    BY <1>8, <2>1, UpdatedFields
  <2>3. row.revision \in Nat
    BY DEF RowType
  <2>4. ~Moot(row, u)
    BY <2>2, <2>3 DEF Moot, Open
  <2>5. u \in old.pending
    BY <1>12, <2>2, <2>4 DEF LateFits
  <2>6. Moot(row, u)
    BY <1>4, <1>5, <2>1, <2>5 DEF LedgerInv, TickFits
  <2> QED
    BY <2>4, <2>6
<1>19. TickFits'
  <2>1. pc = "get" => tick.at \in Tasks
    BY DEF LedgerInv, TurnInv, Placed
  <2>2. pc = "get" => task'[tick.at] = task[tick.at]
    BY <1>4, <1>10, <1>18, <2>1
  <2> QED
    BY <1>1, <2>2 DEF LedgerInv, TickFits
<1> QED
  BY <1>17, <1>19

(* What the requesters, their owners and the clock do to a row, and to the *)
(* number of approvals granted.                                            *)
Serves(row, n, g, g2) ==
    /\ g2 \in Nat
    /\ n.keys = row.keys /\ n.result = row.result
    /\ row.expired => n.expired
    /\ \/ n.status = row.status /\ n.revision = row.revision
       \/ /\ n.revision = row.revision + 1
          /\ row.status \notin Terminal /\ n.status \notin Terminal
    /\ n.approval.id = row.approval.id
    /\ \/ n.approval.status = row.approval.status /\ g2 = g
       \/ row.approval.status = "pending" /\ n.approval.status = "approved" /\ g2 = g + 1
       \/ row.approval.status = "pending" /\ n.approval.status = "declined" /\ g2 = g

LEMMA DecidedRow ==
  ASSUME TypeOK, NEW t \in Tasks, NEW decision \in {"approved", "declined"}, Decide(t, decision)
  PROVE  \E n : /\ task' = [task EXCEPT ![t] = n]
                /\ n.keys = task[t].keys /\ n.result = task[t].result
                /\ n.expired = task[t].expired
                /\ n.status = "working" /\ n.revision = task[t].revision + 1
                /\ n.approval.id = task[t].approval.id /\ n.approval.status = decision
<1>0. task \in [Tasks -> RowType]
  BY DEF TypeOK
<1>1. PICK row \in RowType : row = task[t]
  BY <1>0
<1>2. PICK n \in RowType : n = [row EXCEPT !.status = "working", !.revision = @ + 1, !.approval.status = decision]
  BY RowTyped DEF Statuses
<1>3. task' = [task EXCEPT ![t] = n]
  <2>1. task' = [task EXCEPT ![t].status = "working", ![t].revision = @ + 1, ![t].approval.status = decision]
    BY DEF Decide
  <2>2. task' = [task EXCEPT ![t] = [task[t] EXCEPT !.status = "working", !.revision = @ + 1, !.approval.status = decision]]
    BY <1>0, <2>1
  <2> QED
    BY <1>1, <1>2, <2>2
<1>4. PICK approval : approval = [row.approval EXCEPT !.status = decision]
  OBVIOUS
<1>5. PICK revision : revision = row.revision + 1
  OBVIOUS
<1>6. n = [row EXCEPT !.status = "working", !.revision = revision, !.approval = approval]
  BY <1>2, <1>4, <1>5
<1>7. row.approval \in ApprovalType
  BY DEF RowType
<1>8. approval.id = row.approval.id /\ approval.status = decision
  BY <1>4, <1>7 DEF ApprovalType
<1>9. /\ n.keys = row.keys /\ n.result = row.result /\ n.expired = row.expired
      /\ n.status = "working" /\ n.revision = revision /\ n.approval = approval
  BY <1>6 DEF RowType
<1> QED
  BY <1>1, <1>3, <1>5, <1>8, <1>9

LEMMA OthersServe ==
  ASSUME TypeOK, NEW t \in Tasks,
         Create(t) \/ Cancel(t) \/ Expire(t)
           \/ \E decision \in {"approved", "declined"} : Decide(t, decision)
  PROVE  \E n, g2 : /\ task' = [task EXCEPT ![t] = n] /\ granted' = [granted EXCEPT ![t] = g2]
                    /\ Serves(task[t], n, granted[t], g2)
<1>0. task \in [Tasks -> RowType]
  BY DEF TypeOK
<1>1. PICK row \in RowType : row = task[t]
  BY DEF TypeOK
<1>2. PICK g \in Nat : g = granted[t]
  BY DEF TypeOK
<1>3. PICK revision \in Nat : revision = row.revision + 1
  BY DEF RowType
<1>4. granted' = granted => granted' = [granted EXCEPT ![t] = g]
  BY <1>2 DEF TypeOK
<1> DEFINE Done(n, g2) == /\ task' = [task EXCEPT ![t] = n] /\ granted' = [granted EXCEPT ![t] = g2]
                          /\ Serves(row, n, g, g2)
<1>5. ASSUME Create(t) PROVE \E n, g2 : Done(n, g2)
  <2>1. PICK n : n = [row EXCEPT !.status = "submitted", !.revision = revision]
    OBVIOUS
  <2>2. row = NoTask /\ revision = 1
    BY <1>1, <1>3, <1>5 DEF Create, NoTask
  <2>3. task' = [task EXCEPT ![t] = n]
    BY <1>1, <1>5, <2>1, <2>2 DEF Create
  <2>4. /\ n.keys = row.keys /\ n.result = row.result /\ n.expired = row.expired
        /\ n.status = "submitted" /\ n.revision = revision /\ n.approval = row.approval
    BY <2>1 DEF RowType
  <2>5. row.status \notin Terminal /\ n.status \notin Terminal
    BY <2>2, <2>4 DEF NoTask, Terminal
  <2>6. Serves(row, n, g, g)
    BY <1>3, <2>4, <2>5 DEF Serves
  <2>7. granted' = [granted EXCEPT ![t] = g]
    BY <1>4, <1>5 DEF Create
  <2> QED
    BY <2>3, <2>6, <2>7
<1>6. ASSUME Cancel(t) PROVE \E n, g2 : Done(n, g2)
  <2>1. PICK n : n = [row EXCEPT !.status = "cancel_requested", !.revision = revision]
    OBVIOUS
  <2>2. task' = [task EXCEPT ![t] = n]
    BY <1>1, <1>3, <1>6, <2>1 DEF Cancel
  <2>3. /\ n.keys = row.keys /\ n.result = row.result /\ n.expired = row.expired
        /\ n.status = "cancel_requested" /\ n.revision = revision /\ n.approval = row.approval
    BY <2>1 DEF RowType
  <2>4. row.status \notin Terminal /\ n.status \notin Terminal
    BY <1>1, <1>6, <2>3 DEF Cancel, Open, Terminal
  <2>5. Serves(row, n, g, g)
    BY <1>3, <2>3, <2>4 DEF Serves
  <2>6. granted' = [granted EXCEPT ![t] = g]
    BY <1>4, <1>6 DEF Cancel
  <2> QED
    BY <2>2, <2>5, <2>6
<1>7. ASSUME Expire(t) PROVE \E n, g2 : Done(n, g2)
  <2>1. PICK n : n = [row EXCEPT !.expired = TRUE]
    OBVIOUS
  <2>2. task' = [task EXCEPT ![t] = n]
    BY <1>1, <1>7, <2>1 DEF Expire
  <2>3. /\ n.keys = row.keys /\ n.result = row.result /\ n.expired = TRUE
        /\ n.status = row.status /\ n.revision = row.revision /\ n.approval = row.approval
    BY <2>1 DEF RowType
  <2>4. Serves(row, n, g, g)
    BY <2>3 DEF Serves
  <2>5. granted' = [granted EXCEPT ![t] = g]
    BY <1>4, <1>7 DEF Expire
  <2> QED
    BY <2>2, <2>4, <2>5
<1>8. ASSUME NEW decision \in {"approved", "declined"}, Decide(t, decision)
      PROVE  \E n, g2 : Done(n, g2)
  <2>1. PICK n : /\ task' = [task EXCEPT ![t] = n]
                 /\ n.keys = row.keys /\ n.result = row.result /\ n.expired = row.expired
                 /\ n.status = "working" /\ n.revision = row.revision + 1
                 /\ n.approval.id = row.approval.id /\ n.approval.status = decision
    BY <1>1, <1>8, DecidedRow
  <2>2. PICK g2 : g2 = IF decision = "approved" THEN g + 1 ELSE g
    OBVIOUS
  <2>3. granted' = [granted EXCEPT ![t] = g2]
    BY <1>2, <1>8, <2>2 DEF Decide
  <2>4. row.status \notin Terminal /\ n.status \notin Terminal /\ row.approval.status = "pending"
    BY <1>1, <1>8, <2>1 DEF Decide, Open, Terminal
  <2>5. Serves(row, n, g, g2)
    BY <2>1, <2>2, <2>4 DEF Serves
  <2> QED
    BY <2>1, <2>3, <2>5
<1>9. \E n, g2 : Done(n, g2)
  BY <1>5, <1>6, <1>7, <1>8
<1> QED
  BY <1>1, <1>2, <1>9

LEMMA OthersLedger ==
  ASSUME LedgerInv, TypeOK', Others, UNCHANGED workerVars
  PROVE  TasksFit' /\ LateFit' /\ TickFits'
<1>1. TypeOK /\ UNCHANGED <<record, turn, pc, tick, late, launched>>
  BY DEF workerVars, LedgerInv, TurnInv
<1>2. PICK t \in Tasks : Create(t) \/ Cancel(t) \/ Expire(t)
         \/ \E decision \in {"approved", "declined"} : Decide(t, decision)
  BY DEF Others
<1>3. PICK row \in RowType : row = task[t]
  BY <1>1 DEF TypeOK
<1>4. PICK old \in RecordType : old = record[t]
  BY <1>1 DEF TypeOK
<1>5. PICK g \in Nat : g = granted[t]
  BY <1>1 DEF TypeOK
<1>6. PICK o : o = turn[t].outcome
  OBVIOUS
<1>7. PICK n, g2 : /\ task' = [task EXCEPT ![t] = n] /\ granted' = [granted EXCEPT ![t] = g2]
                   /\ Serves(row, n, g, g2)
  BY <1>1, <1>2, <1>3, <1>5, OthersServe
<1>8. /\ task'[t] = n /\ \A s \in Tasks : s # t => task'[s] = task[s]
      /\ granted'[t] = g2 /\ \A s \in Tasks : s # t => granted'[s] = granted[s]
  BY <1>1, <1>7 DEF TypeOK
<1>9. n \in RowType
  BY <1>8 DEF TypeOK
<1>10. Fits(row, old, g) /\ Told(row, old, o) /\ launched[t] <= old.attempt
  BY <1>3, <1>4, <1>5, <1>6 DEF LedgerInv, TasksFit
<1>11. Fits(n, old, g2) /\ Told(n, old, o) /\ Newer(row, n)
  BY <1>7, <1>9, <1>10, ServedFits DEF Serves
<1>12. old.nonce \in Nat
  BY DEF RecordType
<1>13. Advances(t)
  BY <1>1, <1>3, <1>4, <1>6, <1>8, <1>10, <1>11, <1>12 DEF Advances
<1>14. TasksFit' /\ LateFit'
  BY <1>1, <1>8, <1>13, OneTask
<1>15. pc = "get" /\ tick.at = t =>
          \A u \in old.pending : u.key \notin n.keys /\ Moot(n, u)
  <2>1. SUFFICES ASSUME pc = "get", tick.at = t, NEW u \in old.pending
                 PROVE  u.key \notin n.keys /\ Moot(n, u)
    OBVIOUS
  <2>2. u.key \notin row.keys /\ Moot(row, u)
    BY <1>3, <1>4, <2>1 DEF LedgerInv, TickFits
  <2>3. u \in UpdateType
    BY DEF RecordType
  <2>4. LateFits(row, old, u)
    BY <1>10, <2>1 DEF Fits, LateFits
  <2>5. u.revision \in Nat /\ row.revision \in Nat /\ n.revision \in Nat /\ u.revision <= row.revision
    BY <1>9, <2>3, <2>4 DEF UpdateType, RowType, LateFits
  <2>6. Moot(n, u)
    BY <1>7, <1>11, <2>2, <2>5 DEF Newer, Moot, Serves
  <2> QED
    BY <1>7, <2>2, <2>6 DEF Serves
<1>16. TickFits'
  <2>1. pc = "get" => tick.at \in Tasks
    BY DEF LedgerInv, TurnInv, Placed
  <2>2. pc = "get" => \A u \in record[tick.at].pending :
            u.key \notin task'[tick.at].keys /\ Moot(task'[tick.at], u)
    BY <1>4, <1>8, <1>15, <2>1 DEF LedgerInv, TickFits
  <2> QED
    BY <1>1, <2>2 DEF LedgerInv, TickFits
<1> QED
  BY <1>14, <1>16

------------------------------------------------------------------------------
LEMMA LedgerInit == Init => LedgerInv
<1> SUFFICES ASSUME Init PROVE LedgerInv
  OBVIOUS
<1>1. TurnInv /\ late = {} /\ pc = "rest"
  BY TurnInit DEF Init
<1>2. ASSUME NEW t \in Tasks
      PROVE  /\ Fits(task[t], record[t], granted[t]) /\ Told(task[t], record[t], turn[t].outcome)
             /\ SeenFits(task[t], tick.seen[t]) /\ launched[t] <= record[t].attempt
  <2>1. /\ task[t] = NoTask /\ record[t] = NoRecord /\ granted[t] = 0 /\ launched[t] = 0
        /\ tick.seen[t] = Summary(NoTask)
    BY DEF Init, TasksInit, NoTick
  <2>2. Fits(NoTask, NoRecord, 0)
    BY DEF Fits, Asked, NoTask, NoRecord, NoApproval, Terminal
  <2>3. Told(NoTask, NoRecord, turn[t].outcome)
    BY DEF Told, NoTask, NoRecord
  <2>4. SeenFits(NoTask, Summary(NoTask))
    BY NoneTyped, Unseen
  <2>5. 0 <= NoRecord.attempt
    BY DEF NoRecord
  <2> QED
    BY <2>1, <2>2, <2>3, <2>4, <2>5
<1> QED
  BY <1>1, <1>2 DEF LedgerInv, TasksFit, LateFit, TickFits

LEMMA LedgerStays == LedgerInv /\ [Next]_vars => LedgerInv'
<1> SUFFICES ASSUME LedgerInv, [Next]_vars PROVE LedgerInv'
  OBVIOUS
<1> DEFINE Kept == TasksFit' /\ LateFit' /\ TickFits'
<1>1. TurnInv' /\ TypeOK'
  BY TurnStays DEF LedgerInv, TurnInv
<1>2. CASE Calls
  BY <1>1, <1>2, FetchLedger, UpdateAcceptedLedger, UpdateRejectedLedger, GetAnsweredLedger,
     FailedCallLedger DEF Calls, LedgerInv
<1>3. CASE Records
  BY <1>1, <1>3, RecordsLedger, ReadOutcomeLedger, JudgeOverLedger DEF Records, LedgerInv
<1>4. CASE Visits
  BY <1>1, <1>4, VisitLedger, DispatchLedger, SpawnLedger, RecordsLedger DEF Visits, LedgerInv
<1>5. CASE Start \/ Failures
  BY <1>1, <1>5, FailedCallLedger, ProcessLedger, AgentLedger, LateLedger DEF Failures, LedgerInv
<1>6. CASE \E t \in Tasks : AgentStep(t)
  BY <1>1, <1>6, AgentLedger DEF AgentStep, LedgerInv
<1>7. CASE (Others /\ UNCHANGED workerVars) \/ UNCHANGED vars
  BY <1>1, <1>7, OthersLedger, ProcessLedger DEF LedgerInv
<1> QED
  BY <1>2, <1>3, <1>4, <1>5, <1>6, <1>7 DEF Next, WorkerStep

(* The ledger of a task, its record and its agent holds throughout: rows   *)
(* are judged by summaries that may be old, and requests may be late.      *)
THEOREM LedgerInvariant == Spec => []LedgerInv
BY LedgerInit, LedgerStays, PTL DEF Spec

(* An agent is started once for a task and once more for each approval its *)
(* owner granted, for any number of crashes, lost answers, late requests   *)
(* and stale lists.                                                        *)
THEOREM NoUngrantedAttempt == Spec => [](\A t \in Tasks : launched[t] <= 1 + granted[t])
<1>1. ASSUME LedgerInv, NEW t \in Tasks
      PROVE  launched[t] <= 1 + granted[t]
  <2>1. launched[t] \in Nat /\ record[t].attempt \in Nat /\ granted[t] \in Nat
    BY <1>1 DEF LedgerInv, TurnInv, TypeOK, RecordType
  <2>2. launched[t] <= record[t].attempt /\ record[t].attempt <= 1 + granted[t]
    BY <1>1 DEF LedgerInv, TasksFit, Fits
  <2> QED
    BY <2>1, <2>2
<1>2. LedgerInv => \A t \in Tasks : launched[t] <= 1 + granted[t]
  BY <1>1
<1> QED
  BY <1>2, LedgerInvariant, PTL

(* A task shows success only with the result its last agent saved, and is  *)
(* called failed or cancelled only when that agent is gone.                *)
THEOREM TellsTheTruth == Spec => []ReportsTruthful
<1>1. ASSUME LedgerInv, NEW t \in Tasks
      PROVE  /\ task[t].status = "completed" =>
                   task[t].result = record[t].attempt /\ turn[t].outcome = "completed"
             /\ task[t].status \in {"failed", "cancelled"} => ~Active(t)
  <2>1. Fits(task[t], record[t], granted[t]) /\ Told(task[t], record[t], turn[t].outcome)
    BY <1>1 DEF LedgerInv, TasksFit
  <2>2. record[t].pending # {} <=> record[t].stage \in {"claiming", "reporting"}
    BY <1>1 DEF LedgerInv, TurnInv, TypeOK
  <2>3. task[t].status \in Terminal => record[t].stage # "running"
    BY <2>1, <2>2 DEF Fits
  <2> QED
    BY <1>1, <2>1, <2>3 DEF Told, Terminal, LedgerInv, TurnInv, Recorded
<1>2. LedgerInv => ReportsTruthful
  BY <1>1 DEF ReportsTruthful
<1> QED
  BY <1>2, LedgerInvariant, PTL
------------------------------------------------------------------------------
(* The worker and the service implement MailboxAbs.  Most steps are seen   *)
(* as none: they only move the worker, its records and its requests.       *)

View == <<Shown, Results, granted, Attempts, Phases, launched>>

(* No step to the agents, the attempts or the beginning of one.            *)
Alike ==
    /\ \A t \in Tasks : turn'[t].process = turn[t].process /\ turn'[t].outcome = turn[t].outcome
    /\ \A t \in Tasks : record'[t].attempt = record[t].attempt
    /\ \/ pc # "spawn" /\ pc' # "spawn"
       \/ pc' = pc /\ tick' = tick

LEMMA AlikeSeen ==
  ASSUME Alike, UNCHANGED launched
  PROVE  UNCHANGED <<Attempts, Phases, launched>>
<1>1. Attempts' = Attempts
  BY DEF Attempts, Alike
<1>2. ASSUME NEW t \in Tasks PROVE PhaseOf(t)' = PhaseOf(t)
  BY DEF PhaseOf, Active, Alike
<1>3. Phases' = Phases
  BY <1>2 DEF Phases
<1> QED
  BY <1>1, <1>3

LEMMA NothingSeen ==
  ASSUME Alike, UNCHANGED <<taskVars, launched>>
  PROVE  UNCHANGED View
<1>1. Shown' = Shown /\ Results' = Results /\ granted' = granted
  BY DEF Shown, Results, taskVars
<1> QED
  BY <1>1, AlikeSeen DEF View

(* What became of a record that is only sent, judged or settled.           *)
LEMMA SameAttempts ==
  ASSUME TypeOK, NEW t \in Tasks, NEW r \in RecordType, r.attempt = record[t].attempt,
         record' = [record EXCEPT ![t] = r]
  PROVE  \A s \in Tasks : record'[s].attempt = record[s].attempt
BY DEF TypeOK

LEMMA WithUpdateAttempt ==
  ASSUME NEW r \in RecordType, NEW summary \in SummaryType, NEW action \in Actions
  PROVE  WithUpdate(r, summary, action).attempt = r.attempt
BY DEF WithUpdate, RecordType

(* The worker's files and places keep the attempts and the agents.         *)
LEMMA SendingAlike ==
  ASSUME LedgerInv, NEW t \in Tasks, NEW r \in RecordType, NEW summary \in SummaryType,
         NEW action \in Actions, r.attempt = record[t].attempt,
         record' = [record EXCEPT ![t] = WithUpdate(r, summary, action)],
         turn' = turn, pc # "spawn", pc' # "spawn"
  PROVE  Alike
<1>1. PICK n \in RecordType : n = WithUpdate(r, summary, action) /\ n.attempt = r.attempt
  BY WithUpdateTyped, WithUpdateAttempt
<1>2. \A s \in Tasks : record'[s].attempt = record[s].attempt
  BY <1>1, SameAttempts DEF LedgerInv, TurnInv
<1> QED
  BY <1>2 DEF Alike

LEMMA StageAlike ==
  ASSUME LedgerInv, NEW t \in Tasks, NEW stage,
         record' = [record EXCEPT ![t].stage = stage],
         turn' = turn, pc # "spawn", pc' # "spawn"
  PROVE  Alike
<1>1. PICK r \in RecordType : r = record[t]
  BY DEF LedgerInv, TurnInv, TypeOK
<1>2. PICK n : n = [r EXCEPT !.stage = stage]
  OBVIOUS
<1>3. n.attempt = r.attempt /\ record' = [record EXCEPT ![t] = n]
  BY <1>1, <1>2 DEF RecordType
<1>4. \A s \in Tasks : record'[s].attempt = record[s].attempt
  BY <1>1, <1>3 DEF LedgerInv, TurnInv, TypeOK
<1> QED
  BY <1>4 DEF Alike

LEMMA QuietAlike ==
  ASSUME UNCHANGED <<record, turn>>, pc # "spawn", pc' # "spawn"
  PROVE  Alike
BY DEF Alike

------------------------------------------------------------------------------
(* The steps of the worker that are not seen.                              *)

LEMMA CallsUnseen ==
  ASSUME LedgerInv,
         Fetch \/ UpdateRejected \/ UpdateRefused \/ FetchFails \/ UpdateFails \/ GetFails
  PROVE  UNCHANGED View
<1>1. UNCHANGED <<taskVars, record, turn, launched>>
  BY AbortMoves DEF Fetch, UpdateRejected, UpdateRefused, FetchFails, UpdateFails, GetFails
<1>2. pc # "spawn" /\ pc' # "spawn"
  BY AbortMoves DEF Fetch, UpdateRejected, UpdateRefused, FetchFails, UpdateFails, GetFails
<1> QED
  BY <1>1, <1>2, QuietAlike, NothingSeen

LEMMA GetUnseen ==
  ASSUME LedgerInv, GetAnswered
  PROVE  UNCHANGED View
<1>1. PICK t \in Tasks : t = tick.at
  BY DEF GetAnswered, LedgerInv, TurnInv, Placed
<1>2. TypeOK /\ tick.back # "rest" /\ pc = "get" /\ UNCHANGED <<taskVars, turn, launched>>
  BY DEF GetAnswered, LedgerInv, TurnInv, Placed
<1>3. PICK now \in SummaryType : now = Summary(task[t])
  BY <1>2, SummaryTyped DEF TypeOK
<1>4. PICK old \in RecordType : old = record[t]
  BY <1>2 DEF TypeOK
<1>5. PICK idle \in RecordType : idle = [old EXCEPT !.pending = {}] /\ idle.attempt = old.attempt
  <2>1. [old EXCEPT !.pending = {}] \in RecordType /\ [old EXCEPT !.pending = {}].attempt = old.attempt
    BY DEF RecordType
  <2> QED
    BY <2>1
<1>6. CASE /\ record' = [record EXCEPT ![t] = [idle EXCEPT !.stage = IF Finished(now) THEN "done" ELSE "blocked"]]
           /\ Resume
  <2>1. PICK stage \in {"done", "blocked"} : stage = IF Finished(now) THEN "done" ELSE "blocked"
    OBVIOUS
  <2>2. PICK n \in RecordType : n = [idle EXCEPT !.stage = stage] /\ n.attempt = idle.attempt
    <3>1. [idle EXCEPT !.stage = stage] \in RecordType /\ [idle EXCEPT !.stage = stage].attempt = idle.attempt
      BY DEF RecordType, Stages
    <3> QED
      BY <3>1
  <2>3. record' = [record EXCEPT ![t] = n]
    BY <1>6, <2>1, <2>2
  <2>4. \A s \in Tasks : record'[s].attempt = record[s].attempt
    BY <1>2, <1>4, <1>5, <2>2, <2>3, SameAttempts
  <2>5. pc' # "spawn"
    BY <1>2, <1>6, ResumeLedger
  <2> QED
    BY <1>2, <2>4, <2>5, NothingSeen DEF Alike
<1>7. CASE record' = [record EXCEPT ![t] = WithUpdate(idle, now, "cancelled")] /\ pc' = "update"
  BY <1>2, <1>4, <1>5, <1>7, SendingAlike, NothingSeen DEF Actions
<1> QED
  BY <1>1, <1>3, <1>4, <1>5, <1>6, <1>7 DEF GetAnswered

LEMMA RecordsUnseen ==
  ASSUME LedgerInv,
         (\E t \in Tasks : Flush(t)) \/ StillRunning \/ EndRecords \/ EndTasks
  PROVE  UNCHANGED View
<1>1. UNCHANGED <<taskVars, record, turn, launched>>
  BY DEF Flush, StillRunning, EndRecords, EndTasks
<1>2. pc # "spawn" /\ pc' # "spawn"
  BY DEF Flush, StillRunning, EndRecords, EndTasks, Call, GoOn, EndTick
<1> QED
  BY <1>1, <1>2, QuietAlike, NothingSeen

LEMMA ReadOutcomeUnseen ==
  ASSUME LedgerInv, NEW t \in Tasks, ReadOutcome(t)
  PROVE  UNCHANGED View
<1>1. /\ TypeOK /\ pc = "records" /\ pc' = "judge" /\ turn[t] \in TurnType
      /\ UNCHANGED <<taskVars, record, launched>>
  BY DEF ReadOutcome, LedgerInv, TurnInv, TypeOK
<1>2. PICK cancel : turn' = [turn EXCEPT ![t].cancel = cancel]
  BY DEF ReadOutcome
<1>3. \A s \in Tasks : turn'[s].process = turn[s].process /\ turn'[s].outcome = turn[s].outcome
  BY <1>1, <1>2 DEF TypeOK, TurnType
<1> QED
  BY <1>1, <1>3, NothingSeen DEF Alike

LEMMA JudgeUnseen ==
  ASSUME LedgerInv, JudgeOver
  PROVE  UNCHANGED View
<1>1. PICK t \in Tasks : t = tick.at
  BY DEF JudgeOver, LedgerInv, TurnInv, Placed
<1>2. TypeOK /\ pc = "judge" /\ UNCHANGED <<taskVars, turn, launched>>
  BY DEF JudgeOver, LedgerInv, TurnInv
<1>3. PICK seen \in SummaryType : seen = tick.seen[t]
  BY <1>2 DEF TypeOK, TickType
<1>4. PICK action \in Actions :
        action = IF seen.status = "cancel_requested" THEN "cancelled" ELSE Report(tick.outcome)
  BY ReportTyped DEF Actions
<1>5. PICK old \in RecordType : old = record[t]
  BY <1>2 DEF TypeOK
<1>6. CASE record' = [record EXCEPT ![t].stage = "done"] /\ GoOn(FALSE)
  BY <1>2, <1>6, StageAlike, NothingSeen DEF GoOn
<1>7. CASE record' = [record EXCEPT ![t] = WithUpdate(old, seen, action)] /\ pc' = "update"
  BY <1>2, <1>5, <1>7, SendingAlike, NothingSeen
<1> QED
  BY <1>1, <1>3, <1>4, <1>5, <1>6, <1>7 DEF JudgeOver

LEMMA VisitUnseen ==
  ASSUME LedgerInv, NEW t \in Tasks, Claim(t) \/ Withdraw(t) \/ TakeDecision(t)
  PROVE  UNCHANGED View
<1>1. TypeOK /\ pc = "tasks" /\ UNCHANGED <<taskVars, turn, launched>>
  BY DEF Claim, Withdraw, TakeDecision, First, LedgerInv, TurnInv
<1>2. record[t] \in RecordType /\ tick.seen[t] \in SummaryType
  BY <1>1 DEF TypeOK, TickType
<1>3. ASSUME NEW action \in Actions, NEW back, Update(t, tick.seen[t], action, back)
      PROVE  UNCHANGED View
  <2>1. record' = [record EXCEPT ![t] = WithUpdate(record[t], tick.seen[t], action)] /\ pc' = "update"
    BY <1>3 DEF Update, Call
  <2> QED
    BY <1>1, <1>2, <2>1, SendingAlike, NothingSeen
<1>4. CASE record' = [record EXCEPT ![t].stage = "ready"] /\ UNCHANGED <<pc, tick>>
  BY <1>1, <1>4, StageAlike, NothingSeen
<1> QED
  BY <1>3, <1>4 DEF Claim, Withdraw, TakeDecision, Actions

LEMMA ProcessUnseen ==
  ASSUME LedgerInv, Stop \/ Start \/ Unpair \/ UNCHANGED vars
  PROVE  UNCHANGED View
<1>1. UNCHANGED <<task, granted, record, turn, launched>>
  BY DEF Stop, Start, Unpair, vars, taskVars, workerVars
<1>2. (pc' = pc /\ tick' = tick) \/ (pc # "spawn" /\ pc' # "spawn")
  BY DEF Stop, Start, Unpair, vars, workerVars, On
<1>3. Alike
  BY <1>1, <1>2 DEF Alike
<1>4. Shown' = Shown /\ Results' = Results
  BY <1>1 DEF Shown, Results
<1> QED
  BY <1>1, <1>3, <1>4, AlikeSeen DEF View

------------------------------------------------------------------------------
(* The steps that are seen.                                                *)

(* A task that has ended is between two attempts.                          *)
LEMMA EndedIdle ==
  ASSUME LedgerInv', NEW t \in Tasks, task'[t].status \in Terminal
  PROVE  ~Active(t)' /\ ~(pc' = "spawn" /\ tick'.at = t)
<1>1. record'[t].pending # {} <=> record'[t].stage \in {"claiming", "reporting"}
  BY DEF LedgerInv, TurnInv, TypeOK
<1>2. Fits(task'[t], record'[t], granted'[t])
  BY DEF LedgerInv, TasksFit
<1>3. record'[t].stage # "running"
  BY <1>1, <1>2 DEF Fits
<1> QED
  BY <1>3 DEF LedgerInv, TurnInv, Recorded, Placed

(* While an attempt is prepared no agent runs, and no other is prepared.   *)
LEMMA PreparedAlone ==
  ASSUME LedgerInv, pc \in {"tasks", "spawn"}, NEW t \in Tasks
  PROVE  ~Active(t)
BY DEF LedgerInv, TurnInv, Known, InTasks

LEMMA DispatchSeen ==
  ASSUME LedgerInv, NEW t \in Tasks, Dispatch(t)
  PROVE  Promise!Prepare(t)
<1>1. /\ TypeOK /\ tick \in TickType /\ pc = "tasks" /\ pc' = "spawn"
      /\ record[t].pending = {} /\ record[t].stage = "ready"
      /\ UNCHANGED <<taskVars, launched>>
  BY DEF Dispatch, First, Startable, Waiting, LedgerInv, TurnInv, TypeOK
<1>2. PICK old \in RecordType : old = record[t]
  BY <1>1 DEF TypeOK
<1>3. PICK attempt \in Nat : attempt = old.attempt + 1
  BY DEF RecordType
<1>4. PICK r : r = [old EXCEPT !.stage = "running", !.attempt = attempt]
  OBVIOUS
<1>5. r.attempt = attempt /\ record' = [record EXCEPT ![t] = r]
  BY <1>2, <1>3, <1>4 DEF Dispatch, RecordType
<1>6. task[t].status \notin Terminal /\ old.attempt <= granted[t]
  BY <1>1, <1>2 DEF LedgerInv, TasksFit, Fits
<1>7. Shown' = Shown /\ Results' = Results /\ granted' = granted /\ Shown[t] = "open"
  BY <1>1, <1>6 DEF Shown, Results, taskVars
<1>8. Attempts' = [Attempts EXCEPT ![t] = Attempts[t] + 1] /\ Attempts[t] = old.attempt
  <2>1. \A s \in Tasks : record'[s].attempt = IF s = t THEN attempt ELSE record[s].attempt
    BY <1>1, <1>5 DEF TypeOK
  <2> QED
    BY <1>2, <1>3, <2>1 DEF Attempts
<1>9. \A s \in Tasks : ~Active(s)
  BY <1>1, PreparedAlone
<1>10. \A s \in Tasks : Phases[s] \notin {"prepared", "running"}
  BY <1>1, <1>9 DEF Phases, PhaseOf
<1>11. tick'.at = t
  BY <1>1 DEF Dispatch, TickType
<1>12. Phases' = [Phases EXCEPT ![t] = "prepared"]
  <2>1. \A s \in Tasks : s # t => turn'[s] = turn[s]
    BY <1>1 DEF Dispatch, TypeOK
  <2>2. ASSUME NEW s \in Tasks PROVE PhaseOf(s)' = IF s = t THEN "prepared" ELSE PhaseOf(s)
    BY <1>1, <1>11, <2>1 DEF PhaseOf, Active
  <2> QED
    BY <2>2 DEF Phases
<1> QED
  BY <1>1, <1>6, <1>7, <1>8, <1>10, <1>12 DEF Promise!Prepare, Promise!Busy

(* A prepared attempt at t becomes what its agent's files and process say. *)
LEMMA PhaseMoves ==
  ASSUME TypeOK, NEW t \in Tasks, NEW phase,
         \A s \in Tasks : s # t => turn'[s].process = turn[s].process /\ turn'[s].outcome = turn[s].outcome,
         \A s \in Tasks : s # t => (pc = "spawn" /\ tick.at = s <=> pc' = "spawn" /\ tick'.at = s),
         PhaseOf(t)' = phase
  PROVE  Phases' = [Phases EXCEPT ![t] = phase]
<1>1. ASSUME NEW s \in Tasks, s # t PROVE PhaseOf(s)' = PhaseOf(s)
  BY <1>1 DEF PhaseOf, Active
<1> QED
  BY <1>1 DEF Phases

LEMMA AttemptsOver ==
  ASSUME UNCHANGED <<taskVars, record>>
  PROVE  UNCHANGED <<Shown, Results, granted, Attempts>>
BY DEF Shown, Results, Attempts, taskVars

LEMMA SpawnSeen ==
  ASSUME LedgerInv, Spawn
  PROVE  \E t \in Tasks : Promise!Launch(t) \/ Promise!End(t)
<1>1. PICK t \in Tasks : t = tick.at
  BY DEF Spawn, LedgerInv, TurnInv, Placed
<1>2. TypeOK /\ turn[t] \in TurnType /\ pc = "spawn" /\ UNCHANGED <<taskVars, record>>
  BY DEF Spawn, LedgerInv, TurnInv, TypeOK
<1>3. pc' # "spawn"
  BY EndTickMoves DEF Spawn
<1>4. turn[t].outcome = None /\ ~Active(t) /\ Phases[t] = "prepared"
  BY <1>1, <1>2, PreparedAlone DEF LedgerInv, TurnInv, Placed, Phases, PhaseOf
<1>5. UNCHANGED <<Shown, Results, granted, Attempts>>
  BY <1>2, AttemptsOver
<1>6. ASSUME turn' = [turn EXCEPT ![t].process = "running"], launched' = [launched EXCEPT ![t] = @ + 1]
      PROVE  Promise!Launch(t)
  <2>1. turn'[t].process = "running" /\ \A s \in Tasks : s # t => turn'[s] = turn[s]
    BY <1>2, <1>6 DEF TypeOK, TurnType
  <2>2. PhaseOf(t)' = "running"
    BY <1>3, <2>1 DEF PhaseOf, Active
  <2>3. Phases' = [Phases EXCEPT ![t] = "running"]
    BY <1>1, <1>2, <1>3, <2>1, <2>2, PhaseMoves
  <2> QED
    BY <1>4, <1>5, <1>6, <2>3 DEF Promise!Launch
<1>7. ASSUME turn' = [turn EXCEPT ![t].outcome = "error"], UNCHANGED launched
      PROVE  Promise!End(t)
  <2>1. /\ turn'[t].outcome = "error" /\ turn'[t].process = turn[t].process
        /\ \A s \in Tasks : s # t => turn'[s] = turn[s]
    BY <1>2, <1>7 DEF TypeOK, TurnType
  <2>2. PhaseOf(t)' = "idle"
    BY <1>3, <1>4, <2>1 DEF PhaseOf, Active
  <2>3. Phases' = [Phases EXCEPT ![t] = "idle"]
    BY <1>1, <1>2, <1>3, <2>1, <2>2, PhaseMoves
  <2> QED
    BY <1>4, <1>5, <1>7, <2>3 DEF Promise!End, Promise!Busy
<1> QED
  BY <1>1, <1>6, <1>7 DEF Spawn

LEMMA CrashSeen ==
  ASSUME LedgerInv, Crash
  PROVE  (\E t \in Tasks : Promise!End(t)) \/ UNCHANGED View
<1>1. TypeOK /\ pc' = "crashed" /\ UNCHANGED <<taskVars, record, turn, launched>>
  BY DEF Crash, LedgerInv, TurnInv
<1>2. CASE pc # "spawn"
  BY <1>1, <1>2, QuietAlike, NothingSeen
<1>3. CASE pc = "spawn"
  <2>1. PICK t \in Tasks : t = tick.at
    BY <1>3 DEF LedgerInv, TurnInv, Placed
  <2>2. turn[t].outcome = None /\ ~Active(t) /\ Phases[t] = "prepared"
    BY <1>3, <2>1, PreparedAlone DEF LedgerInv, TurnInv, Placed, Phases, PhaseOf
  <2>3. PhaseOf(t)' = "idle"
    BY <1>1, <2>2 DEF PhaseOf, Active, None
  <2>4. Phases' = [Phases EXCEPT ![t] = "idle"]
    BY <1>1, <1>3, <2>1, <2>3, PhaseMoves
  <2>5. Promise!End(t)
    BY <1>1, <2>2, <2>4, AttemptsOver DEF Promise!End, Promise!Busy
  <2> QED
    BY <2>5
<1> QED
  BY <1>2, <1>3

LEMMA AgentSeen ==
  ASSUME LedgerInv, NEW t \in Tasks, AgentEnds(t) \/ AgentLost(t) \/ GraceEnds(t)
  PROVE  Promise!End(t) \/ UNCHANGED View
<1>1. TypeOK /\ turn[t] \in TurnType /\ UNCHANGED <<taskVars, record, pc, tick, launched>>
  BY DEF AgentEnds, AgentLost, GraceEnds, LedgerInv, TurnInv, TypeOK
<1>2. CASE GraceEnds(t)
  <2>1. \A s \in Tasks : turn'[s].process = turn[s].process /\ turn'[s].outcome = turn[s].outcome
    BY <1>1, <1>2 DEF GraceEnds, TypeOK, TurnType
  <2> QED
    BY <1>1, <2>1, NothingSeen DEF Alike
<1>3. CASE AgentEnds(t) \/ AgentLost(t)
  <2>1. Active(t) /\ turn[t].outcome = None
    BY <1>3 DEF AgentEnds, AgentLost, Active, LedgerInv, TurnInv, Recorded
  <2>2. pc # "spawn"
    BY <2>1, PreparedAlone
  <2>3. Phases[t] = "running"
    BY <2>1, <2>2 DEF Phases, PhaseOf
  <2>4. turn'[t].process = "gone" /\ \A s \in Tasks : s # t => turn'[s] = turn[s]
    <3>1. CASE AgentLost(t)
      BY <1>1, <3>1 DEF AgentLost, TypeOK, TurnType
    <3>2. CASE AgentEnds(t)
      <4>1. PICK outcome, recent :
              turn' = [turn EXCEPT ![t].process = "gone", ![t].outcome = outcome, ![t].recent = recent]
        BY <3>2 DEF AgentEnds
      <4>2. PICK gone : gone = [turn[t] EXCEPT !.process = "gone", !.outcome = outcome, !.recent = recent]
        OBVIOUS
      <4>3. turn' = [turn EXCEPT ![t] = gone]
        BY <4>1, <4>2
      <4>4. gone.process = "gone"
        BY <1>1, <4>2 DEF TurnType
      <4> QED
        BY <1>1, <4>3, <4>4 DEF TypeOK
    <3> QED
      BY <1>3, <3>1, <3>2
  <2>5. PICK phase \in {"idle", "saved"} : PhaseOf(t)' = phase
    BY <1>1, <2>2, <2>4 DEF PhaseOf, Active
  <2>6. Phases' = [Phases EXCEPT ![t] = phase]
    BY <1>1, <2>4, <2>5, PhaseMoves
  <2> QED
    BY <1>1, <2>3, <2>6, AttemptsOver DEF Promise!End, Promise!Busy
<1> QED
  BY <1>2, <1>3

(* An update that arrives ends its task or is not seen.                    *)
LEMMA UpdateSeen ==
  ASSUME LedgerInv, LedgerInv', NEW t \in Tasks, NEW u \in UpdateType,
         task' = [task EXCEPT ![t] = Updated(task[t], u)],
         UNCHANGED <<granted, launched, turn>>, Alike
  PROVE  (\E final \in Terminal : Promise!Finish(t, final)) \/ UNCHANGED View
<1>1. TypeOK /\ TypeOK' /\ UNCHANGED <<Attempts, Phases, launched>>
  BY AlikeSeen DEF LedgerInv, TurnInv
<1>2. PICK row \in RowType : row = task[t]
  BY <1>1 DEF TypeOK
<1>3. PICK n \in RowType : n = Updated(row, u)
  BY UpdatedTyped
<1>4. task'[t] = n /\ \A s \in Tasks : s # t => task'[s] = task[s]
  BY <1>1, <1>2, <1>3 DEF TypeOK
<1>5. CASE n = row \/ n.status \notin Terminal
  <2>1. row.status \notin Terminal \/ n = row
    BY <1>3, <1>5, UpdatedFields DEF Open
  <2>2. n.result = row.result
    BY <1>3, <1>5, UpdatedFields DEF StatusAfter, Terminal
  <2>3. Shown' = Shown
    BY <1>2, <1>4, <1>5, <2>1 DEF Shown
  <2>4. Results' = Results
    BY <1>2, <1>4, <2>2 DEF Results
  <2> QED
    BY <1>1, <2>3, <2>4 DEF View
<1>6. CASE n # row /\ n.status \in Terminal
  <2>1. /\ Open(row) /\ n.status = StatusAfter(u.action)
        /\ n.result = IF u.action = "complete" THEN u.result ELSE row.result
        /\ u.action \in Actions
    BY <1>3, <1>6, UpdatedFields DEF UpdateType
  <2>2. Shown[t] = "open"
    BY <1>2, <2>1 DEF Shown, Open
  <2>3. Shown' = [Shown EXCEPT ![t] = n.status]
    <3>1. \A s \in Tasks : Shown'[s] = IF s = t THEN n.status ELSE Shown[s]
      BY <1>4, <1>6 DEF Shown
    <3> QED
      BY <3>1 DEF Shown
  <2>4. ~Active(t)' /\ ~(pc' = "spawn" /\ tick'.at = t)
    BY <1>4, <1>6, EndedIdle
  <2>5. ~Promise!Busy(t)
    BY <1>1, <2>4 DEF Promise!Busy, Phases, PhaseOf
  <2>6. CASE n.status = "completed"
    <3>1. n.result = record'[t].attempt /\ turn'[t].outcome = "completed"
      BY <1>4, <2>6 DEF LedgerInv, TasksFit, Told
    <3>2. n.result = Attempts[t]
      BY <1>1, <3>1 DEF Attempts
    <3>3. Phases[t] = "saved"
      BY <1>1, <2>4, <3>1 DEF Phases, PhaseOf
    <3>4. Results' = [Results EXCEPT ![t] = Attempts[t]]
      <4>1. \A s \in Tasks : Results'[s] = IF s = t THEN Attempts[t] ELSE Results[s]
        BY <1>4, <3>2 DEF Results
      <4> QED
        BY <4>1 DEF Results
    <3> QED
      BY <1>1, <1>6, <2>2, <2>3, <2>5, <2>6, <3>3, <3>4 DEF Promise!Finish
  <2>7. CASE n.status # "completed"
    <3>1. n.result = row.result
      BY <2>1, <2>7 DEF StatusAfter
    <3>2. Results' = Results
      BY <1>2, <1>4, <3>1 DEF Results
    <3> QED
      BY <1>1, <1>6, <2>2, <2>3, <2>5, <2>7, <3>2 DEF Promise!Finish
  <2> QED
    BY <2>6, <2>7
<1> QED
  BY <1>5, <1>6

LEMMA AcceptedSeen ==
  ASSUME LedgerInv, LedgerInv', UpdateAccepted
  PROVE  (\E t \in Tasks, final \in Terminal : Promise!Finish(t, final)) \/ UNCHANGED View
<1>1. PICK t \in Tasks : t = tick.at
  BY DEF UpdateAccepted, LedgerInv, TurnInv, Placed
<1>2. /\ TypeOK /\ tick.back # "rest" /\ record[t].pending # {} /\ pc = "update"
      /\ Resume /\ UNCHANGED <<granted, launched, turn>>
  BY <1>1 DEF UpdateAccepted, LedgerInv, TurnInv, Placed
<1>3. PICK u \in UpdateType : u = Pending(t)
  BY <1>2, PendingTyped
<1>4. PICK n : n = Updated(task[t], u)
  OBVIOUS
<1>5. PICK old \in RecordType : old = record[t]
  BY <1>2 DEF TypeOK
<1>6. PICK r : r = AfterAccepted(old, u, n)
  OBVIOUS
<1>7. r.attempt = old.attempt
  BY <1>6 DEF AfterAccepted, RecordType
<1>8. task' = [task EXCEPT ![t] = n] /\ record' = [record EXCEPT ![t] = r]
  BY <1>1, <1>3, <1>4, <1>5, <1>6 DEF UpdateAccepted
<1>9. \A s \in Tasks : record'[s].attempt = record[s].attempt
  BY <1>2, <1>5, <1>7, <1>8 DEF TypeOK
<1>10. pc' # "spawn"
  BY <1>2, ResumeLedger
<1>11. Alike
  BY <1>2, <1>9, <1>10 DEF Alike
<1> QED
  BY <1>2, <1>4, <1>8, <1>11, UpdateSeen

LEMMA LateSeen ==
  ASSUME LedgerInv, LedgerInv', NEW request \in late, Late(request)
  PROVE  (\E t \in Tasks, final \in Terminal : Promise!Finish(t, final)) \/ UNCHANGED View
<1>1. PICK t \in Tasks : t = request.task
  BY DEF LedgerInv, TurnInv, TypeOK
<1>2. PICK u \in UpdateType : u = request.update
  BY DEF LedgerInv, TurnInv, TypeOK
<1>3. task' = [task EXCEPT ![t] = Updated(task[t], u)]
  BY <1>1, <1>2 DEF Late
<1>4. UNCHANGED <<granted, launched, turn>> /\ Alike
  BY DEF Late, Alike
<1> QED
  BY <1>3, <1>4, UpdateSeen

(* Of the others' steps only the approvals are seen.                       *)
LEMMA OthersSeen ==
  ASSUME LedgerInv, Others, UNCHANGED workerVars
  PROVE  (\E t \in Tasks : Promise!Grant(t)) \/ UNCHANGED View
<1>1. TypeOK /\ UNCHANGED <<record, turn, pc, tick, launched>>
  BY DEF workerVars, LedgerInv, TurnInv
<1>2. PICK t \in Tasks : Create(t) \/ Cancel(t) \/ Expire(t)
         \/ \E decision \in {"approved", "declined"} : Decide(t, decision)
  BY DEF Others
<1>3. PICK g \in Nat : g = granted[t]
  BY <1>1 DEF TypeOK
<1>4. PICK n, g2 : /\ task' = [task EXCEPT ![t] = n] /\ granted' = [granted EXCEPT ![t] = g2]
                   /\ Serves(task[t], n, g, g2)
  BY <1>1, <1>2, <1>3, OthersServe
<1>5. task'[t] = n /\ \A s \in Tasks : s # t => task'[s] = task[s]
  BY <1>1, <1>4 DEF TypeOK
<1>6. UNCHANGED <<Attempts, Phases, launched>>
  BY <1>1, AlikeSeen DEF Alike
<1>7. Shown' = Shown
  BY <1>4, <1>5 DEF Serves, Shown
<1>8. Results' = Results
  BY <1>4, <1>5 DEF Serves, Results
<1>9. CASE g2 = g
  BY <1>1, <1>3, <1>4, <1>6, <1>7, <1>8, <1>9 DEF View, TypeOK
<1>10. CASE g2 # g
  <2>1. g2 = g + 1
    BY <1>4, <1>10 DEF Serves
  <2>2. task[t].status \notin Terminal
    <3>1. granted' # granted
      BY <1>1, <1>3, <1>4, <1>10 DEF TypeOK
    <3> QED
      BY <1>2, <3>1 DEF Create, Cancel, Expire, Decide, Open
  <2>3. Shown[t] = "open"
    BY <2>2 DEF Shown
  <2>4. Promise!Grant(t)
    BY <1>3, <1>4, <1>6, <1>7, <1>8, <2>1, <2>3 DEF Promise!Grant
  <2> QED
    BY <2>4
<1> QED
  BY <1>9, <1>10

------------------------------------------------------------------------------
LEMMA PromiseInit == Init => Promise!Init
<1> SUFFICES ASSUME Init PROVE Promise!Init
  OBVIOUS
<1>1. \A t \in Tasks : /\ task[t] = NoTask /\ record[t] = NoRecord /\ turn[t] = NoTurn
                       /\ pc = "rest"
  BY DEF Init, TasksInit
<1>2. Shown = [t \in Tasks |-> "open"] /\ Results = [t \in Tasks |-> 0]
  BY <1>1 DEF Shown, Results, NoTask, Terminal
<1>3. Attempts = [t \in Tasks |-> 0]
  BY <1>1 DEF Attempts, NoRecord
<1>4. Phases = [t \in Tasks |-> "idle"]
  BY <1>1 DEF Phases, PhaseOf, Active, NoTurn, None
<1> QED
  BY <1>2, <1>3, <1>4 DEF Init, TasksInit, Promise!Init

LEMMA PromiseStep ==
  ASSUME LedgerInv, [Next]_vars
  PROVE  [Promise!Next]_View
<1>1. LedgerInv'
  BY LedgerStays
<1>2. CASE Calls
  BY <1>1, <1>2, CallsUnseen, AcceptedSeen, GetUnseen DEF Calls, Promise!Next, Terminal
<1>3. CASE Records
  BY <1>3, RecordsUnseen, ReadOutcomeUnseen, JudgeUnseen DEF Records
<1>4. CASE Visits
  BY <1>4, VisitUnseen, DispatchSeen, SpawnSeen, RecordsUnseen DEF Visits, Promise!Next
<1>5. CASE Start \/ Failures
  BY <1>1, <1>5, ProcessUnseen, CallsUnseen, CrashSeen, AgentSeen, LateSeen
     DEF Failures, Promise!Next, Terminal
<1>6. CASE \E t \in Tasks : AgentStep(t)
  BY <1>6, AgentSeen DEF AgentStep, Promise!Next
<1>7. CASE (Others /\ UNCHANGED workerVars) \/ UNCHANGED vars
  BY <1>7, OthersSeen, ProcessUnseen DEF Promise!Next
<1> QED
  BY <1>2, <1>3, <1>4, <1>5, <1>6, <1>7 DEF Next, WorkerStep

(* For any number of tasks, approvals, crashes, lost answers and late      *)
(* requests, dispatch, update, tick and update_task together implement     *)
(* MailboxAbs: every step is one of the promise or is not seen.            *)
THEOREM WorkerPromiseKept == Spec => WorkerKeepsPromise
<1>1. Promise!absVars = View
  BY DEF Promise!absVars, View
<1>2. LedgerInv /\ [Next]_vars => [Promise!Next]_(Promise!absVars)
  BY <1>1, PromiseStep DEF Promise!absVars, View
<1> QED
  BY <1>2, PromiseInit, LedgerInvariant, PTL DEF Spec, WorkerKeepsPromise, Promise!Spec
=============================================================================
