----------------------------- MODULE WorkerLock -----------------------------
(***************************************************************************)
(* lockWorker (worker-config.ts): processes that start a mailbox worker on *)
(* the same state directory.  worker.lock names the owner's process;       *)
(* recovery.lock lets one process at a time look at a lock it has found    *)
(* and remove it if its owner is dead.  One file operation is one step.    *)
(***************************************************************************)
EXTENDS Naturals, FiniteSets

CONSTANTS Workers, NoOne, MaxCrashes \* bound: workers killed

ASSUME WorkerLockAssumption == NoOne \notin Workers /\ MaxCrashes \in Nat

VARIABLES
  step,        \* what each process is about to do
  lock,        \* worker.lock: "none", "partial" (created, not written) or "whole"
  holder,      \* whose process it names
  reaper,      \* whether recovery.lock exists
  crashed,     \* killed processes: their pid stays dead
  robbed       \* whether a lock was removed by a start that had found none to remove

workerLockVars == <<step, lock, holder, reaper, crashed, robbed>>

WorkerLockInit ==
  /\ step = [w \in Workers |-> "start"]
  /\ lock = "none" /\ holder = NoOne /\ reaper = FALSE /\ crashed = {} /\ robbed = FALSE

At(w, from, to) == step[w] = from /\ step' = [step EXCEPT ![w] = to]

CreateLock(w) ==
  /\ At(w, "start", "fill")
  /\ lock = "none" /\ lock' = "partial" /\ holder' = w
  /\ UNCHANGED <<reaper, crashed, robbed>>

\* The content goes to the file that was created, if it still has its name.
FillLock(w) ==
  /\ At(w, "fill", "holds")
  /\ lock' = IF holder = w THEN "whole" ELSE lock
  /\ UNCHANGED <<holder, reaper, crashed, robbed>>

\* EEXIST: recovery.lock, or give up if that exists too
LockExists(w) ==
  /\ step[w] = "start" /\ lock # "none"
  /\ step' = [step EXCEPT ![w] = "recover"]
  /\ UNCHANGED <<lock, holder, reaper, crashed, robbed>>

RecoverAnyway(w) ==  \* a variant: recovery.lock keeps nobody out
  /\ At(w, "recover", "read")
  /\ reaper' = TRUE
  /\ UNCHANGED <<lock, holder, crashed, robbed>>

Recover(w) ==
  /\ step[w] = "recover"
  /\ step' = [step EXCEPT ![w] = IF reaper THEN "out" ELSE "read"]
  /\ reaper' = TRUE
  /\ UNCHANGED <<lock, holder, crashed, robbed>>

\* No lock any more, or a dead owner's: remove.  A live owner's, or one that
\* cannot be parsed: throw.
ReadLock(w) ==
  /\ step[w] = "read"
  /\ step' = [step EXCEPT ![w] =
       IF lock = "none" THEN "clear"
       ELSE IF lock = "whole" /\ holder \in crashed THEN "remove" ELSE "giveup"]
  /\ UNCHANGED <<lock, holder, reaper, crashed, robbed>>

\* By its name, whatever has that name now.
RemoveLock(w) ==
  /\ step[w] \in {"clear", "remove"} /\ step' = [step EXCEPT ![w] = "retry"]
  /\ robbed' = (robbed \/ (step[w] = "clear" /\ lock # "none"))
  /\ lock' = "none" /\ holder' = NoOne
  /\ UNCHANGED <<reaper, crashed>>

\* finally: recovery.lock is removed, by its name
EndRecovery(w) ==
  /\ step[w] \in {"retry", "giveup"}
  /\ step' = [step EXCEPT ![w] = IF @ = "retry" THEN "start" ELSE "out"]
  /\ reaper' = FALSE
  /\ UNCHANGED <<lock, holder, crashed, robbed>>

\* The release: the nonce is read, then the file removed.
ReadNonce(w) ==
  /\ step[w] = "holds"
  /\ step' = [step EXCEPT ![w] = IF lock = "whole" /\ holder = w THEN "drop" ELSE "out"]
  /\ UNCHANGED <<lock, holder, reaper, crashed, robbed>>

Drop(w) ==
  /\ At(w, "drop", "out")
  /\ lock' = "none" /\ holder' = NoOne
  /\ UNCHANGED <<reaper, crashed, robbed>>

StartAgain(w) ==
  /\ At(w, "out", "start") /\ w \notin crashed
  /\ UNCHANGED <<lock, holder, reaper, crashed, robbed>>

Killed(w) ==
  /\ Cardinality(crashed) < MaxCrashes /\ w \notin crashed /\ step[w] # "out"
  /\ step' = [step EXCEPT ![w] = "out"] /\ crashed' = crashed \cup {w}
  /\ UNCHANGED <<lock, holder, reaper, robbed>>

WorkerLockNext ==
  \E w \in Workers :
    \/ CreateLock(w) \/ FillLock(w) \/ LockExists(w) \/ Recover(w) \/ ReadLock(w) \/ RemoveLock(w)
    \/ EndRecovery(w) \/ ReadNonce(w) \/ Drop(w) \/ StartAgain(w) \/ Killed(w)

(***************************************************************************)
(* Properties                                                              *)
(***************************************************************************)
Holds(w) == step[w] \in {"holds", "drop"}

\* "Only the process holding this lock may mutate worker state.  Never steal a
\* live lock." (worker-config.ts:41): one worker holds the lock at a time.
OneWorker == \A v, w \in Workers : Holds(v) /\ Holds(w) => v = w

\* The one way two workers can hold it: a start that found the lock taken reads
\* it when its owner has gone, and removes the one a third has created since.
\* Locks of killed workers are taken over by one start at a time.
OneWorkerUnlessRobbed == OneWorker \/ robbed
=============================================================================
