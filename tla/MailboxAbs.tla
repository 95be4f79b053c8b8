----------------------------- MODULE MailboxAbs -----------------------------
(***************************************************************************)
(* What the mailbox worker promises of the tasks it takes                  *)
(* (docs/workers.md), without records, revisions, retries, lost answers or *)
(* restarts: it attempts a task once and once more for each approval, one  *)
(* attempt at a time over all tasks, starts an agent at most once per      *)
(* attempt, and ends a task between two attempts, once, with the result of *)
(* the last attempt or with none.                                          *)
(***************************************************************************)
EXTENDS Naturals

CONSTANT Tasks

VARIABLES status,    \* what is shown of a task: "open" or how it ended
          result,    \* the number of the attempt whose result is shown
          granted,   \* the approvals its owner granted
          attempts,  \* the attempts the worker made at it
          phase,     \* of the last attempt: "prepared", "running", then "idle" or "saved"
          launched   \* the agents that were started for it

absVars == <<status, result, granted, attempts, phase, launched>>

Init == /\ status = [t \in Tasks |-> "open"]
        /\ phase = [t \in Tasks |-> "idle"]
        /\ result = [t \in Tasks |-> 0] /\ granted = [t \in Tasks |-> 0]
        /\ attempts = [t \in Tasks |-> 0] /\ launched = [t \in Tasks |-> 0]

Busy(t) == phase[t] \in {"prepared", "running"}

Grant(t) == /\ status[t] = "open"
            /\ granted' = [granted EXCEPT ![t] = @ + 1]
            /\ UNCHANGED <<status, result, attempts, phase, launched>>

\* A result that the worker did not find is lost with the next attempt.
Prepare(t) == /\ status[t] = "open" /\ attempts[t] <= granted[t]
              /\ \A s \in Tasks : ~Busy(s)
              /\ attempts' = [attempts EXCEPT ![t] = @ + 1]
              /\ phase' = [phase EXCEPT ![t] = "prepared"]
              /\ UNCHANGED <<status, result, granted, launched>>

Launch(t) == /\ phase[t] = "prepared"
             /\ phase' = [phase EXCEPT ![t] = "running"]
             /\ launched' = [launched EXCEPT ![t] = @ + 1]
             /\ UNCHANGED <<status, result, granted, attempts>>

\* The agent saves a result, or ends without one, or was never started.
End(t) == /\ \/ Busy(t) /\ phase' = [phase EXCEPT ![t] = "idle"]
             \/ phase[t] = "running" /\ phase' = [phase EXCEPT ![t] = "saved"]
          /\ UNCHANGED <<status, result, granted, attempts, launched>>

Finish(t, final) ==
    /\ status[t] = "open" /\ ~Busy(t)
    /\ status' = [status EXCEPT ![t] = final]
    /\ IF final = "completed"
       THEN phase[t] = "saved" /\ result' = [result EXCEPT ![t] = attempts[t]]
       ELSE UNCHANGED result
    /\ UNCHANGED <<granted, attempts, phase, launched>>

Next == \E t \in Tasks :
          \/ Grant(t) \/ Prepare(t) \/ Launch(t) \/ End(t)
          \/ \E final \in {"completed", "failed", "cancelled"} : Finish(t, final)

Spec == Init /\ [][Next]_absVars
=============================================================================
