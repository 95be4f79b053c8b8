----------------------------- MODULE HandoffAbs -----------------------------
(***************************************************************************)
(* What a confirmed handoff promises (docs/operations.md, "Confirmed       *)
(* handoffs"), without sidecars, files, retries or messages: the request   *)
(* enters the inbox of its peer at most once, it is never put back once    *)
(* read, and the sender reports it as stored only when it is there.        *)
(***************************************************************************)
CONSTANT Requests

VARIABLES inbox,     \* of a request at its peer: "absent", "unread" or "read"
          reported   \* to its sender: "pending", "expired" or "stored"

Init == /\ inbox = [r \in Requests |-> "absent"]
        /\ reported = [r \in Requests |-> "pending"]

Store(r) == /\ inbox[r] = "absent"
            /\ inbox' = [inbox EXCEPT ![r] = "unread"]
            /\ UNCHANGED reported

Read(r) == /\ inbox[r] = "unread"
           /\ inbox' = [inbox EXCEPT ![r] = "read"]
           /\ UNCHANGED reported

\* A late receipt still confirms a request that was given up.
Confirm(r) == /\ inbox[r] # "absent"
              /\ reported[r] \in {"pending", "expired"}
              /\ reported' = [reported EXCEPT ![r] = "stored"]
              /\ UNCHANGED inbox

\* Expired is unconfirmed: the request may have been stored all the same.
GiveUp(r) == /\ reported[r] = "pending"
             /\ reported' = [reported EXCEPT ![r] = "expired"]
             /\ UNCHANGED inbox

Next == \E r \in Requests : Store(r) \/ Read(r) \/ Confirm(r) \/ GiveUp(r)

Spec == Init /\ [][Next]_<<inbox, reported>>
=============================================================================
