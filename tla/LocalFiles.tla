----------------------------- MODULE LocalFiles -----------------------------
(***************************************************************************)
(* What several processes of one machine do to the same files: the inbox   *)
(* and archive of an agent, its session file, the transfers it receives,   *)
(* the part file of a swarm download and the lock of a mailbox worker.     *)
(* The five have no file in common, so a behaviour is one of one of them.  *)
(***************************************************************************)
EXTENDS Inbox, Sidecar, Transfer, PartFile, WorkerLock

CONSTANT Scenes  \* of "inbox", "sidecar", "transfer", "part file" and "worker lock"

VARIABLE scene

vars == <<scene, inboxVars, sidecarVars, transferVars, partVars, workerLockVars>>

Init ==
  /\ scene \in Scenes
  /\ InboxInit /\ SidecarInit /\ TransferInit /\ PartInit /\ WorkerLockInit

Next ==
  \/ /\ scene = "inbox" /\ InboxNext
     /\ UNCHANGED <<scene, sidecarVars, transferVars, partVars, workerLockVars>>
  \/ /\ scene = "sidecar" /\ SidecarNext
     /\ UNCHANGED <<scene, inboxVars, transferVars, partVars, workerLockVars>>
  \/ /\ scene = "transfer" /\ TransferNext
     /\ UNCHANGED <<scene, inboxVars, sidecarVars, partVars, workerLockVars>>
  \/ /\ scene = "part file" /\ PartNext
     /\ UNCHANGED <<scene, inboxVars, sidecarVars, transferVars, workerLockVars>>
  \/ /\ scene = "worker lock" /\ WorkerLockNext
     /\ UNCHANGED <<scene, inboxVars, sidecarVars, transferVars, partVars>>

Spec == Init /\ [][Next]_vars
=============================================================================
