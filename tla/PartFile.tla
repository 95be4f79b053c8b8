------------------------------ MODULE PartFile ------------------------------
(***************************************************************************)
(* The part file of a swarm download and its lock (ChunkFile in swarm.ts,  *)
(* finish and discard of SwarmSession): processes that download the same   *)
(* file to the same folder.  The lock is a file that holds its owner's     *)
(* token; one whose owner has died, or has not touched it for five         *)
(* minutes, is stale and may be removed by name.                           *)
(*                                                                         *)
(* One file operation is one step.  Between an ownership check and what it *)
(* is for no five minutes pass; during the hash of the whole file and      *)
(* between two chunks they may.                                            *)
(***************************************************************************)
EXTENDS Naturals

CONSTANTS
  Procs,
  Nobody,      \* the owner of a lock without a token, or with a dead process's
  MaxTries     \* exclusive creates of one claim (4)

ASSUME PartFileAssumption == Nobody \notin Procs /\ MaxTries \in Nat \ {0}

VARIABLES
  at,          \* what each process is about to do
  tries,
  locked,      \* whether the lock file exists
  creator,     \* the process that created it, while its descriptor is open
  owner,       \* whose token it holds
  old,         \* whether it is stale
  token,       \* processes that believe they own the lock (lockToken)
  raced        \* whether a lock in use has been removed by another process

partVars == <<at, tries, locked, creator, owner, old, token, raced>>

\* Steps that use the part file or the lock under a check just made.
Using == {"write", "move", "delete", "unlock"}

PartInit ==
  /\ at = [p \in Procs |-> "idle"] /\ tries = [p \in Procs |-> 0]
  /\ locked = FALSE /\ creator = Nobody /\ owner = Nobody /\ old = FALSE
  /\ token = {} /\ raced = FALSE

Go(p, to) == at' = [at EXCEPT ![p] = to]
Step(p, from, to) == at[p] = from /\ Go(p, to)
Keep == UNCHANGED <<locked, creator, owner, old>>
Unlock == locked' = FALSE /\ creator' = Nobody /\ owner' = Nobody /\ old' = FALSE
Owns(p) == p \in token /\ locked /\ owner = p

\* A lock that is not stale, or whose owner is between its check and what the
\* check was for.
InUse == locked /\ (~old \/ \E p \in Procs : owner = p /\ at[p] \in Using)

(***************************************************************************)
(* acquireLock                                                             *)
(***************************************************************************)
Open(p) ==
  /\ Step(p, "idle", "create")
  /\ tries' = [tries EXCEPT ![p] = 0]
  /\ Keep /\ UNCHANGED <<token, raced>>

CreateLockFile(p) ==
  /\ at[p] = "create"
  /\ IF locked
       THEN Go(p, "stat") /\ Keep
       ELSE /\ Go(p, "sign")
            /\ locked' = TRUE /\ creator' = p /\ owner' = Nobody /\ old' = FALSE
  /\ UNCHANGED <<tries, token, raced>>

\* The token goes to the file that was created, which may have lost its name.
Sign(p) ==
  /\ Step(p, "sign", "ready")
  /\ IF creator = p THEN owner' = p /\ creator' = Nobody ELSE UNCHANGED <<owner, creator>>
  /\ token' = token \cup {p}
  /\ UNCHANGED <<tries, locked, old, raced>>

\* The token cannot be written: whatever has the name is removed.
SignFails(p) ==
  /\ Step(p, "sign", "idle")
  /\ raced' = (raced \/ (InUse /\ creator # p))
  /\ Unlock /\ UNCHANGED <<tries, token>>

\* statSync: gone, fresh, or stale
Stat(p) ==
  /\ at[p] = "stat"
  /\ Go(p, IF ~locked THEN "again" ELSE IF old THEN "remove" ELSE "idle")
  /\ Keep /\ UNCHANGED <<tries, token, raced>>

RemoveStale(p) ==
  /\ Step(p, "remove", "again")
  /\ raced' = (raced \/ InUse)
  /\ Unlock /\ UNCHANGED <<tries, token>>

Again(p) ==
  /\ at[p] = "again"
  /\ Go(p, IF tries[p] + 1 < MaxTries THEN "create" ELSE "idle")
  /\ tries' = [tries EXCEPT ![p] = @ + 1]
  /\ Keep /\ UNCHANGED <<token, raced>>

(***************************************************************************)
(* A download                                                              *)
(***************************************************************************)
\* assertExclusiveLock before an operation; without the lock it throws, and
\* the session stays as it is or goes on to release.
Check(p, from, op, otherwise) ==
  /\ at[p] = from
  /\ Go(p, IF Owns(p) THEN op ELSE otherwise)
  /\ Keep /\ UNCHANGED <<tries, token, raced>>

BeginWrite(p) == Check(p, "ready", "write", "ready")
Write(p) == Step(p, "write", "ready") /\ Keep /\ UNCHANGED <<tries, token, raced>>

\* touchLock: a lock that is not ours any more is given up.
Touch(p) ==
  /\ at[p] = "ready" /\ p \in token
  /\ IF Owns(p) THEN old' = FALSE /\ UNCHANGED token
                ELSE token' = token \ {p} /\ UNCHANGED old
  /\ UNCHANGED <<at, tries, locked, creator, owner, raced>>

\* finish: the hash, in which the lock is not touched, a second check, the move
BeginFinish(p) == Check(p, "ready", "hash", "release")

\* A variant: no second check.
HashedAnyway(p) ==
  /\ \/ Step(p, "hash", "move")
     \/ Step(p, "hash", "release")
  /\ Keep /\ UNCHANGED <<tries, token, raced>>

Hashed(p) ==
  \/ Check(p, "hash", "move", "release")
  \/ Step(p, "hash", "release") /\ Keep /\ UNCHANGED <<tries, token, raced>>

\* moveFileExclusive
Move(p) ==
  /\ Step(p, "move", "release")
  /\ Keep /\ UNCHANGED <<tries, token, raced>>

\* discard, of a session that is open or has claimed the lock again
BeginDiscard(p) == Check(p, "ready", "delete", "release")
Delete(p) ==
  /\ Step(p, "delete", "release")
  /\ Keep /\ UNCHANGED <<tries, token, raced>>

Close(p) == Step(p, "ready", "release") /\ Keep /\ UNCHANGED <<tries, token, raced>>

\* releaseExclusiveLock: read, then remove by name
BeginRelease(p) ==
  /\ at[p] = "release"
  /\ IF Owns(p) THEN Go(p, "unlock") /\ UNCHANGED token
                ELSE Go(p, "idle") /\ token' = token \ {p}
  /\ Keep /\ UNCHANGED <<tries, raced>>

Release(p) ==
  /\ Step(p, "unlock", "idle")
  /\ token' = token \ {p}
  /\ Unlock /\ UNCHANGED <<tries, raced>>

(***************************************************************************)
(* Time and death                                                          *)
(***************************************************************************)
Die(p) ==
  /\ at[p] # "idle" /\ Go(p, "idle")
  /\ token' = token \ {p}
  /\ creator' = IF creator = p THEN Nobody ELSE creator
  /\ owner' = IF owner = p THEN Nobody ELSE owner
  /\ UNCHANGED <<tries, locked, old, raced>>

\* Five minutes without a touch.
GoesStale ==
  /\ locked /\ ~old /\ old' = TRUE
  /\ \A p \in Procs : at[p] \notin Using \cup {"sign"}
  /\ UNCHANGED <<at, tries, locked, creator, owner, token, raced>>

PartNext ==
  \/ \E p \in Procs :
       \/ Open(p) \/ CreateLockFile(p) \/ Sign(p) \/ SignFails(p) \/ Stat(p) \/ RemoveStale(p) \/ Again(p)
       \/ BeginWrite(p) \/ Write(p) \/ Touch(p) \/ BeginFinish(p) \/ Hashed(p) \/ Move(p)
       \/ BeginDiscard(p) \/ Delete(p) \/ Close(p) \/ BeginRelease(p) \/ Release(p) \/ Die(p)
  \/ GoesStale

(***************************************************************************)
(* Properties                                                              *)
(***************************************************************************)
\* Whoever writes to the part file, moves it, deletes it or unlocks it owns the
\* lock and is the only one to do so - unless a process has removed a lock in
\* use: it took for stale the lock another has replaced since, or removed a
\* stale one just after its owner had checked that it was still there.
UsedByOwner ==
  raced \/ \A p \in Procs : at[p] \in Using => locked /\ owner = p
=============================================================================
