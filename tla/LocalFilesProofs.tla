-------------------------- MODULE LocalFilesProofs --------------------------
(***************************************************************************)
(* Proofs about the files several processes share, for any number of       *)
(* processes, commands, readers and files: one invariant for each part of  *)
(* LocalFiles, which every step of that part keeps and no other disturbs.  *)
(***************************************************************************)
EXTENDS LocalFiles, ListFacts, FiniteSetTheorems, TLAPS

(***************************************************************************)
(* The lock of a mailbox worker.  As long as no start has removed a lock   *)
(* that it had not looked at, whoever fills, holds or drops the lock is    *)
(* the process it names, and a lock about to be removed is a dead one's.   *)
(***************************************************************************)
Recovering == {"read", "clear", "remove", "retry", "giveup"}

LockTypeOK ==
  /\ step \in [Workers -> Recovering \cup {"start", "fill", "holds", "recover", "drop", "out"}]
  /\ lock \in {"none", "partial", "whole"} /\ holder \in Workers \cup {NoOne}
  /\ {reaper, robbed} \subseteq BOOLEAN /\ crashed \subseteq Workers

OneRecovers ==
  /\ \A w \in Workers : step[w] \in Recovering => reaper
  /\ \A v, w \in Workers : step[v] \in Recovering /\ step[w] \in Recovering => v = w

LockNames ==
  /\ \A w \in Workers : step[w] = "fill" => lock = "partial" /\ holder = w
  /\ \A w \in Workers : step[w] \in {"holds", "drop"} => lock = "whole" /\ holder = w
  /\ \A w \in Workers : step[w] = "remove" => lock = "whole" /\ holder \in crashed

LockInv ==
  /\ LockTypeOK /\ OneRecovers
  /\ \A w \in crashed : step[w] = "out"
  /\ robbed \/ LockNames

LEMMA LockInit == WorkerLockInit => LockInv
BY DEF WorkerLockInit, LockInv, LockTypeOK, OneRecovers, LockNames, Recovering

LEMMA LockNext == LockInv /\ WorkerLockNext => LockInv'
<1> SUFFICES ASSUME LockInv, NEW w \in Workers,
                    \/ CreateLock(w) \/ FillLock(w) \/ LockExists(w) \/ Recover(w) \/ ReadLock(w)
                    \/ RemoveLock(w) \/ EndRecovery(w) \/ ReadNonce(w) \/ Drop(w) \/ StartAgain(w)
                    \/ Killed(w)
             PROVE  LockInv'
  BY DEF WorkerLockNext
<1> USE WorkerLockAssumption DEF LockInv, LockTypeOK, OneRecovers, LockNames, Recovering, At
<1>1. CASE CreateLock(w)
  BY <1>1 DEF CreateLock
<1>2. CASE FillLock(w)
  BY <1>2 DEF FillLock
<1>3. CASE LockExists(w)
  BY <1>3 DEF LockExists
<1>4. CASE Recover(w)
  BY <1>4 DEF Recover
<1>5. CASE ReadLock(w)
  BY <1>5 DEF ReadLock
<1>6. CASE RemoveLock(w)
  BY <1>6 DEF RemoveLock
<1>7. CASE EndRecovery(w)
  BY <1>7 DEF EndRecovery
<1>8. CASE ReadNonce(w)
  BY <1>8 DEF ReadNonce
<1>9. CASE Drop(w)
  BY <1>9 DEF Drop
<1>10. CASE StartAgain(w)
  BY <1>10 DEF StartAgain
<1>11. CASE Killed(w)
  BY <1>11 DEF Killed
<1> QED
  BY <1>1, <1>2, <1>3, <1>4, <1>5, <1>6, <1>7, <1>8, <1>9, <1>10, <1>11

LEMMA LockStutters == LockInv /\ UNCHANGED workerLockVars => LockInv'
BY DEF LockInv, LockTypeOK, OneRecovers, LockNames, workerLockVars

(***************************************************************************)
(* The part file.  A lock that is not signed yet names nobody.             *)
(***************************************************************************)
PartInv ==
  /\ at \in [Procs -> {"idle", "create", "sign", "stat", "remove", "again", "ready", "hash",
                       "release"} \cup Using]
  /\ {creator, owner} \subseteq Procs \cup {Nobody}
  /\ {locked, old, raced} \subseteq BOOLEAN /\ token \subseteq Procs
  /\ creator # Nobody => owner = Nobody
  /\ UsedByOwner

LEMMA PartFileInit == PartInit => PartInv
BY DEF PartInit, PartInv, UsedByOwner, Using

LEMMA PartFileNext == PartInv /\ PartNext => PartInv'
<1> SUFFICES ASSUME PartInv, PartNext PROVE PartInv'
  OBVIOUS
<1> USE PartFileAssumption DEF PartInv, UsedByOwner, Using, Go, Step, Keep, Unlock, Owns, InUse
<1>1. ASSUME NEW p \in Procs, Open(p) \/ CreateLockFile(p) PROVE PartInv'
  BY <1>1 DEF Open, CreateLockFile
<1>2. ASSUME NEW p \in Procs, Sign(p) PROVE PartInv'
  BY <1>2 DEF Sign
<1>3. ASSUME NEW p \in Procs, SignFails(p) PROVE PartInv'
  BY <1>3 DEF SignFails
<1>4. ASSUME NEW p \in Procs, Stat(p) PROVE PartInv'
  BY <1>4 DEF Stat
<1>5. ASSUME NEW p \in Procs, RemoveStale(p) PROVE PartInv'
  BY <1>5 DEF RemoveStale
<1>6. ASSUME NEW p \in Procs, Again(p) PROVE PartInv'
  BY <1>6 DEF Again
<1>7. ASSUME NEW p \in Procs, NEW from \in {"ready", "hash"}, NEW op \in {"write", "hash", "move", "delete"},
             NEW otherwise \in {"ready", "release"}, Check(p, from, op, otherwise)
      PROVE  PartInv'
  BY <1>7 DEF Check
<1>8. ASSUME NEW p \in Procs, Write(p) \/ Move(p) \/ Delete(p) \/ Close(p) PROVE PartInv'
  BY <1>8 DEF Write, Move, Delete, Close
<1>9. ASSUME NEW p \in Procs, Hashed(p) PROVE PartInv'
  BY <1>7, <1>9 DEF Hashed
<1>10. ASSUME NEW p \in Procs, Touch(p) PROVE PartInv'
  BY <1>10 DEF Touch
<1>11. ASSUME NEW p \in Procs, BeginRelease(p) PROVE PartInv'
  BY <1>11 DEF BeginRelease
<1>12. ASSUME NEW p \in Procs, Release(p) PROVE PartInv'
  BY <1>12 DEF Release
<1>13. ASSUME NEW p \in Procs, Die(p) PROVE PartInv'
  BY <1>13 DEF Die
<1>14. CASE GoesStale
  BY <1>14 DEF GoesStale
<1>15. ASSUME NEW p \in Procs, BeginWrite(p) \/ BeginFinish(p) \/ BeginDiscard(p) PROVE PartInv'
  BY <1>7, <1>15 DEF BeginWrite, BeginFinish, BeginDiscard
<1> QED
  BY <1>1, <1>2, <1>3, <1>4, <1>5, <1>6, <1>8, <1>9, <1>10, <1>11, <1>12, <1>13, <1>14, <1>15
     DEF PartNext

LEMMA PartFileStutters == PartInv /\ UNCHANGED partVars => PartInv'
BY DEF PartInv, UsedByOwner, partVars

(***************************************************************************)
(* The inbox.  A receipt that is due and was not in the inbox when a       *)
(* lookup had read it is in the archive, where nothing leaves it but a     *)
(* prune, after which it is not due.                                       *)
(***************************************************************************)
Look == [at : 0 .. 3, id : Mail \cup {0}, due : SUBSET Mail, found : SUBSET Mail]

LookSound(x) ==
  /\ x.at \in 0 .. 1 => x.due \subseteq inbox \cup archive
  /\ x.at = 2 => x.due \ x.found \subseteq archive
  /\ x.at = 3 => x.due \subseteq x.found
  /\ x.due \subseteq {x.id}

LookInv ==
  /\ inbox \subseteq Mail /\ archive \subseteq Mail
  /\ look \in [Lookers -> Look]
  /\ \A k \in Lookers : LookSound(look[k])

LEMMA LookFields ==
  ASSUME NEW place \in 0 .. 3, NEW id \in Mail \cup {0}, NEW due \in SUBSET Mail, NEW found \in SUBSET Mail,
         NEW x, x = Looking(place, id, due, found)
  PROVE  x \in Look /\ x.at = place /\ x.id = id /\ x.due = due /\ x.found = found
BY DEF Looking, Look

LEMMA LookInit == InboxInit => LookInv
<1> SUFFICES ASSUME InboxInit PROVE LookInv
  OBVIOUS
<1>1. NoLook \in Look /\ NoLook.at = 0 /\ NoLook.due = {}
  BY LookFields DEF NoLook
<1> QED
  BY <1>1 DEF InboxInit, LookInv, LookSound

\* Mail is written, moved to the archive or left alone.
LEMMA MailMoves ==
  ASSUME LookInv, inbox \cup archive \subseteq inbox' \cup archive', archive \subseteq archive',
         inbox' \cup archive' \subseteq Mail, look' = look
  PROVE  LookInv'
BY DEF LookInv, LookSound, Look

LEMMA ReadingMoves ==
  ASSUME LookInv, NEW r \in Readers,
         \/ BeginRead(r) \/ Take(r) \/ Miss(r) \/ SkipMissing(r)
         \/ MissThrows(r) \/ EndRead(r) \/ ReaderKilled(r)
  PROVE  LookInv'
<1>1. /\ inbox \cup archive \subseteq inbox' \cup archive' /\ archive \subseteq archive'
      /\ inbox' \cup archive' \subseteq inbox \cup archive /\ look' = look
  BY DEF BeginRead, Take, Miss, SkipMissing, MissThrows, EndRead, ReaderKilled, ReadFails
<1> QED
  BY <1>1, MailMoves DEF LookInv

LEMMA LookNext == LookInv /\ InboxNext => LookInv'
<1> SUFFICES ASSUME LookInv, InboxNext PROVE LookInv'
  OBVIOUS
<1>1. ASSUME NEW m \in Mail, Store(m) PROVE LookInv'
  BY <1>1, MailMoves DEF Store, LookInv
<1>2. ASSUME NEW m \in Mail, NEW k \in Lookers, BeginLook(k, m) PROVE LookInv'
  <2>1. PICK due \in SUBSET Mail : due = {m} \cap (inbox \cup archive)
    OBVIOUS
  <2> DEFINE new == Looking(1, m, due, {})
  <2>2. new \in Look /\ new.at = 1 /\ new.id = m /\ new.due = due
    BY LookFields
  <2>3. look' = [look EXCEPT ![k] = new] /\ UNCHANGED <<inbox, archive>>
    BY <1>2, <2>1 DEF BeginLook
  <2> HIDE DEF new
  <2> QED
    BY <2>1, <2>2, <2>3 DEF LookInv, LookSound
<1>3. ASSUME NEW k \in Lookers, LookIn(k) PROVE LookInv'
  <2>1. PICK was \in Look : was = look[k] /\ LookSound(was)
    BY DEF LookInv
  <2>2. was.at \in 1 .. 2
    BY <1>3, <2>1 DEF LookIn, Directories
  <2>3. PICK files : files = (IF was.at = 1 THEN inbox ELSE archive)
    OBVIOUS
  <2>4. files = Files(Directories[was.at])
    BY <2>2, <2>3 DEF Files, Directories
  <2>5. PICK found \in SUBSET Mail : found = was.found \cup ({was.id} \cap files)
    BY <2>3 DEF Look, LookInv
  <2>6. was.at + 1 \in 0 .. 3
    BY <2>2
  <2> DEFINE new == Looking(was.at + 1, was.id, was.due, found)
  <2>7. /\ new \in Look /\ new.at = was.at + 1 /\ new.id = was.id /\ new.due = was.due
        /\ new.found = found
    <3>1. was.id \in Mail \cup {0} /\ was.due \in SUBSET Mail
      BY DEF Look
    <3> QED
      BY <2>6, <3>1, LookFields
  <2>8. look' = [look EXCEPT ![k] = new] /\ UNCHANGED <<inbox, archive>>
    BY <1>3, <2>1, <2>4, <2>5 DEF LookIn
  <2> HIDE DEF new
  <2>9. LookSound(new)
    BY <2>1, <2>2, <2>3, <2>5, <2>7 DEF LookSound
  <2> QED
    BY <2>7, <2>8, <2>9 DEF LookInv, LookSound
<1>4. ASSUME NEW k \in Lookers, EndLook(k) PROVE LookInv'
  BY <1>4, LookFields DEF EndLook, LookInv, LookSound, NoLook
<1>5. ASSUME NEW p \in Pruners, CheckOld(p) PROVE LookInv'
  BY <1>5, MailMoves DEF CheckOld, LookInv
<1>6. ASSUME NEW p \in Pruners, RemoveOld(p) PROVE LookInv'
  <2>1. /\ inbox' = inbox /\ archive' = archive \ {prune[p]}
        /\ look' = [k \in Lookers |-> Looking(look[k].at, look[k].id, look[k].due \ {prune[p]},
                                             look[k].found)]
    BY <1>6 DEF RemoveOld
  <2>2. ASSUME NEW k \in Lookers PROVE look'[k] \in Look /\ LookSound(look[k])'
    <3>1. PICK was \in Look : was = look[k] /\ LookSound(was)
      BY DEF LookInv
    <3>2. PICK due \in SUBSET Mail : due = was.due \ {prune[p]}
      BY DEF Look
    <3> DEFINE new == Looking(was.at, was.id, due, was.found)
    <3>3. /\ new \in Look /\ new.at = was.at /\ new.id = was.id /\ new.due = due
          /\ new.found = was.found
      <4>1. was.at \in 0 .. 3 /\ was.id \in Mail \cup {0} /\ was.found \in SUBSET Mail
        BY DEF Look
      <4> QED
        BY <4>1, LookFields
    <3>4. look'[k] = new
      BY <2>1, <3>1, <3>2
    <3> HIDE DEF new
    <3> QED
      BY <2>1, <3>1, <3>2, <3>3, <3>4 DEF LookSound
  <2>3. look' = [k \in Lookers |-> look'[k]]
    BY <2>1
  <2> QED
    BY <2>1, <2>2, <2>3 DEF LookInv
<1> QED
  BY <1>1, <1>2, <1>3, <1>4, <1>5, <1>6, ReadingMoves DEF InboxNext

LEMMA LookStutters == LookInv /\ UNCHANGED inboxVars => LookInv'
BY DEF LookInv, LookSound, inboxVars

(***************************************************************************)
(* The sidecar.  While commands are given one after the other, a command   *)
(* that is not over has read the session there is, and no sidecar is       *)
(* between its making and its first write.                                 *)
(***************************************************************************)
SidecarTypeOK ==
  /\ life \in [Pids -> Lives]
  /\ session \in [pid : Pids \cup {0}, connected : BOOLEAN]
  /\ command \in [Starts \cup Stops -> {"given", "looking", "writing", "over"}]
  /\ seen \in [Starts \cup Stops -> [pid : Pids \cup {0}, connected : BOOLEAN]]
  /\ overlapped \in BOOLEAN

Active(c) == command[c] \in {"looking", "writing"}

CommandsInTurn ==
  /\ \A c \in Starts \cup Stops : Active(c) =>
       /\ seen[c].pid = session.pid
       /\ \A p \in Pids : life[p] # "spawned"
  /\ \A c, d \in Starts \cup Stops : Active(c) /\ Active(d) => c = d

SidecarInv == SidecarTypeOK /\ OneSidecar /\ (overlapped \/ CommandsInTurn)

LEMMA SidecarStarts == SidecarInit => SidecarInv
<1> SUFFICES ASSUME SidecarInit PROVE SidecarInv
  OBVIOUS
<1>1. NoSession \in [pid : Pids \cup {0}, connected : BOOLEAN]
  BY DEF NoSession
<1>2. SidecarTypeOK
  BY <1>1 DEF SidecarInit, SidecarTypeOK, Lives
<1>3. OneSidecar
  BY DEF SidecarInit, OneSidecar, Live
<1>4. CommandsInTurn
  BY DEF SidecarInit, CommandsInTurn, Active
<1> QED
  BY <1>2, <1>3, <1>4 DEF SidecarInv

LEMMA SidecarSteps == SidecarInv /\ SidecarNext => SidecarInv'
<1> SUFFICES ASSUME SidecarInv, SidecarNext PROVE SidecarInv'
  OBVIOUS
<1> USE SidecarAssumption
    DEF SidecarInv, SidecarTypeOK, OneSidecar, CommandsInTurn, Active, Live, Lives, Pids
<1>1. ASSUME NEW c \in Starts \cup Stops, ReadsSession(c) PROVE SidecarInv'
  BY <1>1 DEF ReadsSession, Settled
<1>2. ASSUME NEW c \in Starts \cup Stops, Start(c) PROVE SidecarInv'
  BY <1>2 DEF Start, StatusRunning, Running
<1>3. ASSUME NEW c \in Starts \cup Stops, StopNothing(c) PROVE SidecarInv'
  BY <1>3 DEF StopNothing
<1>4. ASSUME NEW c \in Starts \cup Stops, StopLooks(c) PROVE SidecarInv'
  <2>1. CASE ~Running(seen[c])
    BY <1>4, <2>1 DEF StopLooks
  <2>2. CASE Running(seen[c])
    <3>1. PICK p \in Pids : p = seen[c].pid /\ Live(p)
      BY <2>2 DEF Running
    <3>2. PICK next \in {"asked", "leaving", "gone"} : life' = [life EXCEPT ![p] = next]
      BY <1>4, <2>2, <3>1 DEF StopLooks, AfterKill
    <3> QED
      BY <1>4, <3>1, <3>2 DEF StopLooks
  <2> QED
    BY <2>1, <2>2
<1>5. ASSUME NEW c \in Starts \cup Stops, StopWrites(c) PROVE SidecarInv'
  BY <1>5 DEF StopWrites
<1>6. ASSUME NEW p \in Pids, FirstWrite(p) PROVE SidecarInv'
  BY <1>6 DEF FirstWrite, Becomes
<1>7. ASSUME NEW p \in Pids, Ready(p) PROVE SidecarInv'
  BY <1>7 DEF Ready, Becomes
<1>8. ASSUME NEW p \in Pids, SyncSession(p) PROVE SidecarInv'
  BY <1>8 DEF SyncSession
<1>9. ASSUME NEW p \in Pids, Interrupted(p) PROVE SidecarInv'
  BY <1>9 DEF Interrupted, Becomes
<1>10. ASSUME NEW p \in Pids, Shutdown(p) PROVE SidecarInv'
  BY <1>10 DEF Shutdown, Becomes
<1>11. ASSUME NEW p \in Pids, Disconnected(p) PROVE SidecarInv'
  <2>1. CASE session' = session
    BY <1>11, <2>1 DEF Disconnected, Becomes
  <2>2. CASE session' = [pid |-> p, connected |-> FALSE]
    BY <1>11, <2>2 DEF Disconnected, Becomes
  <2> QED
    BY <1>11, <2>1, <2>2 DEF Disconnected
<1>12. ASSUME NEW p \in Pids, Dies(p) PROVE SidecarInv'
  BY <1>12 DEF Dies, Becomes
<1> QED
  BY <1>1, <1>2, <1>3, <1>4, <1>5, <1>6, <1>7, <1>8, <1>9, <1>10, <1>11, <1>12 DEF SidecarNext

LEMMA SidecarStutters == SidecarInv /\ UNCHANGED sidecarVars => SidecarInv'
BY DEF SidecarInv, SidecarTypeOK, OneSidecar, CommandsInTurn, Active, Live, sidecarVars

(***************************************************************************)
(* Transfers.  A transfer that is finished, or whose handler has moved its *)
(* file and not yet recorded it, is among the downloads.                   *)
(***************************************************************************)
Plans == {<<>>, <<"enforce", "create", "new">>, <<"create", "new">>, <<"new">>,
          <<"append", "count">>, <<"count">>, <<"unmake", "forget">>, <<"forget">>,
          <<"link", "unlink", "finish">>, <<"unlink", "finish">>, <<"finish">>}

AfterLink(p) == p # <<>> /\ Head(p) \in {"unlink", "finish"}

Paths == ToSet(Names)
There(t) == \E n \in Paths : downloads[n] = t

SavedInv ==
  /\ downloads \in [Paths -> Transfers \cup {Free, Other}] /\ target \in [Transfers -> Paths]
  /\ acks \in [Transfers -> SUBSET {"saved", "failed"}]
  /\ todo \in Plans
  /\ \A t \in Transfers : t \in job /\ AfterLink(todo) => downloads[target[t]] = t
  /\ \A t \in Transfers : t \in finished \/ "saved" \in acks[t] => There(t)
  /\ \A n \in taken : n \in Paths /\ downloads[n] = Other

\* How a plan goes on.
LEMMA PlanSteps ==
  ASSUME NEW p \in Plans, p # <<>>
  PROVE  /\ Tail(p) \in Plans
         /\ AfterLink(Tail(p)) => Head(p) = "link" \/ AfterLink(p)
         /\ Head(p) \in {"unlink", "finish"} => AfterLink(p)
         /\ Head(p) # "enforce" /\ Len(p) # 1 => Head(Tail(p)) # "create"
         /\ Head(p) = "finish" => Len(p) = 1
         /\ Head(p) = "enforce" => Len(p) # 1
<1>1. CASE p = <<"enforce", "create", "new">>
  <2>1. /\ Head(p) = "enforce" /\ Tail(p) = <<"create", "new">> /\ Len(p) = 3
        /\ Tail(p) # <<>> /\ Head(Tail(p)) = "create"
    BY <1>1
  <2>2. Tail(p) \in Plans
    BY <2>1, Zenon DEF Plans
  <2> QED
    BY <2>1, <2>2 DEF AfterLink
<1>2. CASE p = <<"create", "new">>
  <2>1. /\ Head(p) = "create" /\ Tail(p) = <<"new">> /\ Len(p) = 2
        /\ Tail(p) # <<>> /\ Head(Tail(p)) = "new"
    BY <1>2
  <2>2. Tail(p) \in Plans
    BY <2>1, Zenon DEF Plans
  <2> QED
    BY <2>1, <2>2 DEF AfterLink
<1>3. CASE p = <<"append", "count">>
  <2>1. /\ Head(p) = "append" /\ Tail(p) = <<"count">> /\ Len(p) = 2
        /\ Tail(p) # <<>> /\ Head(Tail(p)) = "count"
    BY <1>3
  <2>2. Tail(p) \in Plans
    BY <2>1, Zenon DEF Plans
  <2> QED
    BY <2>1, <2>2 DEF AfterLink
<1>4. CASE p = <<"unmake", "forget">>
  <2>1. /\ Head(p) = "unmake" /\ Tail(p) = <<"forget">> /\ Len(p) = 2
        /\ Tail(p) # <<>> /\ Head(Tail(p)) = "forget"
    BY <1>4
  <2>2. Tail(p) \in Plans
    BY <2>1, Zenon DEF Plans
  <2> QED
    BY <2>1, <2>2 DEF AfterLink
<1>5. CASE p = <<"link", "unlink", "finish">>
  <2>1. /\ Head(p) = "link" /\ Tail(p) = <<"unlink", "finish">> /\ Len(p) = 3
        /\ Tail(p) # <<>> /\ Head(Tail(p)) = "unlink"
    BY <1>5
  <2>2. Tail(p) \in Plans
    BY <2>1, Zenon DEF Plans
  <2> QED
    BY <2>1, <2>2 DEF AfterLink
<1>6. CASE p = <<"unlink", "finish">>
  <2>1. /\ Head(p) = "unlink" /\ Tail(p) = <<"finish">> /\ Len(p) = 2
        /\ Tail(p) # <<>> /\ Head(Tail(p)) = "finish"
    BY <1>6
  <2>2. Tail(p) \in Plans
    BY <2>1, Zenon DEF Plans
  <2> QED
    BY <2>1, <2>2 DEF AfterLink
<1>7. ASSUME NEW op \in {"new", "count", "forget", "finish"}, p = <<op>>
      PROVE  /\ Head(p) = op /\ Tail(p) = <<>> /\ Len(p) = 1
  BY <1>7
<1>8. CASE p \in {<<"new">>, <<"count">>, <<"forget">>, <<"finish">>}
  <2>1. PICK op \in {"new", "count", "forget", "finish"} : p = <<op>>
    BY <1>8, Zenon
  <2>2. Head(p) = op /\ Tail(p) = <<>> /\ Len(p) = 1
    BY <1>7, <2>1
  <2>3. Tail(p) \in Plans
    BY <2>2, Zenon DEF Plans
  <2> QED
    BY <2>2, <2>3 DEF AfterLink
<1> QED
  BY <1>1, <1>2, <1>3, <1>4, <1>5, <1>6, <1>8, Zenon DEF Plans

LEMMA PathsNamed == DOMAIN Names = 1 .. Len(Names) /\ \A i \in DOMAIN Names : Names[i] \in Paths
BY TransferAssumption DEF Paths, ToSet

LEMMA SavedInit == TransferInit => SavedInv
<1>1. Names[1] \in Paths
  BY TransferAssumption, PathsNamed
<1>2. <<>> \in Plans /\ ~AfterLink(<<>>)
  BY DEF Plans, AfterLink
<1> QED
  BY <1>1, <1>2 DEF TransferInit, SavedInv, Paths

\* Steps that move no file among the downloads and begin no plan.
LEMMA SavedQuietly ==
  ASSUME SavedInv, UNCHANGED <<downloads, target, todo, taken>>,
         job' = job, finished' = finished,
         acks' \in [Transfers -> SUBSET {"saved", "failed"}],
         \A t \in Transfers : "saved" \in acks'[t] => "saved" \in acks[t] \/ t \in finished
  PROVE  SavedInv'
BY DEF SavedInv, There

\* A handler that begins, or that ends before its time.
LEMMA SavedPlan ==
  ASSUME SavedInv, UNCHANGED <<downloads, taken, finished>>,
         todo' \in Plans, ~AfterLink(todo'), target' \in [Transfers -> Paths],
         acks' \in [Transfers -> SUBSET {"saved", "failed"}],
         \A t \in Transfers : "saved" \in acks'[t] => "saved" \in acks[t]
  PROVE  SavedInv'
BY DEF SavedInv, There

\* A failure is told.
LEMMA ToldFailed ==
  ASSUME SavedInv, NEW t \in Transfers, Tell(t, "failed")
  PROVE  /\ acks' \in [Transfers -> SUBSET {"saved", "failed"}]
         /\ \A u \in Transfers : "saved" \in acks'[u] => "saved" \in acks[u]
<1>1. PICK was \in SUBSET {"saved", "failed"} : was = acks[t]
  BY DEF SavedInv
<1>2. acks' = [acks EXCEPT ![t] = was \cup {"failed"}]
  BY <1>1 DEF Tell
<1> QED
  BY <1>1, <1>2 DEF SavedInv

LEMMA SavedArrivals ==
  ASSUME SavedInv, NEW t \in Transfers,
         OfferArrives(t) \/ (\E i \in 1 .. MaxSize : ChunkArrives(t, i)) \/ CompletionArrives(t)
  PROVE  SavedInv'
<1> USE DEF Arrives
<1>1. /\ <<"enforce", "create", "new">> \in Plans /\ ~AfterLink(<<"enforce", "create", "new">>)
      /\ <<"append", "count">> \in Plans /\ ~AfterLink(<<"append", "count">>)
      /\ <<"link", "unlink", "finish">> \in Plans /\ ~AfterLink(<<"link", "unlink", "finish">>)
      /\ Discard \in Plans /\ ~AfterLink(Discard)
  <2>1. /\ ~AfterLink(<<"enforce", "create", "new">>) /\ ~AfterLink(<<"append", "count">>)
        /\ ~AfterLink(<<"link", "unlink", "finish">>) /\ ~AfterLink(<<"unmake", "forget">>)
    BY DEF AfterLink
  <2> QED
    BY <2>1, Zenon DEF Plans, Discard
<1>2. target \in [Transfers -> Paths] /\ acks \in [Transfers -> SUBSET {"saved", "failed"}]
  BY DEF SavedInv
<1>3. ASSUME Ends, UNCHANGED acks PROVE SavedInv'
  BY <1>2, <1>3, SavedQuietly DEF Ends
<1>4. ASSUME Ends, Tell(t, "failed") PROVE SavedInv'
  BY <1>4, SavedQuietly, ToldFailed DEF Ends
<1>8. ASSUME Refuse(t) PROVE SavedInv'
  <2>1. ASSUME Begin(t, Discard), UNCHANGED target PROVE SavedInv'
    BY <1>1, <1>2, <2>1, SavedPlan DEF Begin
  <2> QED
    BY <1>4, <1>8, <2>1 DEF Refuse
<1>5. CASE OfferArrives(t)
  <2>1. ASSUME Begin(t, <<"enforce", "create", "new">>), UNCHANGED target PROVE SavedInv'
    BY <1>1, <1>2, <2>1, SavedPlan DEF Begin
  <2> QED
    BY <1>3, <1>4, <1>5, <2>1 DEF OfferArrives
<1>6. ASSUME NEW i \in 1 .. MaxSize, ChunkArrives(t, i) PROVE SavedInv'
  <2>1. ASSUME Begin(t, <<"append", "count">>), UNCHANGED target PROVE SavedInv'
    BY <1>1, <1>2, <2>1, SavedPlan DEF Begin
  <2> QED
    BY <1>3, <1>6, <1>8, <2>1 DEF ChunkArrives
<1>7. CASE CompletionArrives(t)
  <2>1. ASSUME t \in finished, Ends, Tell(t, "saved") PROVE SavedInv'
    <3>1. PICK was \in SUBSET {"saved", "failed"} : was = acks[t]
      BY <1>2
    <3>2. acks' = [acks EXCEPT ![t] = was \cup {"saved"}]
      BY <2>1, <3>1 DEF Tell
    <3> QED
      BY <1>2, <2>1, <3>1, <3>2, SavedQuietly DEF Ends
  <2>2. ASSUME NEW i \in DOMAIN Names, Begin(t, <<"link", "unlink", "finish">>),
               target' = [target EXCEPT ![t] = IF downloads[@] = Free THEN @ ELSE Names[i]]
        PROVE  SavedInv'
    <3>1. target' \in [Transfers -> Paths]
      BY <1>2, <2>2, PathsNamed
    <3> QED
      BY <1>1, <1>2, <2>2, <3>1, SavedPlan DEF Begin
  <2> QED
    BY <1>7, <1>8, <2>1, <2>2 DEF CompletionArrives
<1> QED
  BY <1>5, <1>6, <1>7

\* The next operation of a handler.
LEMMA NextOp ==
  ASSUME SavedInv, NEW t \in Transfers, NEW op, Op(t, op), Next1
  PROVE  /\ todo \in Plans /\ todo # <<>> /\ Head(todo) = op /\ job = {t} /\ job' \subseteq job
         /\ todo' \in Plans /\ (AfterLink(todo') => op = "link" \/ AfterLink(todo))
BY PlanSteps DEF SavedInv, Op, Next1

LEMMA SavedOperations ==
  ASSUME SavedInv, NEW t \in Transfers,
         \/ (\E u \in Transfers : DiscardExpired(t, u)) \/ EnforceQuota(t) \/ Create(t)
         \/ AppendChunk(t) \/ DropPart(t) \/ DropManifest(t)
         \/ Link(t) \/ Unlink(t) \/ WriteManifest(t) \/ Throws(t)
  PROVE  SavedInv'
<1>1. CASE Create(t) \/ AppendChunk(t) \/ Unlink(t) \/ DropPart(t)
  <2>1. PICK op \in {"create", "append", "unlink", "unmake"} :
          /\ Op(t, op) /\ Next1
          /\ UNCHANGED <<downloads, target, taken, finished, acks>>
    BY <1>1 DEF Create, AppendChunk, Unlink, DropPart
  <2> QED
    BY <2>1, NextOp DEF SavedInv, There
<1>2. CASE Link(t)
  <2>1. /\ Op(t, "link") /\ Next1 /\ downloads[target[t]] = Free
        /\ downloads' = [downloads EXCEPT ![target[t]] = t]
        /\ UNCHANGED <<target, taken, finished, acks>>
    BY <1>2 DEF Link
  <2>2. /\ target[t] \in Paths /\ downloads \in [Paths -> Transfers \cup {Free, Other}]
        /\ Free # Other /\ Free \notin Transfers /\ Other \notin Transfers
    BY TransferAssumption DEF SavedInv
  <2>3. \A u \in Transfers : There(u) => There(u)'
    BY <2>1, <2>2 DEF There
  <2>4. \A n \in taken : downloads'[n] = Other
    BY <2>1, <2>2 DEF SavedInv
  <2>5. downloads'[target[t]] = t
    BY <2>1, <2>2
  <2>6. \A u \in Transfers : u \in job' => u = t
    BY <2>1, NextOp
  <2> QED
    BY <2>1, <2>2, <2>3, <2>4, <2>5, <2>6, NextOp DEF SavedInv
<1>3. CASE WriteManifest(t)
  <2>1. PICK op \in {"new", "count", "finish"} :
          /\ Op(t, op) /\ Next1 /\ UNCHANGED <<downloads, target, taken>>
          /\ IF op = "finish" THEN finished' = finished \cup {t} /\ Tell(t, "saved")
                              ELSE UNCHANGED <<finished, acks>>
    BY <1>3 DEF WriteManifest
  <2>2. CASE op = "finish"
    <3>1. AfterLink(todo) /\ t \in job
      BY <2>1, <2>2, NextOp, PlanSteps
    <3>2. There(t)
      BY <3>1 DEF SavedInv, There
    <3>3. PICK was \in SUBSET {"saved", "failed"} : was = acks[t]
      BY DEF SavedInv
    <3>4. acks' = [acks EXCEPT ![t] = was \cup {"saved"}]
      BY <2>1, <2>2, <3>3 DEF Tell
    <3> QED
      BY <2>1, <2>2, <3>2, <3>3, <3>4, NextOp DEF SavedInv, There
  <2>3. CASE op # "finish"
    BY <2>1, <2>3, NextOp DEF SavedInv, There
  <2> QED
    BY <2>2, <2>3
<1>4. CASE Throws(t)
  <2>1. <<>> \in Plans /\ ~AfterLink(<<>>) /\ Discard \in Plans /\ ~AfterLink(Discard)
    <3>1. ~AfterLink(<<>>) /\ ~AfterLink(<<"unmake", "forget">>)
      BY DEF AfterLink
    <3> QED
      BY <3>1, Zenon DEF Plans, Discard
  <2> QED
    BY <1>4, <2>1, ToldFailed, SavedPlan DEF Throws, SavedInv
<1>5. ASSUME NEW u \in Transfers, DiscardExpired(t, u) PROVE SavedInv'
  BY <1>5, SavedQuietly DEF DiscardExpired, SavedInv
<1>6. CASE EnforceQuota(t)
  <2>1. CASE Fits(t)
    <3>1. Op(t, "enforce") /\ Next1 /\ UNCHANGED <<downloads, target, taken, finished, acks>>
      BY <1>6, <2>1 DEF EnforceQuota
    <3> QED
      BY <3>1, NextOp DEF SavedInv, There
  <2>2. CASE ~Fits(t)
    <3>1. <<>> \in Plans /\ ~AfterLink(<<>>)
      BY DEF Plans, AfterLink
    <3> QED
      BY <1>6, <2>2, <3>1, ToldFailed, SavedPlan DEF EnforceQuota, SavedInv
  <2> QED
    BY <2>1, <2>2
<1>7. CASE DropManifest(t)
  <2>1. /\ Op(t, "forget") /\ Next1 /\ Tell(t, "failed")
        /\ UNCHANGED <<downloads, target, taken, finished>>
    BY <1>7 DEF DropManifest
  <2>2. /\ acks' \in [Transfers -> SUBSET {"saved", "failed"}]
        /\ \A u \in Transfers : "saved" \in acks'[u] => "saved" \in acks[u]
    BY <2>1, ToldFailed
  <2>3. job' \subseteq job /\ todo' \in Plans /\ (AfterLink(todo') => AfterLink(todo))
    BY <2>1, NextOp
  <2> QED
    BY <2>1, <2>2, <2>3 DEF SavedInv, There
<1> QED
  BY <1>1, <1>2, <1>3, <1>4, <1>5, <1>6, <1>7

LEMMA SavedNext == SavedInv /\ TransferNext => SavedInv'
<1> SUFFICES ASSUME SavedInv, TransferNext PROVE SavedInv'
  OBVIOUS
<1>1. ASSUME NEW t \in Transfers, NEW k, Send(t, k) PROVE SavedInv'
  BY <1>1 DEF Send, SavedInv, There
<1>2. ASSUME NEW t \in Transfers, Lose(t) PROVE SavedInv'
  BY <1>2 DEF Lose, SavedInv, There
<1>3. CASE Crash
  <2>1. <<>> \in Plans /\ ~AfterLink(<<>>)
    BY DEF Plans, AfterLink
  <2> QED
    BY <1>3, <2>1, SavedPlan DEF Crash, SavedInv
<1>4. CASE DayPasses
  BY <1>4 DEF DayPasses, SavedInv, There
<1>5. ASSUME NEW n \in Paths, NameTaken(n) PROVE SavedInv'
  <2> USE TransferAssumption DEF SavedInv
  <2>1. \A u \in Transfers : There(u) => There(u)'
    BY <1>5 DEF NameTaken, There
  <2> QED
    BY <1>5, <2>1 DEF NameTaken
<1> QED
  BY <1>1, <1>2, <1>3, <1>4, <1>5, SavedArrivals, SavedOperations DEF TransferNext, Paths

LEMMA SavedStutters == SavedInv /\ UNCHANGED transferVars => SavedInv'
BY DEF SavedInv, There, transferVars

(***************************************************************************)
(* The quota.  The transfers it holds for are those with a part that is    *)
(* not finished, and the one whose part is about to be created: that one   *)
(* was let in for the size it gave, and no other part is created, unless   *)
(* by a chunk that comes when its part is gone.                            *)
(***************************************************************************)
Making == {t \in job : Head(todo) = "create"}
Reserved == (part \cup Making) \ (finished \cup anew)

Within(S) ==
  /\ IsFiniteSet(S)
  /\ Cardinality(S) <= MaxIncomplete
  /\ SumOf(Size, S) <= MaxBytes

QuotaInv ==
  /\ manifest \in [Transfers -> {"none", "broken", "good"}]
  /\ part \cup job \cup busy \subseteq Transfers
  /\ \A t \in finished : t \in Transfers /\ manifest[t] = "good" /\ t \notin job
  /\ Within(Reserved)

LEMMA QuotaInit == TransferInit => QuotaInv
<1> SUFFICES ASSUME TransferInit PROVE QuotaInv
  OBVIOUS
<1>1. Reserved = {} /\ part \cup job \cup busy \subseteq Transfers /\ finished = {}
  BY DEF TransferInit, Reserved, Making
<1>2. Within({})
  BY FS_EmptySet, SumEmpty, TransferAssumption DEF Within
<1>3. manifest \in [Transfers -> {"none", "broken", "good"}]
  BY DEF TransferInit
<1> QED
  BY <1>1, <1>2, <1>3 DEF QuotaInv

LEMMA SizesAreNumbers == \A t \in Transfers : Size[t] \in Nat /\ Size[t] <= MaxSize /\ MaxSize \in Nat
<1>1. Size \in [Transfers -> 0 .. MaxSize] /\ MaxSize \in Nat
  BY TransferAssumption
<1> QED
  BY <1>1

\* Fewer transfers stay within the quota.
LEMMA WithinFewer ==
  ASSUME NEW S \in SUBSET Transfers, Within(S), NEW T \in SUBSET S
  PROVE  Within(T)
<1>1. IsFiniteSet(S) /\ Cardinality(S) \in Nat /\ Cardinality(S) <= MaxIncomplete /\ SumOf(Size, S) <= MaxBytes
  BY FS_CardinalityType DEF Within
<1>2. IsFiniteSet(T) /\ Cardinality(T) \in Nat /\ Cardinality(T) <= Cardinality(S)
  BY <1>1, FS_Subset, FS_CardinalityType
<1>3. \A t \in S : Size[t] \in Nat /\ Size[t] <= Size[t]
  BY SizesAreNumbers
<1>4. SumOf(Size, T) <= SumOf(Size, S)
  BY <1>1, <1>3, SumLess
<1>5. SumOf(Size, T) \in Nat /\ SumOf(Size, S) \in Nat
  BY <1>1, <1>2, <1>3, SumType
<1> QED
  BY <1>1, <1>2, <1>4, <1>5, TransferAssumption DEF Within

\* One more does, if it fits beside what the others may grow to.
LEMMA WithinOneMore ==
  ASSUME QuotaInv, NEW t \in Transfers, Fits(t)
  PROVE  Within(Counted \cup {t})
<1>1. Counted \subseteq Transfers
  BY DEF Counted, QuotaInv
<1>2. IsFiniteSet(Counted) /\ Cardinality(Counted) \in Nat
  BY <1>1, TransferAssumption, FS_Subset, FS_CardinalityType
<1>3. Cardinality(Counted) + 1 <= MaxIncomplete /\ SumOf(Promised, Counted) + Size[t] <= MaxBytes
  BY <1>2, TransferAssumption DEF Fits, SumOf
<1>4. \A u \in Counted : Size[u] \in Nat /\ Promised[u] \in Nat /\ Size[u] <= Promised[u]
  BY <1>1, SizesAreNumbers DEF Promised
<1>5. SumOf(Size, Counted) <= SumOf(Promised, Counted)
  BY <1>2, <1>4, SumLess
<1>6. SumOf(Size, Counted) \in Nat /\ SumOf(Promised, Counted) \in Nat /\ Size[t] \in Nat
  BY <1>2, <1>4, SumType, SizesAreNumbers
<1>7. SumOf(Size, Counted) + Size[t] <= MaxBytes
  BY <1>3, <1>5, <1>6, TransferAssumption
<1>8. CASE t \in Counted
  <2>1. Counted \cup {t} = Counted
    BY <1>8
  <2>2. Cardinality(Counted) <= MaxIncomplete /\ SumOf(Size, Counted) <= MaxBytes
    BY <1>2, <1>3, <1>6, <1>7, TransferAssumption
  <2>3. Within(Counted)
    BY <1>2, <2>2 DEF Within
  <2> QED
    BY <2>1, <2>3
<1>9. CASE t \notin Counted
  <2> DEFINE more == Counted \cup {t}
  <2>1. IsFiniteSet(more) /\ Cardinality(more) = Cardinality(Counted) + 1
    BY <1>2, <1>9, FS_AddElement
  <2>2. SumOf(Size, more) = Size[t] + SumOf(Size, Counted)
    <3>1. \A u \in Counted \cup {t} : Size[u] \in Nat
      BY <1>4, <1>6
    <3> QED
      BY <1>2, <1>9, <3>1, SumAdd
  <2> HIDE DEF more
  <2>3. Within(more)
    BY <1>3, <1>6, <1>7, <2>1, <2>2 DEF Within
  <2> QED
    BY <2>3 DEF more
<1> QED
  BY <1>8, <1>9

\* A step that creates no other part, and finishes no transfer that is not recorded.
LEMMA QuotaShrinks ==
  ASSUME QuotaInv, manifest' \in [Transfers -> {"none", "broken", "good"}],
         part' \cup job' \cup busy' \subseteq Transfers,
         part' \cup Making' \subseteq part \cup Making \cup finished \cup anew',
         finished \subseteq finished', anew \subseteq anew',
         \A t \in finished' : t \in Transfers /\ manifest'[t] = "good" /\ t \notin job'
  PROVE  QuotaInv'
<1>1. Reserved' \subseteq Reserved /\ Reserved \subseteq Transfers
  BY DEF Reserved, QuotaInv, Making
<1>2. Within(Reserved')
  BY <1>1, WithinFewer DEF QuotaInv
<1>3. Within(Reserved)'
  BY <1>2 DEF Within
<1> QED
  BY <1>3 DEF QuotaInv

LEMMA QuotaArrivals ==
  ASSUME QuotaInv, NEW t \in Transfers,
         OfferArrives(t) \/ (\E i \in 1 .. MaxSize : ChunkArrives(t, i)) \/ CompletionArrives(t)
  PROVE  QuotaInv'
<1>1. job = {} /\ Making = {}
  BY DEF OfferArrives, ChunkArrives, CompletionArrives, Arrives, Making
<1>2. ASSUME Ends PROVE QuotaInv'
  BY <1>1, <1>2, QuotaShrinks DEF Ends, Making, QuotaInv
<1>3. ASSUME NEW ops, Head(ops) # "create", Begin(t, ops), t \notin finished PROVE QuotaInv'
  <2>1. /\ Making' = {} /\ job' = {t}
        /\ UNCHANGED <<part, manifest, finished, busy, anew>>
    BY <1>3 DEF Begin, Making
  <2> QED
    BY <2>1, <1>3, QuotaShrinks DEF QuotaInv
<1>4. CASE OfferArrives(t)
  <2>1. Head(<<"enforce", "create", "new">>) # "create"
    OBVIOUS
  <2>2. manifest[t] # "good" => t \notin finished
    BY DEF QuotaInv
  <2> QED
    BY <1>2, <1>3, <1>4, <2>1, <2>2 DEF OfferArrives
<1>5. ASSUME Refuse(t), t \notin finished \/ manifest[t] # "good" PROVE QuotaInv'
  <2>1. Head(Discard) # "create"
    BY DEF Discard
  <2> QED
    BY <1>2, <1>3, <1>5, <2>1 DEF Refuse
<1>6. ASSUME NEW i \in 1 .. MaxSize, ChunkArrives(t, i) PROVE QuotaInv'
  <2>1. Head(<<"append", "count">>) # "create"
    OBVIOUS
  <2> QED
    BY <1>2, <1>3, <1>5, <1>6, <2>1 DEF ChunkArrives
<1>7. CASE CompletionArrives(t)
  <2>1. Head(<<"link", "unlink", "finish">>) # "create"
    OBVIOUS
  <2> QED
    BY <1>2, <1>3, <1>5, <1>7, <2>1 DEF CompletionArrives
<1> QED
  BY <1>4, <1>6, <1>7

\* A manifest that is none of a finished transfer is written, cut short or removed.
LEMMA ManifestOf ==
  ASSUME QuotaInv, NEW t \in Transfers, t \notin finished,
         NEW m \in {"none", "broken", "good"}, manifest' = [manifest EXCEPT ![t] = m]
  PROVE  /\ manifest' \in [Transfers -> {"none", "broken", "good"}]
         /\ \A u \in finished : u \in Transfers /\ manifest'[u] = "good"
BY DEF QuotaInv

\* What is left of an operation that does not finish.
LEMMA QuotaLeaves ==
  ASSUME QuotaInv, NEW t \in job, Leaves(t)
  PROVE  /\ manifest' \in [Transfers -> {"none", "broken", "good"}]
         /\ \A u \in finished : u \in Transfers /\ manifest'[u] = "good"
         /\ part' \subseteq part \cup Making \cup anew' /\ part' \subseteq Transfers
         /\ anew \subseteq anew'
<1>1. t \in Transfers /\ t \notin finished
  BY DEF QuotaInv
<1>2. /\ manifest' \in [Transfers -> {"none", "broken", "good"}]
      /\ \A u \in finished : u \in Transfers /\ manifest'[u] = "good"
  <2>1. manifest' = [manifest EXCEPT ![t] = "broken"] \/ manifest' = manifest
    BY DEF Leaves
  <2>2. ASSUME manifest' = [manifest EXCEPT ![t] = "broken"]
        PROVE  /\ manifest' \in [Transfers -> {"none", "broken", "good"}]
               /\ \A u \in finished : u \in Transfers /\ manifest'[u] = "good"
    BY <1>1, <2>2, ManifestOf
  <2> QED
    BY <2>1, <2>2 DEF QuotaInv
<1>3. \/ part' = part \cup {t} /\ anew' = anew \cup ({t} \ part)
      \/ part' = part \cup {t} /\ anew' = anew /\ t \in Making
      \/ part' \subseteq part /\ anew' = anew
  BY DEF Leaves, Appended, PartGone, Making
<1>4. /\ part' \subseteq part \cup Making \cup anew' /\ part' \subseteq Transfers
      /\ anew \subseteq anew'
  BY <1>3 DEF QuotaInv
<1> QED
  BY <1>2, <1>4

LEMMA QuotaOperations ==
  ASSUME QuotaInv, SavedInv, NEW t \in Transfers,
         \/ (\E u \in Transfers : DiscardExpired(t, u)) \/ EnforceQuota(t) \/ Create(t)
         \/ AppendChunk(t) \/ DropPart(t) \/ DropManifest(t)
         \/ Link(t) \/ Unlink(t) \/ WriteManifest(t) \/ Throws(t)
  PROVE  QuotaInv'
<1>1. ASSUME NEW op, Op(t, op), Next1
      PROVE  /\ job = {t} /\ job' \subseteq {t} /\ t \notin finished
             /\ op # "enforce" => Making' = {}
             /\ op = "enforce" => job' = {t}
             /\ op = "finish" => job' = {}
             /\ op = "create" => t \in Making
  <2>1. job = {t} /\ todo # <<>> /\ Head(todo) = op /\ todo' = Tail(todo)
        /\ job' = IF Len(todo) = 1 THEN {} ELSE job
    BY <1>1 DEF Op, Next1
  <2>2. /\ op # "enforce" /\ Len(todo) # 1 => Head(Tail(todo)) # "create"
        /\ op = "finish" => Len(todo) = 1
        /\ op = "enforce" => Len(todo) # 1
    BY <2>1, PlanSteps DEF SavedInv
  <2> QED
    BY <2>1, <2>2 DEF Making, QuotaInv
<1>2. CASE Create(t)
  <2>1. /\ Op(t, "create") /\ Next1 /\ part' = part \cup {t}
        /\ UNCHANGED <<manifest, finished, busy, anew>>
    BY <1>2 DEF Create
  <2> QED
    BY <1>1, <2>1, QuotaShrinks DEF QuotaInv
<1>3. CASE AppendChunk(t) \/ DropPart(t) \/ Link(t) \/ Unlink(t)
  <2>1. PICK op \in {"append", "unmake", "link", "unlink"} :
          /\ Op(t, op) /\ Next1 /\ UNCHANGED <<manifest, finished, busy>>
          /\ part' \subseteq part \cup anew' /\ part' \subseteq Transfers /\ anew \subseteq anew'
    BY <1>3 DEF AppendChunk, Appended, DropPart, Link, Unlink, PartGone, QuotaInv
  <2>2. Making' = {} /\ job' \subseteq {t} /\ t \notin finished
    BY <1>1, <2>1
  <2> QED
    BY <2>1, <2>2, QuotaShrinks DEF QuotaInv
<1>4. CASE WriteManifest(t)
  <2>1. PICK op \in {"new", "count", "finish"} :
          /\ Op(t, op) /\ Next1 /\ UNCHANGED <<part, busy, anew>>
          /\ IF op = "finish" THEN finished' = finished \cup {t} ELSE finished' = finished
          /\ manifest' = [manifest EXCEPT ![t] = "good"]
    BY <1>4 DEF WriteManifest
  <2>2. manifest' \in [Transfers -> {"none", "broken", "good"}]
    BY <2>1 DEF QuotaInv
  <2>3. \A u \in finished' : u \in Transfers /\ manifest'[u] = "good" /\ u \notin job'
    BY <1>1, <2>1 DEF QuotaInv
  <2>4. Making' = {} /\ job' \subseteq {t}
    BY <1>1, <2>1
  <2> QED
    BY <2>1, <2>2, <2>3, <2>4, QuotaShrinks DEF QuotaInv
<1>5. CASE Throws(t)
  <2>1. /\ job = {t} /\ finished' = finished /\ busy' = busy /\ t \notin finished /\ Leaves(t)
        /\ job' = {} \/ (job' = {t} /\ todo' = Discard)
    BY <1>5 DEF Throws, QuotaInv
  <2>2. Making' = {} /\ job' \subseteq {t}
    <3>1. Head(Discard) # "create"
      BY DEF Discard
    <3> QED
      BY <2>1, <3>1 DEF Making
  <2>3. /\ manifest' \in [Transfers -> {"none", "broken", "good"}]
        /\ \A u \in finished : u \in Transfers /\ manifest'[u] = "good"
        /\ part' \subseteq part \cup Making \cup anew' /\ part' \subseteq Transfers
        /\ anew \subseteq anew'
    BY <2>1, QuotaLeaves
  <2> QED
    BY <2>1, <2>2, <2>3, QuotaShrinks DEF QuotaInv
<1>6. ASSUME NEW u \in Transfers, DiscardExpired(t, u) PROVE QuotaInv'
  <2>1. /\ Making' = Making /\ job' = job /\ part' \subseteq part /\ busy' \subseteq busy \cup {u}
        /\ finished' = finished /\ anew' = anew /\ u \notin finished
    BY <1>6 DEF DiscardExpired, Expired, PartGone, Making
  <2>2. /\ manifest' \in [Transfers -> {"none", "broken", "good"}]
        /\ \A v \in finished : v \in Transfers /\ manifest'[v] = "good"
    <3>1. manifest' = manifest \/ manifest' = [manifest EXCEPT ![u] = "none"]
      BY <1>6 DEF DiscardExpired, ManifestGone
    <3>2. ASSUME manifest' = [manifest EXCEPT ![u] = "none"]
          PROVE  /\ manifest' \in [Transfers -> {"none", "broken", "good"}]
                 /\ \A v \in finished : v \in Transfers /\ manifest'[v] = "good"
      BY <2>1, <3>2, ManifestOf
    <3> QED
      BY <3>1, <3>2 DEF QuotaInv
  <2> QED
    BY <2>1, <2>2, QuotaShrinks DEF QuotaInv
<1>7. CASE EnforceQuota(t)
  <2>1. /\ Op(t, "enforce") /\ busy' = {} /\ job = {t} /\ t \notin finished
        /\ UNCHANGED <<part, manifest, finished, anew>>
    BY <1>7 DEF EnforceQuota, Op, QuotaInv
  <2>2. CASE Fits(t)
    <3>1. Next1
      BY <1>7, <2>2 DEF EnforceQuota
    <3>2. job' = {t}
      BY <1>1, <2>1, <3>1
    <3>3. Reserved' \subseteq Counted \cup {t}
      BY <2>1, <3>2 DEF Reserved, Making, Counted
    <3>4. Counted \cup {t} \in SUBSET Transfers
      BY DEF Counted, QuotaInv
    <3>5. Within(Counted \cup {t})
      BY <2>2, WithinOneMore
    <3>6. Within(Reserved')
      BY <3>3, <3>4, <3>5, WithinFewer
    <3>7. Within(Reserved)'
      BY <3>6 DEF Within
    <3> QED
      BY <2>1, <3>2, <3>7 DEF QuotaInv
  <2>3. CASE ~Fits(t)
    <3>1. job' = {} /\ Making' = {}
      BY <1>7, <2>3 DEF EnforceQuota, Making
    <3> QED
      BY <2>1, <3>1, QuotaShrinks DEF QuotaInv
  <2> QED
    BY <2>2, <2>3
<1>8. CASE DropManifest(t)
  <2>1. /\ Op(t, "forget") /\ Next1 /\ UNCHANGED <<part, finished, busy, anew>>
        /\ manifest' = [manifest EXCEPT ![t] = "none"]
    BY <1>8 DEF DropManifest, ManifestGone
  <2>2. Making' = {} /\ job' \subseteq {t} /\ t \notin finished
    <3>1. Op(t, "forget") /\ Next1
      BY <2>1
    <3> QED
      BY <1>1, <3>1
  <2>3. /\ manifest' \in [Transfers -> {"none", "broken", "good"}]
        /\ \A u \in finished : u \in Transfers /\ manifest'[u] = "good"
    BY <2>1, <2>2, ManifestOf
  <2> QED
    BY <2>1, <2>2, <2>3, QuotaShrinks DEF QuotaInv
<1> QED
  BY <1>2, <1>3, <1>4, <1>5, <1>6, <1>7, <1>8

LEMMA QuotaNext == QuotaInv /\ SavedInv /\ TransferNext => QuotaInv'
<1> SUFFICES ASSUME QuotaInv, SavedInv, TransferNext PROVE QuotaInv'
  OBVIOUS
<1>1. ASSUME UNCHANGED <<part, manifest, finished, job, todo, busy, anew>> PROVE QuotaInv'
  BY <1>1, QuotaShrinks DEF QuotaInv, Making
<1>2. ASSUME NEW t \in Transfers, NEW k, Send(t, k) PROVE QuotaInv'
  BY <1>1, <1>2 DEF Send
<1>3. ASSUME NEW t \in Transfers, Lose(t) PROVE QuotaInv'
  BY <1>1, <1>3 DEF Lose
<1>4. CASE Crash
  <2>1. job' = {} /\ finished' = finished /\ busy' = {} /\ Making' = {}
    BY <1>4 DEF Crash, Making
  <2>2. CASE job = {}
    <3>1. UNCHANGED <<part, anew, manifest>>
      BY <1>4, <2>2 DEF Crash
    <3> QED
      BY <2>1, <3>1, QuotaShrinks DEF QuotaInv
  <2>3. ASSUME NEW t \in job PROVE QuotaInv'
    <3>1. Leaves(t) /\ t \in Transfers
      BY <1>4, <2>3 DEF Crash, QuotaInv
    <3>2. /\ manifest' \in [Transfers -> {"none", "broken", "good"}]
          /\ \A u \in finished : u \in Transfers /\ manifest'[u] = "good"
          /\ part' \subseteq part \cup Making \cup anew' /\ part' \subseteq Transfers
          /\ anew \subseteq anew'
      BY <2>3, <3>1, QuotaLeaves
    <3> QED
      BY <2>1, <3>2, QuotaShrinks DEF QuotaInv
  <2> QED
    BY <2>2, <2>3
<1>5. CASE DayPasses
  BY <1>1, <1>5 DEF DayPasses
<1>6. ASSUME NEW n \in Paths, NameTaken(n) PROVE QuotaInv'
  BY <1>1, <1>6 DEF NameTaken
<1> QED
  BY <1>2, <1>3, <1>4, <1>5, <1>6, QuotaArrivals, QuotaOperations DEF TransferNext, Paths

LEMMA QuotaStutters == QuotaInv /\ UNCHANGED transferVars => QuotaInv'
<1> SUFFICES ASSUME QuotaInv, UNCHANGED transferVars PROVE QuotaInv'
  OBVIOUS
<1>1. UNCHANGED <<part, manifest, finished, job, todo, busy, anew>>
  BY DEF transferVars
<1> QED
  BY <1>1, QuotaShrinks DEF QuotaInv, Making

(***************************************************************************)
(* All parts together.                                                     *)
(***************************************************************************)
LocalInv == LookInv /\ SidecarInv /\ SavedInv /\ QuotaInv /\ PartInv /\ LockInv

LEMMA LocalInit == Init => LocalInv
BY LookInit, SidecarStarts, SavedInit, QuotaInit, PartFileInit, LockInit DEF Init, LocalInv

LEMMA LocalNext == LocalInv /\ [Next]_vars => LocalInv'
<1> SUFFICES ASSUME LocalInv, [Next]_vars PROVE LocalInv'
  OBVIOUS
<1>1. LookInv'
  BY LookNext, LookStutters DEF LocalInv, Next, vars
<1>2. SidecarInv'
  BY SidecarSteps, SidecarStutters DEF LocalInv, Next, vars
<1>3. SavedInv'
  BY SavedNext, SavedStutters DEF LocalInv, Next, vars
<1>4. QuotaInv'
  BY QuotaNext, QuotaStutters DEF LocalInv, Next, vars
<1>5. PartInv'
  BY PartFileNext, PartFileStutters DEF LocalInv, Next, vars
<1>6. LockInv'
  BY LockNext, LockStutters DEF LocalInv, Next, vars
<1> QED
  BY <1>1, <1>2, <1>3, <1>4, <1>5, <1>6 DEF LocalInv

LEMMA LocalAlways == Spec => []LocalInv
BY LocalInit, LocalNext, PTL DEF Spec

\* A receipt that was in the inbox or the archive when a lookup began, and that is
\* not pruned, is found, although the lookup reads one directory after the other
\* and readers move files between them (getAgentReceipt, agent-state.ts).
THEOREM ReceiptsFound == Spec => []ReceiptSeen
<1>1. LookInv => ReceiptSeen
  BY DEF LookInv, LookSound, Look, ReceiptSeen, Directories
<1> QED
  BY <1>1, LocalAlways, PTL DEF LocalInv

\* Where each command is given when the last has returned and the sidecar it made, if
\* any, has written the session (Settled), a state directory has one sidecar, which
\* the session names once it has written, however slowly sidecars start and stop
\* (startAgent and stopAgent, cli.ts).  Of commands given earlier it says nothing.
THEOREM OneSidecarPerDirectory == Spec => []OneSidecar
<1>1. SidecarInv => OneSidecar
  BY DEF SidecarInv
<1> QED
  BY <1>1, LocalAlways, PTL DEF LocalInv

\* A sender that was told its file is saved has it among the downloads, and no file of
\* another process was replaced by one (completeIncomingTransfer, file-transfer.ts).
THEOREM SavedStaysThere == Spec => []SavedIsThere
<1>1. SavedInv => SavedIsThere
  BY DEF SavedInv, SavedIsThere, There, Paths
<1> QED
  BY <1>1, LocalAlways, PTL DEF LocalInv

\* Parts of unfinished transfers stay within the quota, in number and in what they may
\* grow to, whatever crashes, failed writes and removals and manifests that cannot be
\* read leave behind, but for a part that a late chunk creates anew after its transfer
\* was discarded in part (enforceIncomingTransferQuota, file-transfer.ts).
THEOREM QuotaHolds == Spec => []QuotaKept
<1> DEFINE active == {t \in part \ anew : ~(manifest[t] = "good" /\ t \in finished)}
<1>1. ASSUME QuotaInv PROVE QuotaKept
  <2>1. active \subseteq Reserved /\ Reserved \in SUBSET Transfers
    BY <1>1 DEF QuotaInv, Reserved, Making
  <2>2. Within(active)
    BY <1>1, <2>1, WithinFewer DEF QuotaInv
  <2> QED
    BY <2>2 DEF Within, QuotaKept, SumOf
<1> QED
  BY <1>1, LocalAlways, PTL DEF LocalInv

\* Only the owner of the lock writes, moves, deletes or unlocks a part file, unless
\* a lock in use was removed for a stale one (ChunkFile, swarm.ts).
THEOREM PartFileUsedByOwner == Spec => []UsedByOwner
<1>1. PartInv => UsedByOwner
  BY DEF PartInv
<1> QED
  BY <1>1, LocalAlways, PTL DEF LocalInv

\* Two workers hold the lock of a state directory only after a start has removed a lock
\* that had been created since it had looked (lockWorker, worker-config.ts).
THEOREM WorkersOneAtATime == Spec => []OneWorkerUnlessRobbed
<1>1. LockInv => OneWorkerUnlessRobbed
  BY DEF LockInv, LockNames, OneWorkerUnlessRobbed, OneWorker, Holds
<1> QED
  BY <1>1, LocalAlways, PTL DEF LocalInv
=============================================================================
