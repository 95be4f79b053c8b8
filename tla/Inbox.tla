------------------------------- MODULE Inbox -------------------------------
(***************************************************************************)
(* The inbox and the archive of an agent (agent-state.ts), directories of  *)
(* one file for each message.  The sidecar writes the inbox.  Processes    *)
(* share both directories without a lock: the ones that read move files to *)
(* the archive, `receipt` looks a message up in both directories, `prune`  *)
(* deletes old files of the archive.  One file operation is one step.      *)
(*                                                                         *)
(* A message stands for its file name (timestamp and hash of sender and    *)
(* id), and is a number: its timestamp.  Records of confirmed handoffs,    *)
(* which a read lists and claims as well, are in Handoff.                  *)
(***************************************************************************)
EXTENDS Naturals, Sequences, FiniteSets, SequencesExt, FiniteSetsExt

CONSTANTS
  Mail,        \* file names, by timestamp
  Readers,     \* processes that read
  Lookers,     \* processes that look a receipt up
  Pruners,     \* processes that prune the archive
  ReadCount,   \* messages a read asks for (--take, 20)
  MaxStores    \* bound: files written for one name

ASSUME InboxAssumption ==
  /\ Mail \subseteq Nat \ {0} /\ IsFiniteSet(Readers) /\ ReadCount \in Nat \ {0} /\ MaxStores \in Nat

VARIABLES
  inbox,       \* the files in the inbox
  archive,     \* the files in the archive
  stores,      \* stores[m]: how often the file was written
  read,        \* the read of each process
  look,        \* the lookup of each process: directories read, the receipt, the set of it if
               \* it has to be found, and the set of it if it was
  prune,       \* the file each pruner has checked last, or 0
  done,        \* done[m]: copies taken by reads that have ended
  left         \* files a read has listed and left: beyond ReadCount, or as it failed

inboxVars == <<inbox, archive, stores, read, look, prune, done, left>>

Reading(at, rest, want, got) == [at |-> at, rest |-> rest, want |-> want, got |-> got]
NoRead == Reading("idle", <<>>, 0, {})
Looking(at, id, due, found) == [at |-> at, id |-> id, due |-> due, found |-> found]
NoLook == Looking(0, 0, {}, {})

\* listInboxMessages: all of them, by timestamp
Listings == {s \in [1 .. Cardinality(inbox) -> inbox] : \A i, j \in DOMAIN s : i < j => s[i] < s[j]}

DirectoriesReversed == <<"archive", "inbox">>  \* a variant

\* getAgentReceipt reads the directories in this order.
Directories == <<"inbox", "archive">>

Files(dir) == IF dir = "inbox" THEN inbox ELSE archive

InboxInit ==
  /\ inbox = {} /\ archive = {} /\ left = {}
  /\ stores = [m \in Mail |-> 0]
  /\ done = [m \in Mail |-> 0]
  /\ read = [r \in Readers |-> NoRead]
  /\ look = [k \in Lookers |-> NoLook]
  /\ prune = [p \in Pruners |-> 0]

\* A second copy is written only if the first has been read.
Store(m) ==
  /\ stores[m] < MaxStores
  /\ IF m \in inbox
       THEN UNCHANGED <<inbox, stores, left>>
       ELSE /\ inbox' = inbox \cup {m}
            /\ stores' = [stores EXCEPT ![m] = @ + 1]
            /\ left' = left \ {m}
  /\ UNCHANGED <<archive, read, look, prune, done>>

(***************************************************************************)
(* A read: list, then rename one file after the other to the archive.      *)
(***************************************************************************)
BeginRead(r) ==
  /\ read[r].at = "idle" /\ inbox # {}
  /\ \E listed \in Listings :
       LET want == IF Len(listed) < ReadCount THEN Len(listed) ELSE ReadCount IN
         /\ read' = [read EXCEPT ![r] = Reading("take", listed, want, {})]
         /\ left' = left \cup ToSet(SubSeq(listed, want + 1, Len(listed)))
  /\ UNCHANGED <<inbox, archive, stores, look, prune, done>>

\* A variant: copy and delete, which does not notice another reader.
TakeAnyway(r) ==
  /\ read[r].at = "take" /\ read[r].want > 0 /\ read[r].rest # <<>>
  /\ LET m == Head(read[r].rest) IN
       /\ inbox' = inbox \ {m}
       /\ archive' = archive \cup {m}
       /\ read' = [read EXCEPT ![r] = Reading("take", Tail(@.rest), @.want - 1, @.got \cup {m})]
  /\ UNCHANGED <<stores, look, prune, done, left>>

\* renameSync to the archive, over an earlier copy
Take(r) ==
  /\ read[r].at = "take" /\ read[r].want > 0 /\ read[r].rest # <<>>
  /\ Head(read[r].rest) \in inbox
  /\ LET m == Head(read[r].rest) IN
       /\ inbox' = inbox \ {m}
       /\ archive' = archive \cup {m}
       /\ read' = [read EXCEPT ![r] = Reading("take", Tail(@.rest), @.want - 1, @.got \cup {m})]
  /\ UNCHANGED <<stores, look, prune, done, left>>

\* The file is gone: another process has it.
Miss(r) ==
  /\ read[r].at = "take" /\ read[r].want > 0 /\ read[r].rest # <<>>
  /\ Head(read[r].rest) \notin inbox
  /\ read' = [read EXCEPT ![r] = Reading("missed", @.rest, @.want, @.got)]
  /\ UNCHANGED <<inbox, archive, stores, look, prune, done, left>>

\* existsSync after the failed rename: still gone, go on with the list.
SkipMissing(r) ==
  /\ read[r].at = "missed" /\ Head(read[r].rest) \notin inbox
  /\ read' = [read EXCEPT ![r] = Reading("take", Tail(@.rest), @.want, @.got)]
  /\ UNCHANGED <<inbox, archive, stores, look, prune, done, left>>

Taken(r) == done' = [m \in Mail |-> done[m] + IF m \in read[r].got THEN 1 ELSE 0]

\* The read ends without output: what it has archived is shown to nobody,
\* and the rest stays where it is.
ReadFails(r) ==
  /\ read' = [read EXCEPT ![r] = NoRead]
  /\ Taken(r)
  /\ left' = left \cup (ToSet(read[r].rest) \cap inbox)
  /\ UNCHANGED <<inbox, archive, stores, look, prune>>

\* A new copy was written in between: the error of the rename is thrown.
MissThrows(r) ==
  /\ read[r].at = "missed" /\ Head(read[r].rest) \in inbox
  /\ ReadFails(r)

EndRead(r) ==
  /\ read[r].at = "take" /\ (read[r].want = 0 \/ read[r].rest = <<>>)
  /\ read' = [read EXCEPT ![r] = NoRead]
  /\ Taken(r)
  /\ UNCHANGED <<inbox, archive, stores, look, prune, left>>

\* The process is killed before it has printed.
ReaderKilled(r) == read[r].at # "idle" /\ ReadFails(r)

(***************************************************************************)
(* A lookup of one receipt.                                                *)
(***************************************************************************)
BeginLook(k, m) ==
  /\ look[k].at = 0
  /\ look' = [look EXCEPT ![k] = Looking(1, m, {m} \cap (inbox \cup archive), {})]
  /\ UNCHANGED <<inbox, archive, stores, read, prune, done, left>>

LookIn(k) ==
  /\ look[k].at \in 1 .. Len(Directories)
  /\ LET here == {look[k].id} \cap Files(Directories[look[k].at]) IN
       look' = [look EXCEPT ![k] = Looking(@.at + 1, @.id, @.due, @.found \cup here)]
  /\ UNCHANGED <<inbox, archive, stores, read, prune, done, left>>

EndLook(k) ==
  /\ look[k].at > Len(Directories)
  /\ look' = [look EXCEPT ![k] = NoLook]
  /\ UNCHANGED <<inbox, archive, stores, read, prune, done, left>>

(***************************************************************************)
(* pruneAgentArchive --apply, one old file: the last lstat, then rmSync.   *)
(***************************************************************************)
CheckOld(p) ==
  /\ prune[p] = 0
  /\ \E m \in archive : prune' = [prune EXCEPT ![p] = m]
  /\ UNCHANGED <<inbox, archive, stores, read, look, done, left>>

RemoveOld(p) ==
  /\ prune[p] # 0
  /\ archive' = archive \ {prune[p]}
  /\ look' = [k \in Lookers |-> Looking(look[k].at, look[k].id, look[k].due \ {prune[p]}, look[k].found)]
  /\ prune' = [prune EXCEPT ![p] = 0]
  /\ UNCHANGED <<inbox, stores, read, done, left>>

InboxNext ==
  \/ \E m \in Mail : Store(m) \/ \E k \in Lookers : BeginLook(k, m)
  \/ \E r \in Readers :
       \/ BeginRead(r) \/ Take(r) \/ Miss(r) \/ SkipMissing(r)
       \/ MissThrows(r) \/ EndRead(r) \/ ReaderKilled(r)
  \/ \E k \in Lookers : LookIn(k) \/ EndLook(k)
  \/ \E p \in Pruners : CheckOld(p) \/ RemoveOld(p)

(***************************************************************************)
(* Properties                                                              *)
(***************************************************************************)
\* No copy of a message is returned by two reads, and none disappears: it is
\* in the inbox, with one read, or was taken by one that has ended
\* (takeInboxMessages, several processes).
MailConserved ==
  \A m \in Mail :
    stores[m] = done[m] + Cardinality({r \in Readers : m \in read[r].got})
                + IF m \in inbox THEN 1 ELSE 0

\* A receipt that was there when a lookup began and was not pruned is found,
\* wherever readers move it in the meantime (getAgentReceipt).
ReceiptSeen ==
  \A k \in Lookers : look[k].at > Len(Directories) => look[k].due \subseteq look[k].found
=============================================================================
