------------------------------ MODULE Transfer ------------------------------
(***************************************************************************)
(* The receiving side of simple file transfers (file-transfer.ts and the   *)
(* handlers in cli.ts): a part file and a manifest for each transfer, a    *)
(* quota on incomplete ones, and the folder of downloads, which other      *)
(* processes write to as well.                                             *)
(*                                                                         *)
(* A sender hands the offer, the chunks and the completion to the          *)
(* transport in one go, and stops at the first one it refuses.  It never   *)
(* resumes: another attempt is another transfer.  A handler is cut at its  *)
(* file operations, removals included: each may fail, and the process may  *)
(* be killed between two of them.  Sizes are counted in chunks.            *)
(***************************************************************************)
EXTENDS Naturals, Sequences, FiniteSets, SequencesExt, Functions

CONSTANTS
  Transfers,
  Size,          \* of each transfer
  Names,         \* paths in the folder of downloads, in the order they are tried
  MaxIncomplete, \* incomplete transfers
  MaxBytes,      \* chunks promised to them
  MaxSize,       \* chunks of one transfer, and what a part of unknown size counts
  Free, Other,   \* no file, a file of another process
  MaxTrouble     \* bound: failed file operations, crashes, lost messages

ASSUME TransferAssumption ==
  /\ MaxIncomplete \in Nat /\ MaxBytes \in Nat /\ MaxSize \in Nat /\ MaxTrouble \in Nat
  /\ IsFiniteSet(Transfers) /\ Size \in [Transfers -> 0 .. MaxSize]
  /\ Names \in Seq(ToSet(Names)) \ {<<>>}
  /\ Free # Other /\ {Free, Other} \cap Transfers = {}

VARIABLES
  sent,        \* transfers whose sender has begun
  channel,     \* messages of each transfer under way: 0, the chunks, Size + 1
  part,        \* transfers with a part file
  bytes,       \* the chunks in it
  manifest,    \* "none", "broken" (cut short) or "good"
  received,    \* receivedChunks of a good manifest
  finished,    \* good manifests with completedAt
  stale,       \* good manifests not updated for a day
  job,         \* the transfer whose handler runs, if one does
  todo,        \* the file operations it has still to do
  busy,        \* expired transfers the handler of an offer could not discard
  anew,        \* ghost: transfers whose part was gone when a chunk was appended
  target,      \* savedPath of a transfer
  downloads,   \* for each path the transfer saved there, Free, or Other
  taken,       \* paths other processes have written to
  acks,        \* what the sender of a transfer was told
  trouble

transferVars == <<sent, channel, part, bytes, manifest, received, finished, stale, job, todo,
                  busy, anew, target, downloads, taken, acks, trouble>>

Offer == 0
Complete(t) == Size[t] + 1

TransferInit ==
  /\ sent = {} /\ channel = [t \in Transfers |-> <<>>]
  /\ part = {} /\ bytes = [t \in Transfers |-> <<>>]
  /\ manifest = [t \in Transfers |-> "none"] /\ received = [t \in Transfers |-> 0]
  /\ finished = {} /\ stale = {} /\ job = {} /\ todo = <<>> /\ busy = {} /\ anew = {}
  /\ target = [t \in Transfers |-> Names[1]]
  /\ downloads = [n \in ToSet(Names) |-> Free] /\ taken = {}
  /\ acks = [t \in Transfers |-> {}] /\ trouble = 0

Trouble == trouble < MaxTrouble /\ trouble' = trouble + 1

(***************************************************************************)
(* The sender and the network.                                             *)
(***************************************************************************)
\* sendPreparedFileTransfer: all messages, or as many as trySend takes
Send(t, k) ==
  /\ t \notin sent /\ sent' = sent \cup {t}
  /\ k \in 1 .. Size[t] + 2
  /\ channel' = [channel EXCEPT ![t] = [i \in 1 .. k |-> i - 1]]
  /\ UNCHANGED <<part, bytes, manifest, received, finished, stale, job, todo, busy, anew, target,
                 downloads, taken, acks, trouble>>

Lose(t) ==
  /\ channel[t] # <<>> /\ Trouble
  /\ channel' = [channel EXCEPT ![t] = Tail(@)]
  /\ UNCHANGED <<sent, part, bytes, manifest, received, finished, stale, job, todo, busy, anew,
                 target, downloads, taken, acks>>

(***************************************************************************)
(* A message arrives: what its handler decides before it writes.           *)
(***************************************************************************)
Arrives(t, m) ==
  /\ job = {} /\ channel[t] # <<>> /\ Head(channel[t]) = m
  /\ channel' = [channel EXCEPT ![t] = Tail(@)]

Tell(t, answer) == acks' = [acks EXCEPT ![t] = @ \cup {answer}]

Begin(t, ops) ==
  /\ job' = {t} /\ todo' = ops
  /\ UNCHANGED <<part, bytes, manifest, received, finished, stale, busy, anew, downloads, taken,
                 acks>>

\* The handler ends at once.
Ends == UNCHANGED <<part, bytes, manifest, received, finished, stale, job, todo, busy, anew,
                    target, downloads, taken>>

\* beginIncomingTransfer
OfferArrives(t) ==
  /\ Arrives(t, Offer)
  /\ \/ manifest[t] = "good" /\ Ends /\ UNCHANGED acks
     \/ manifest[t] = "broken" /\ Ends /\ Tell(t, "failed")
     \/ manifest[t] = "none" /\ Begin(t, <<"enforce", "create", "new">>) /\ UNCHANGED target
  /\ UNCHANGED <<sent, trouble>>

\* discardIncomingTransfer, for which the manifest must be readable
Discard == <<"unmake", "forget">>
Refuse(t) ==
  \/ manifest[t] = "good" /\ Begin(t, Discard) /\ UNCHANGED target
  \/ manifest[t] # "good" /\ Ends /\ Tell(t, "failed")

\* appendIncomingTransferChunk
ChunkArrives(t, i) ==
  /\ i \in 1 .. Size[t] /\ Arrives(t, i)
  /\ \/ /\ manifest[t] = "good" /\ t \in finished
        /\ Ends /\ UNCHANGED acks
     \/ /\ manifest[t] # "good" \/ (t \notin finished /\ i # received[t] + 1)
        /\ Refuse(t)
     \/ /\ manifest[t] = "good" /\ t \notin finished /\ i = received[t] + 1
        /\ Begin(t, <<"append", "count">>) /\ UNCHANGED target
  /\ UNCHANGED <<sent, trouble>>

\* The counts, the size and the hash are right.
Whole(t) == t \in part /\ received[t] = Size[t] /\ bytes[t] = [i \in 1 .. Size[t] |-> i]
FreeNames == {n \in ToSet(Names) : downloads[n] = Free}

\* The first free path, of those that are tried.
FirstFree(i) == downloads[Names[i]] = Free /\ \A j \in 1 .. i - 1 : downloads[Names[j]] # Free

\* completeIncomingTransfer
CompletionArrives(t) ==
  /\ Arrives(t, Complete(t))
  /\ \/ /\ manifest[t] = "good" /\ t \in finished
        /\ Ends /\ Tell(t, "saved")
     \/ /\ manifest[t] # "good" \/ (t \notin finished /\ (~Whole(t) \/ FreeNames = {}))
        /\ Refuse(t)
     \/ /\ manifest[t] = "good" /\ t \notin finished /\ Whole(t)
        /\ \E i \in DOMAIN Names :
             /\ FirstFree(i)
             /\ target' = [target EXCEPT ![t] = IF downloads[@] = Free THEN @ ELSE Names[i]]
        /\ Begin(t, <<"link", "unlink", "finish">>)
  /\ UNCHANGED <<sent, trouble>>

(***************************************************************************)
(* The file operations of a handler.                                       *)
(***************************************************************************)
Op(t, op) == job = {t} /\ todo # <<>> /\ Head(todo) = op
Next1 == todo' = Tail(todo) /\ job' = IF Len(todo) = 1 THEN {} ELSE job

\* enforceIncomingTransferQuota discards what has expired.  A part may be busy, or a
\* manifest be left when its part is gone: then the transfer counts.
Expired == {t \in part : manifest[t] = "good" /\ t \notin finished /\ t \in stale}

PartGone(t) == part' = part \ {t} /\ bytes' = [bytes EXCEPT ![t] = <<>>]
ManifestGone(t) ==
  /\ manifest' = [manifest EXCEPT ![t] = "none"]
  /\ received' = [received EXCEPT ![t] = 0] /\ stale' = stale \ {t}

DiscardExpired(t, u) ==
  /\ Op(t, "enforce") /\ u \in Expired \ busy
  /\ \/ PartGone(u) /\ ManifestGone(u) /\ UNCHANGED <<busy, trouble>>
     \/ /\ PartGone(u) \/ UNCHANGED <<part, bytes>>
        /\ busy' = busy \cup {u} /\ Trouble
        /\ UNCHANGED <<manifest, received, stale>>
  /\ UNCHANGED <<sent, channel, finished, job, todo, anew, target, downloads, taken, acks>>

\* What counts then, and what it counts.
CountedReadable == {t \in part : manifest[t] = "good" /\ t \notin finished} \cup busy  \* a variant
Counted == {t \in part : ~(manifest[t] = "good" /\ t \in finished)} \cup busy

Promised == [t \in Transfers |-> IF manifest[t] = "good" THEN Size[t] ELSE MaxSize]
Fits(t) ==
  /\ Cardinality(Counted) < MaxIncomplete
  /\ SumFunctionOnSet(Promised, Counted) + Size[t] <= MaxBytes

EnforceQuota(t) ==
  /\ Op(t, "enforce") /\ Expired \subseteq busy /\ busy' = {}
  /\ \/ Fits(t) /\ Next1 /\ UNCHANGED acks
     \/ ~Fits(t) /\ job' = {} /\ todo' = <<>> /\ Tell(t, "failed")
  /\ UNCHANGED <<sent, channel, part, bytes, manifest, received, finished, stale, anew, target,
                 downloads, taken, trouble>>

Create(t) ==
  /\ Op(t, "create") /\ Next1
  /\ part' = part \cup {t}
  /\ UNCHANGED <<sent, channel, bytes, manifest, received, finished, stale, busy, anew, target,
                 downloads, taken, acks, trouble>>

\* appendFileSync creates a part that is gone.
Appended(t, chunk) ==
  /\ bytes' = [bytes EXCEPT ![t] = Append(@, chunk)]
  /\ part' = part \cup {t} /\ anew' = anew \cup ({t} \ part)

AppendChunk(t) ==
  /\ Op(t, "append") /\ Next1
  /\ Appended(t, received[t] + 1)
  /\ UNCHANGED <<sent, channel, manifest, received, finished, stale, busy, target, downloads, taken,
                 acks, trouble>>

DropPart(t) ==
  /\ Op(t, "unmake") /\ Next1
  /\ PartGone(t)
  /\ UNCHANGED <<sent, channel, manifest, received, finished, stale, busy, anew, target,
                 downloads, taken, acks, trouble>>

DropManifest(t) ==
  /\ Op(t, "forget") /\ Next1
  /\ ManifestGone(t) /\ Tell(t, "failed")
  /\ UNCHANGED <<sent, channel, part, bytes, finished, busy, anew, target, downloads, taken, trouble>>

\* A variant: a rename, which replaces what is there.
Rename(t) ==
  /\ Op(t, "link") /\ Next1
  /\ downloads' = [downloads EXCEPT ![target[t]] = t]
  /\ UNCHANGED <<sent, channel, part, bytes, manifest, received, finished, stale, busy, anew,
                 target, taken, acks, trouble>>

\* moveFileExclusive
Link(t) ==
  /\ Op(t, "link") /\ Next1
  /\ downloads[target[t]] = Free
  /\ downloads' = [downloads EXCEPT ![target[t]] = t]
  /\ UNCHANGED <<sent, channel, part, bytes, manifest, received, finished, stale, busy, anew,
                 target, taken, acks, trouble>>

\* A failure to remove the part is ignored.
Unlink(t) ==
  /\ Op(t, "unlink") /\ Next1
  /\ \/ PartGone(t) /\ UNCHANGED trouble
     \/ UNCHANGED <<part, bytes>> /\ Trouble
  /\ UNCHANGED <<sent, channel, manifest, received, finished, stale, busy, anew, target,
                 downloads, taken, acks>>

\* writeManifest
WriteManifest(t) ==
  /\ \E op \in {"new", "count", "finish"} :
       /\ Op(t, op) /\ Next1
       /\ received' = [received EXCEPT ![t] =
            IF op = "new" THEN 0 ELSE IF op = "count" THEN @ + 1 ELSE @]
       /\ IF op = "finish" THEN finished' = finished \cup {t} /\ Tell(t, "saved")
                           ELSE UNCHANGED <<finished, acks>>
  /\ manifest' = [manifest EXCEPT ![t] = "good"]
  /\ stale' = stale \ {t}
  /\ UNCHANGED <<sent, channel, part, bytes, busy, anew, target, downloads, taken, trouble>>

\* What an operation that does not finish may leave behind: half a chunk, a manifest
\* that is cut short, or an expired transfer without its part.
Leaves(t) ==
  LET op == Head(todo) IN
    /\ \/ op = "append" /\ Appended(t, 0)
       \/ op = "create" /\ part' = part \cup {t} /\ UNCHANGED <<bytes, anew>>
       \/ op = "enforce" /\ (\E u \in Expired \ busy : PartGone(u)) /\ UNCHANGED anew
       \/ UNCHANGED <<part, bytes, anew>>
    /\ \/ op \in {"new", "count", "finish"} /\ manifest' = [manifest EXCEPT ![t] = "broken"]
       \/ UNCHANGED manifest

\* It throws: a chunk or a completion is answered by discarding the transfer,
\* for which its manifest must be readable.
Throws(t) ==
  /\ job = {t} /\ Head(todo) \notin {"unlink", "enforce"}
  /\ IF Head(todo) = "link" /\ downloads[target[t]] # Free THEN UNCHANGED trouble ELSE Trouble
  /\ Leaves(t)
  /\ IF Head(todo) \in {"append", "count", "link", "finish"} /\ manifest'[t] = "good"
       THEN todo' = Discard /\ UNCHANGED <<job, acks>>
       ELSE job' = {} /\ todo' = <<>> /\ Tell(t, "failed")
  /\ UNCHANGED <<sent, channel, received, finished, stale, busy, target, downloads, taken>>

(***************************************************************************)
(* The world around.                                                       *)
(***************************************************************************)
\* The process is killed and started again; the messages under way are gone.
Crash ==
  /\ Trouble
  /\ job' = {} /\ todo' = <<>> /\ busy' = {} /\ channel' = [t \in Transfers |-> <<>>]
  /\ IF job = {} THEN UNCHANGED <<part, bytes, anew, manifest>> ELSE \A t \in job : Leaves(t)
  /\ UNCHANGED <<sent, received, finished, stale, target, downloads, taken, acks>>

DayPasses ==
  /\ job = {}
  /\ stale' = {t \in Transfers : manifest[t] = "good"}
  /\ UNCHANGED <<sent, channel, part, bytes, manifest, received, finished, job, todo, busy, anew,
                 target, downloads, taken, acks, trouble>>

\* Another process, a swarm download or the user, creates a file.
NameTaken(n) ==
  /\ downloads[n] = Free
  /\ downloads' = [downloads EXCEPT ![n] = Other] /\ taken' = taken \cup {n}
  /\ UNCHANGED <<sent, channel, part, bytes, manifest, received, finished, stale, job, todo, busy,
                 anew, target, acks, trouble>>

TransferNext ==
  \/ \E t \in Transfers :
       \/ (\E k \in 1 .. MaxSize + 2 : Send(t, k)) \/ Lose(t)
       \/ OfferArrives(t) \/ (\E i \in 1 .. MaxSize : ChunkArrives(t, i)) \/ CompletionArrives(t)
       \/ (\E u \in Transfers : DiscardExpired(t, u)) \/ EnforceQuota(t)
       \/ DropPart(t) \/ DropManifest(t)
       \/ Create(t) \/ AppendChunk(t) \/ Link(t) \/ Unlink(t) \/ WriteManifest(t) \/ Throws(t)
  \/ Crash \/ DayPasses \/ \E n \in ToSet(Names) : NameTaken(n)

(***************************************************************************)
(* Properties                                                              *)
(***************************************************************************)
\* Parts of unfinished transfers stay within the quota, in number and in what
\* they may grow to, whatever crashes, failed writes and failed removals leave
\* behind.  Excepted is a part that a chunk creates anew, a day late, when its
\* transfer had expired and was discarded all but for the manifest.
QuotaKept ==
  LET active == {t \in part \ anew : ~(manifest[t] = "good" /\ t \in finished)} IN
    /\ Cardinality(active) <= MaxIncomplete
    /\ SumFunctionOnSet(Size, active) <= MaxBytes

\* A sender that was told "saved" has its file among the downloads, and no file
\* of anybody else was replaced by it.
SavedIsThere ==
  /\ \A t \in Transfers : "saved" \in acks[t] => \E n \in ToSet(Names) : downloads[n] = t
  /\ \A n \in taken : downloads[n] = Other
=============================================================================
