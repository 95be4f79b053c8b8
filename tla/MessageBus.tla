----------------------------- MODULE MessageBus -----------------------------
(***************************************************************************)
(* The offline queues of the message bus (src/message-bus.ts) as pure      *)
(* operators.  A message is the number of the send() call that created it, *)
(* so a later message is a larger number; what it carries is left out.     *)
(* There is one queue for each id that was ever the target of a send().    *)
(* Transient types (trySend, tryBroadcast, the sidecar's trySendEnvelope)  *)
(* and broadcasts are never queued: they change no state kept here.        *)
(***************************************************************************)
EXTENDS Naturals, Sequences

CONSTANT QueueSize  \* offlineQueueSize: messages kept for one target

\* The constructor accepts any non-negative safe integer.
ASSUME QueueAssumption == QueueSize \in Nat

\* enqueueOffline: append, then drop the oldest while over the limit.
Enqueue(q, m) ==
  LET longer == Append(q, m)
  IN IF Len(longer) <= QueueSize THEN longer
     ELSE SubSeq(longer, Len(longer) - QueueSize + 1, Len(longer))

\* A fault for the mutation tests: the queue is deleted before the replay.
UnsentForgotten(q, k) == <<>>

\* flushOfflineQueue: what is left once the transport took the first k.
Unsent(q, k) == SubSeq(q, k + 1, Len(q))

\* send(): the message leaves at once, or waits behind the k flushed ones.
AfterSend(q, k, m, direct) ==
  IF direct THEN Unsent(q, k) ELSE Enqueue(Unsent(q, k), m)

SentNow(q, k, m, direct) ==
  SubSeq(q, 1, k) \o (IF direct THEN <<m>> ELSE <<>>)
=============================================================================
