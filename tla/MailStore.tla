----------------------------- MODULE MailStore -----------------------------
(***************************************************************************)
(* One mailbox of the mailbox service (store.mjs, mcp.mjs, webhook.mjs):   *)
(* messages under sequence numbers of the mailbox, a reader that pages     *)
(* with the cursor it is given, subscriptions of its connections (grants)  *)
(* and the webhook deliveries they get, cleanup by age, and connections    *)
(* that are revoked while any of this is under way.                        *)
(*                                                                         *)
(* A request is one transaction, cut where it awaits: the check of a       *)
(* callback, and the post of a delivery, of which an account has one at a  *)
(* time.  A grant stands for one connection, its credentials and its       *)
(* subscription; the accounts of the mailbox's senders are left out.       *)
(***************************************************************************)
EXTENDS Naturals, FiniteSets

CONSTANTS
  Keys,        \* request keys of messages
  Grants,
  PageSize,    \* messages in one page (50)
  MaxRows,     \* messages in the mailbox (2000)
  MaxPending,  \* pending deliveries of the account (500)
  MaxSubs,     \* subscriptions of the mailbox (3)
  MaxPosts     \* posts of one delivery (7)

ASSUME MailStoreAssumption ==
  {PageSize, MaxRows, MaxPending, MaxSubs, MaxPosts} \subseteq Nat \ {0}

VARIABLES
  rows,        \* messages: [seq, key]
  sequence,    \* the last number given
  cursor,      \* after_sequence of the reader's next read
  shown,       \* numbers it has been shown
  told,        \* numbers it has been told it may have lost
  revoked,     \* grants
  sub,         \* sub[g]: "none", "active", "inactive" or "lapsed"
  verifying,   \* grants whose callback is being checked
  delivery,    \* deliveries: [grant, seq, posts, state]
  posting      \* the delivery that is being posted, in a set

mailStoreVars == <<rows, sequence, cursor, shown, told, revoked, sub, verifying, delivery, posting>>

MailStoreInit ==
  /\ rows = {} /\ sequence = 0 /\ cursor = 0 /\ shown = {} /\ told = {}
  /\ revoked = {} /\ sub = [g \in Grants |-> "none"] /\ verifying = {}
  /\ delivery = {} /\ posting = {}

Pending == {d \in delivery : d.state = "pending"}
Subscribed == {g \in Grants : sub[g] # "none"}
Seqs == {r.seq : r \in rows}

(***************************************************************************)
(* Messages                                                                *)
(***************************************************************************)
\* send, insertMessage: a key the mailbox still has is a duplicate.  The limits
\* on rates and on the storage of an account are not modelled.
SendMessage(k) ==
  /\ \A r \in rows : r.key # k
  /\ Cardinality(rows) < MaxRows /\ Cardinality(Pending) < MaxPending
  /\ sequence < Cardinality(Keys)
  /\ sequence' = sequence + 1
  /\ rows' = rows \cup {[seq |-> sequence + 1, key |-> k]}
  /\ delivery' = delivery \cup
       {[grant |-> g, seq |-> sequence + 1, posts |-> 0, state |-> "pending"] :
          g \in {h \in Grants : sub[h] = "active" /\ h \notin revoked}}
  /\ UNCHANGED <<cursor, shown, told, revoked, sub, verifying, posting>>

\* The first messages after the cursor.
Page == {n \in Seqs : n > cursor /\ Cardinality({m \in Seqs : cursor < m /\ m < n}) < PageSize}

\* A variant: the last message that is gone from an empty mailbox is taken for read.
ForgottenButLast == {n \in 1 .. sequence - (IF Seqs = {} THEN 1 ELSE 0) : \A m \in Seqs : n < m}

\* What came before the oldest message that is kept.
Forgotten == {n \in 1 .. sequence : \A m \in Seqs : n < m}

\* next_sequence: the last message shown, or the last there ever was.
NextAfter(n) ==
  IF Page = {} THEN n = (IF cursor < sequence THEN sequence ELSE cursor)
  ELSE n \in Page /\ \A m \in Page : m <= n

\* read_messages, with the next_sequence of the read before
ReadPage ==
  \E next \in 0 .. sequence :
    /\ NextAfter(next)
    /\ Page # {} \/ next # cursor
    /\ cursor' = next
    /\ shown' = shown \cup Page
    /\ told' = told \cup {n \in Forgotten : n > cursor}
    /\ UNCHANGED <<rows, sequence, revoked, sub, verifying, delivery, posting>>

\* cleanup: the messages up to some age, lapsed subscriptions and those of
\* revoked grants; deliveries go with either.
Cleanup ==
  /\ \E n \in 0 .. sequence : rows' = {r \in rows : r.seq > n}
  /\ sub' = [g \in Grants |-> IF sub[g] = "lapsed" \/ g \in revoked THEN "none" ELSE sub[g]]
  /\ delivery' =
       {[d EXCEPT !.state = IF @ = "pending" /\ sub'[d.grant] = "inactive" THEN "expired" ELSE @] :
          d \in {e \in delivery : sub'[e.grant] # "none" /\ e.seq \in {r.seq : r \in rows'}}}
  /\ <<rows', sub', delivery'>> # <<rows, sub, delivery>>
  /\ UNCHANGED <<sequence, cursor, shown, told, revoked, verifying, posting>>

(***************************************************************************)
(* Subscriptions                                                           *)
(***************************************************************************)
RoomFor(g) == sub[g] # "none" \/ Cardinality(Subscribed) < MaxSubs

\* events/subscribe, up to the check of the callback.  The process that checks
\* four at once and no more than one of a subscription is the same for all.
BeginSubscribe(g) ==
  /\ g \notin revoked /\ g \notin verifying /\ Cardinality(verifying) < 4
  /\ RoomFor(g)
  /\ verifying' = verifying \cup {g}
  /\ UNCHANGED <<rows, sequence, cursor, shown, told, revoked, sub, delivery, posting>>

\* A variant: what was allowed before the check is allowed after it.
AllowedBefore(g) == TRUE
StillAllowed(g) == g \notin revoked /\ RoomFor(g)

\* The rest of it, or a callback that fails.
EndSubscribe(g) ==
  /\ g \in verifying /\ verifying' = verifying \ {g}
  /\ \/ StillAllowed(g) /\ sub' = [sub EXCEPT ![g] = "active"]
     \/ UNCHANGED sub
  /\ UNCHANGED <<rows, sequence, cursor, shown, told, revoked, delivery, posting>>

DropSub(g) ==
  /\ sub' = [sub EXCEPT ![g] = "none"]
  /\ delivery' = {d \in delivery : d.grant # g}

\* events/unsubscribe
Unsubscribe(g) ==
  /\ g \notin revoked /\ sub[g] # "none" /\ DropSub(g)
  /\ UNCHANGED <<rows, sequence, cursor, shown, told, revoked, verifying, posting>>

\* revoke: the grant, its subscriptions and its credentials
Revoke(g) ==
  /\ g \notin revoked /\ revoked' = revoked \cup {g}
  /\ DropSub(g)
  /\ UNCHANGED <<rows, sequence, cursor, shown, told, verifying, posting>>

SubscriptionLapses(g) ==
  /\ sub[g] \in {"active", "inactive"} /\ sub' = [sub EXCEPT ![g] = "lapsed"]
  /\ UNCHANGED <<rows, sequence, cursor, shown, told, revoked, verifying, delivery, posting>>

(***************************************************************************)
(* Deliveries                                                              *)
(***************************************************************************)
\* pump: a delivery that is due, and none of the account under way
BeginPost(d) ==
  /\ d \in Pending /\ sub[d.grant] = "active" /\ d.grant \notin revoked
  /\ posting = {} /\ posting' = {d}
  /\ UNCHANGED <<rows, sequence, cursor, shown, told, revoked, sub, verifying, delivery>>

\* The answer of the callback, or none; a delivery that is gone is not updated.
\* 410 ends the subscription, whatever it has become.
EndPost(d, status) ==
  /\ d \in posting /\ posting' = {}
  /\ LET state == IF status = "ok" THEN "delivered"
                  ELSE IF status \in {"gone", "too large"} \/ d.posts + 1 >= MaxPosts THEN "failed"
                  ELSE "pending"
         after == [d EXCEPT !.posts = @ + 1, !.state = state]
         here == {e \in delivery : e.grant = d.grant /\ e.seq = d.seq}
     IN delivery' = (delivery \ here) \cup {e \in {after} : here # {}}
  /\ sub' = IF status = "gone" /\ sub[d.grant] = "active" THEN [sub EXCEPT ![d.grant] = "inactive"]
            ELSE sub
  /\ UNCHANGED <<rows, sequence, cursor, shown, told, revoked, verifying>>

\* The service stops, or is killed, with a post and checks of callbacks under way.
ServiceRestarts ==
  /\ posting \cup verifying # {}
  /\ posting' = {} /\ verifying' = {}
  /\ UNCHANGED <<rows, sequence, cursor, shown, told, revoked, sub, delivery>>

MailStoreNext ==
  \/ \E k \in Keys : SendMessage(k)
  \/ ReadPage \/ Cleanup \/ ServiceRestarts
  \/ \E g \in Grants :
       BeginSubscribe(g) \/ EndSubscribe(g) \/ Unsubscribe(g) \/ Revoke(g) \/ SubscriptionLapses(g)
  \/ \E d \in delivery : BeginPost(d)
  \/ \E d \in posting, status \in {"ok", "gone", "too large", "other"} : EndPost(d, status)

(***************************************************************************)
(* Properties                                                              *)
(***************************************************************************)
\* A reader that goes on from the number it was given has been shown every
\* message up to there, or was told that history is lost, whatever was cleaned
\* up between its reads (read_messages).
LossIsTold == \A n \in 1 .. cursor : n \in shown \cup told

\* A connection that was revoked gets no subscription, nor the mailbox one too many,
\* from a request that was waiting for its callback meanwhile (events/subscribe).
SubscriptionsSound ==
  /\ Subscribed \cap revoked = {}
  /\ Cardinality(Subscribed) <= MaxSubs
=============================================================================
