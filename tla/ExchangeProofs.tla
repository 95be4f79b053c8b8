--------------------------- MODULE ExchangeProofs ---------------------------
(***************************************************************************)
(* Proofs about the exchanges with others, for any number of nodes,        *)
(* messages, sockets, requests and triggers: one invariant for each part   *)
(* of Exchanges, which every step of that part keeps and no other          *)
(* disturbs.                                                               *)
(***************************************************************************)
EXTENDS Exchanges, ListFacts, SequenceTheorems, FiniteSetTheorems, TLAPS

(***************************************************************************)
(* Chunks served.  A request has a number of its own, and is pending or    *)
(* answered but not both.                                                  *)
(***************************************************************************)
Answered == {d.request : d \in delivered}

ServingInv ==
  /\ sends \in Nat
  /\ \A r \in pending \cup Answered : r.number \in 1 .. sends /\ r.good
  /\ \A q, r \in pending : q.number = r.number => q = r
  /\ \A r \in pending, d \in delivered : d.request.number # r.number
  /\ \A d, e \in delivered : d.request.number = e.request.number => d = e
  /\ \A d \in delivered : d.lane = "base64" => d.sentIn = d.request.askedIn

LEMMA ServingStarts == ServingInit => ServingInv
BY DEF ServingInit, ServingInv, Answered

\* What is sent is a request that has not been answered before.
LEMMA ChunkSent ==
  ASSUME ServingInv, NEW request, NEW chunk,
         chunk.request = request, request.good,
         chunk.lane = "base64" => chunk.sentIn = request.askedIn,
         sends' \in Nat, sends <= sends', request.number \in 1 .. sends',
         \A d \in delivered : d.request.number # request.number,
         \A r \in pending' : r \in pending /\ r.number # request.number,
         delivered' \in {delivered, delivered \cup {chunk}}
  PROVE  ServingInv'
<1>1. CASE delivered' = delivered
  BY <1>1 DEF ServingInv, Answered
<1>2. CASE delivered' = delivered \cup {chunk}
  BY <1>2 DEF ServingInv, Answered
<1> QED
  BY <1>1, <1>2

LEMMA ServingSteps == ServingInv /\ ServingNext => ServingInv'
<1> SUFFICES ASSUME ServingInv, ServingNext PROVE ServingInv'
  OBVIOUS
<1>1. ASSUME NEW index \in Indexes, NEW binary \in BOOLEAN, HandleRequest(index, binary)
      PROVE  ServingInv'
  <2> DEFINE request == [number |-> sends + 1, index |-> index, askedIn |-> generation,
                         good |-> index \notin edited]
             chunk == [request |-> request, lane |-> "base64", sentIn |-> generation]
  <2>1. request.number = sends + 1 /\ request.askedIn = generation
    OBVIOUS
  <2>2. chunk.request = request /\ chunk.lane = "base64" /\ chunk.sentIn = generation
    OBVIOUS
  <2>3. sends' = sends + 1
    BY <1>1 DEF HandleRequest
  <2>4. CASE ~CanServe(index)
    BY <1>1, <2>3, <2>4 DEF HandleRequest, ServingInv, Answered
  <2>5. CASE CanServe(index)
    <3>1. request.good
      BY <2>5 DEF CanServe
    <3>2. \/ pending' = pending \cup {request} /\ delivered' = delivered
          \/ pending' = pending /\ delivered' = TrySend(chunk)
      BY <1>1, <2>5 DEF HandleRequest, SendChunkAsBase64
    <3> HIDE DEF request, chunk
    <3>3. CASE pending' = pending \cup {request} /\ delivered' = delivered
      BY <2>1, <2>3, <3>1, <3>3 DEF ServingInv, Answered
    <3>4. CASE pending' = pending /\ delivered' = TrySend(chunk)
      BY <2>1, <2>2, <2>3, <3>1, <3>4, ChunkSent DEF ServingInv, Answered, TrySend
    <3> QED
      BY <3>2, <3>3, <3>4
  <2> QED
    BY <2>4, <2>5
<1>2. ASSUME NEW request \in pending, LaneTakes(request) PROVE ServingInv'
  <2> DEFINE chunk == [request |-> request, lane |-> "binary", sentIn |-> generation]
  <2>1. chunk.request = request /\ chunk.lane # "base64"
    OBVIOUS
  <2>2. /\ pending' = pending \ {request} /\ delivered' = delivered \cup {chunk}
        /\ sends' = sends
    BY <1>2 DEF LaneTakes
  <2> HIDE DEF chunk
  <2> QED
    BY <2>1, <2>2, ChunkSent DEF ServingInv, Answered
<1>3. ASSUME NEW request \in pending, LaneRefuses(request) PROVE ServingInv'
  <2> DEFINE chunk == [request |-> request, lane |-> "base64", sentIn |-> generation]
  <2>1. chunk.request = request /\ chunk.sentIn = generation
    OBVIOUS
  <2>2. /\ pending' = pending \ {request} /\ sends' = sends
        /\ delivered' = IF MayFallBack(request) THEN TrySend(chunk) ELSE delivered
    BY <1>3 DEF LaneRefuses, SendChunkAsBase64
  <2> HIDE DEF chunk
  <2>3. CASE MayFallBack(request)
    BY <2>1, <2>2, <2>3, ChunkSent DEF ServingInv, Answered, TrySend, MayFallBack
  <2>4. CASE ~MayFallBack(request)
    BY <2>2, <2>4 DEF ServingInv, Answered
  <2> QED
    BY <2>3, <2>4
<1>4. ASSUME UNCHANGED <<pending, sends, delivered>> PROVE ServingInv'
  BY <1>4 DEF ServingInv, Answered
<1> QED
  BY <1>1, <1>2, <1>3, <1>4
     DEF ServingNext, StartManager, StopManager, ConnectionChanges, ChunkHeld, FileEdited

LEMMA ServingStutters == ServingInv /\ UNCHANGED servingVars => ServingInv'
BY DEF ServingInv, Answered, servingVars

LEMMA ServingSafe == ServingInv => ChunksServedSound
BY DEF ServingInv, Answered, ChunksServedSound

(***************************************************************************)
(* A mailbox.  What it keeps is what came last, up to the last number      *)
(* given; a subscription is one of a grant that is not revoked.            *)
(***************************************************************************)
KeptFrom(o) == o \in 1 .. sequence + 1 /\ Seqs = o .. sequence

PagesInv ==
  /\ sequence \in Nat /\ cursor \in 0 .. sequence
  /\ \E o \in Nat : KeptFrom(o)
  /\ LossIsTold

SubsInv ==
  /\ sub \in [Grants -> {"none", "active", "inactive", "lapsed"}]
  /\ IsFiniteSet(Subscribed)
  /\ SubscriptionsSound

MailInv == PagesInv /\ SubsInv

LEMMA MailStoreStarts == MailStoreInit => MailInv
<1> SUFFICES ASSUME MailStoreInit PROVE MailInv
  OBVIOUS
<1>1. PagesInv
  <2>1. Seqs = 1 .. sequence
    BY DEF MailStoreInit, Seqs
  <2> QED
    BY <2>1 DEF MailStoreInit, PagesInv, KeptFrom, LossIsTold
<1>2. SubsInv
  <2>1. Subscribed = {}
    BY DEF MailStoreInit, Subscribed
  <2>2. IsFiniteSet(Subscribed) /\ Cardinality(Subscribed) = 0
    BY <2>1, FS_EmptySet
  <2> QED
    BY <2>1, <2>2, MailStoreAssumption DEF MailStoreInit, SubsInv, SubscriptionsSound
<1> QED
  BY <1>1, <1>2 DEF MailInv

\* A page shows everything that is kept between its cursor and its last message.
LEMMA PageComplete ==
  ASSUME PagesInv, NEW next \in Page, NEW n \in Seqs, cursor < n, n <= next
  PROVE  n \in Page
<1> DEFINE Before(k) == {m \in Seqs : cursor < m /\ m < k}
<1>1. PICK o \in Nat : KeptFrom(o)
  BY DEF PagesInv
<1>2. next \in Int /\ n \in Int /\ cursor \in Int /\ sequence \in Int
  BY <1>1 DEF PagesInv, KeptFrom, Page
<1>3. IsFiniteSet(Before(next))
  <2>1. IsFiniteSet(1 .. sequence)
    BY <1>2, FS_Interval
  <2>2. Before(next) \subseteq 1 .. sequence
    BY <1>1 DEF KeptFrom
  <2> QED
    BY <2>1, <2>2, FS_Subset
<1>4. Before(n) \subseteq Before(next)
  BY <1>1, <1>2 DEF KeptFrom
<1>5. /\ Cardinality(Before(n)) \in Nat /\ Cardinality(Before(next)) \in Nat
      /\ Cardinality(Before(n)) <= Cardinality(Before(next))
  BY <1>3, <1>4, FS_Subset, FS_CardinalityType
<1>6. Cardinality(Before(next)) < PageSize
  BY DEF Page
<1> QED
  BY <1>5, <1>6, MailStoreAssumption DEF Page

\* A page without messages leaves nothing of what is kept unread.
LEMMA PageEmpty ==
  ASSUME PagesInv, Page = {}, NEW n \in Seqs PROVE n <= cursor
<1>1. PICK o \in Nat : KeptFrom(o)
  BY DEF PagesInv
<1>2. SUFFICES ASSUME cursor < n PROVE FALSE
  BY <1>1 DEF KeptFrom, PagesInv
<1>3. PICK low \in Seqs : cursor < low /\ {m \in Seqs : cursor < m /\ m < low} = {}
  <2>1. CASE o <= cursor
    <3>1. cursor + 1 \in Seqs
      BY <1>1, <1>2, <2>1 DEF KeptFrom, PagesInv
    <3> QED
      BY <1>1, <3>1 DEF KeptFrom, PagesInv
  <2>2. CASE cursor < o
    <3>1. o \in Seqs
      BY <1>1, <1>2, <2>2 DEF KeptFrom, PagesInv
    <3> QED
      BY <1>1, <2>2, <3>1 DEF KeptFrom, PagesInv
  <2> QED
    BY <1>1, <2>1, <2>2 DEF PagesInv, KeptFrom
<1>4. Cardinality({m \in Seqs : cursor < m /\ m < low}) = 0
  BY <1>3, FS_EmptySet
<1> QED
  BY <1>3, <1>4, MailStoreAssumption DEF Page

LEMMA PagesSend == ASSUME PagesInv, NEW k \in Keys, SendMessage(k) PROVE PagesInv'
<1>1. PICK o \in Nat : KeptFrom(o)
  BY DEF PagesInv
<1>2. sequence' = sequence + 1 /\ UNCHANGED <<cursor, shown, told>>
  BY DEF SendMessage
<1>3. Seqs' = Seqs \cup {sequence + 1}
  <2> DEFINE row == [seq |-> sequence + 1, key |-> k]
  <2>1. rows' = rows \cup {row} /\ row.seq = sequence + 1
    BY DEF SendMessage
  <2> HIDE DEF row
  <2> QED
    BY <2>1 DEF Seqs
<1>4. sequence \in Nat /\ o \in 1 .. sequence + 1 /\ Seqs = o .. sequence
  BY <1>1 DEF KeptFrom, PagesInv
<1>5. o .. sequence + 1 = (o .. sequence) \cup {sequence + 1}
  BY <1>4
<1>6. KeptFrom(o)'
  BY <1>2, <1>3, <1>4, <1>5 DEF KeptFrom
<1> QED
  BY <1>2, <1>6 DEF PagesInv, LossIsTold

LEMMA PagesRead == ASSUME PagesInv, ReadPage PROVE PagesInv'
<1>1. PICK o \in Nat : KeptFrom(o)
  BY DEF PagesInv
<1>2. PICK next \in 0 .. sequence :
        /\ NextAfter(next)
        /\ cursor' = next /\ shown' = shown \cup Page
        /\ told' = told \cup {n \in Forgotten : n > cursor}
        /\ UNCHANGED <<rows, sequence>>
  BY DEF ReadPage
<1>3. ASSUME NEW n \in 1 .. next PROVE n \in shown' \cup told'
  <2>1. CASE n <= cursor
    BY <1>2, <2>1 DEF PagesInv, LossIsTold
  <2>2. CASE cursor < n /\ n < o
    BY <1>1, <1>2, <2>2 DEF PagesInv, KeptFrom, Forgotten
  <2>3. CASE cursor < n /\ o <= n
    <3>1. n \in Seqs
      BY <1>1, <2>3 DEF KeptFrom, PagesInv
    <3>2. Page # {}
      BY <2>3, <3>1, PageEmpty DEF PagesInv
    <3>3. n \in Page
      BY <1>2, <2>3, <3>1, <3>2, PageComplete DEF NextAfter
    <3> QED
      BY <1>2, <3>3
  <2> QED
    BY <1>1, <2>1, <2>2, <2>3 DEF PagesInv
<1>4. Seqs' = Seqs
  BY <1>2 DEF Seqs
<1>5. KeptFrom(o)'
  BY <1>1, <1>2, <1>4 DEF KeptFrom
<1> QED
  BY <1>2, <1>3, <1>5 DEF PagesInv, LossIsTold

LEMMA PagesClean == ASSUME PagesInv, Cleanup PROVE PagesInv'
<1>1. PICK o \in Nat : KeptFrom(o)
  BY DEF PagesInv
<1>2. PICK n \in 0 .. sequence : rows' = {r \in rows : r.seq > n}
  BY DEF Cleanup
<1>3. UNCHANGED <<sequence, cursor, shown, told>>
  BY DEF Cleanup
<1>4. Seqs' = {m \in Seqs : m > n}
  BY <1>2 DEF Seqs
<1>5. CASE n < o
  <2>1. KeptFrom(o)'
    BY <1>1, <1>3, <1>4, <1>5 DEF KeptFrom, PagesInv
  <2> QED
    BY <1>3, <2>1 DEF PagesInv, LossIsTold
<1>6. CASE o <= n
  <2>1. KeptFrom(n + 1)'
    BY <1>1, <1>2, <1>3, <1>4, <1>6 DEF KeptFrom, PagesInv
  <2> QED
    BY <1>2, <1>3, <2>1 DEF PagesInv, LossIsTold
<1> QED
  BY <1>1, <1>2, <1>5, <1>6 DEF PagesInv

LEMMA PagesStutter ==
  PagesInv /\ UNCHANGED <<rows, sequence, cursor, shown, told>> => PagesInv'
BY DEF PagesInv, KeptFrom, LossIsTold, Seqs

\* Subscriptions that end, or stay as they are.
LEMMA SubsShrink ==
  ASSUME SubsInv, sub' \in [Grants -> {"none", "active", "inactive", "lapsed"}],
         Subscribed' \subseteq Subscribed, Subscribed' \cap revoked' = {}
  PROVE  SubsInv'
<1>1. /\ IsFiniteSet(Subscribed') /\ Cardinality(Subscribed') \in Nat
      /\ Cardinality(Subscribed) \in Nat /\ Cardinality(Subscribed') <= Cardinality(Subscribed)
  BY FS_Subset, FS_CardinalityType DEF SubsInv
<1> QED
  BY <1>1, MailStoreAssumption DEF SubsInv, SubscriptionsSound

LEMMA SubsEnd == ASSUME SubsInv, NEW g \in Grants, EndSubscribe(g) PROVE SubsInv'
<1>1. CASE UNCHANGED sub
  BY <1>1, SubsShrink DEF EndSubscribe, SubsInv, SubscriptionsSound, Subscribed
<1>2. CASE StillAllowed(g) /\ sub' = [sub EXCEPT ![g] = "active"]
  <2>1. /\ sub' \in [Grants -> {"none", "active", "inactive", "lapsed"}]
        /\ Subscribed' = Subscribed \cup {g} /\ revoked' = revoked
    BY <1>2 DEF SubsInv, Subscribed, EndSubscribe
  <2>2. Subscribed' \cap revoked' = {}
    BY <1>2, <2>1 DEF StillAllowed, SubsInv, SubscriptionsSound
  <2>3. CASE g \in Subscribed
    BY <2>1, <2>2, <2>3, SubsShrink
  <2>4. CASE g \notin Subscribed
    <3>1. /\ IsFiniteSet(Subscribed') /\ Cardinality(Subscribed') = Cardinality(Subscribed) + 1
          /\ Cardinality(Subscribed) \in Nat
      BY <2>1, <2>4, FS_AddElement, FS_CardinalityType DEF SubsInv
    <3>2. Cardinality(Subscribed) < MaxSubs
      BY <1>2, <2>4 DEF StillAllowed, RoomFor, Subscribed
    <3> QED
      BY <2>1, <2>2, <3>1, <3>2, MailStoreAssumption DEF SubsInv, SubscriptionsSound
  <2> QED
    BY <2>3, <2>4
<1> QED
  BY <1>1, <1>2 DEF EndSubscribe

LEMMA MailStoreSteps == MailInv /\ MailStoreNext => MailInv'
<1> SUFFICES ASSUME MailInv, MailStoreNext PROVE MailInv'
  OBVIOUS
<1> USE DEF MailInv
<1>1. ASSUME NEW k \in Keys, SendMessage(k) PROVE MailInv'
  BY <1>1, PagesSend, SubsShrink DEF SendMessage, SubsInv, SubscriptionsSound, Subscribed
<1>2. CASE ReadPage
  BY <1>2, PagesRead, SubsShrink DEF ReadPage, SubsInv, SubscriptionsSound, Subscribed
<1>3. CASE Cleanup
  <2>1. SubsInv'
    BY <1>3, SubsShrink DEF Cleanup, SubsInv, SubscriptionsSound, Subscribed
  <2> QED
    BY <1>3, <2>1, PagesClean
<1>4. ASSUME NEW g \in Grants, EndSubscribe(g) PROVE MailInv'
  BY <1>4, SubsEnd, PagesStutter DEF EndSubscribe
<1>5. ASSUME NEW g \in Grants, Unsubscribe(g) \/ Revoke(g) PROVE MailInv'
  <2>1. SubsInv'
    BY <1>5, SubsShrink DEF Unsubscribe, Revoke, DropSub, SubsInv, SubscriptionsSound, Subscribed
  <2> QED
    BY <1>5, <2>1, PagesStutter DEF Unsubscribe, Revoke
<1>6. ASSUME NEW g \in Grants, SubscriptionLapses(g) PROVE MailInv'
  <2>1. SubsInv'
    BY <1>6, SubsShrink DEF SubscriptionLapses, SubsInv, SubscriptionsSound, Subscribed
  <2> QED
    BY <1>6, <2>1, PagesStutter DEF SubscriptionLapses
<1>7. ASSUME NEW d \in posting, NEW status, EndPost(d, status) PROVE MailInv'
  <2>1. /\ UNCHANGED <<rows, sequence, cursor, shown, told, revoked>>
        /\ sub' = IF status = "gone" /\ sub[d.grant] = "active"
                  THEN [sub EXCEPT ![d.grant] = "inactive"] ELSE sub
    BY <1>7 DEF EndPost
  <2>2. SubsInv'
    BY <2>1, SubsShrink DEF SubsInv, SubscriptionsSound, Subscribed
  <2> QED
    BY <2>1, <2>2, PagesStutter
<1>8. ASSUME UNCHANGED <<rows, sequence, cursor, shown, told, revoked, sub>> PROVE MailInv'
  BY <1>8, PagesStutter, SubsShrink DEF SubsInv, SubscriptionsSound, Subscribed
<1> QED
  BY <1>1, <1>2, <1>3, <1>4, <1>5, <1>6, <1>7, <1>8
     DEF MailStoreNext, ServiceRestarts, BeginSubscribe, BeginPost

LEMMA MailStoreStutters == MailInv /\ UNCHANGED mailStoreVars => MailInv'
BY PagesStutter, SubsShrink DEF MailInv, SubsInv, SubscriptionsSound, Subscribed, mailStoreVars

(***************************************************************************)
(* Keyword triggers.  An id names one trigger for good; what is left to    *)
(* look at was there when the message came, has not been called, and is    *)
(* there still or was removed uncalled; and what was looked at, and not    *)
(* removed before, has been called if it matched.                          *)
(***************************************************************************)
Trigger == [id : Nat, word : Words]

TriggersInv ==
  /\ lastId \in 0 .. MaxTriggers
  /\ triggers \subseteq Trigger /\ before \subseteq Trigger /\ spared \subseteq Trigger
  /\ \A t \in triggers \cup before \cup spared : t.id \in 1 .. lastId
  /\ \A t, u \in triggers \cup before \cup spared : t.id = u.id => t = u
  /\ \A t \in before : t.id \in ids => t \in triggers \cup spared
  /\ ids \subseteq IdsOf(before) /\ (said = Nothing => ids = {})
  /\ ran \in [1 .. MaxTriggers -> 0 .. 1]
  /\ \A id \in 1 .. MaxTriggers : ran[id] = 1 => id \in IdsOf(before) /\ id \notin ids
  /\ \A t \in spared : t \notin triggers /\ ran[t.id] = 0
  /\ said # Nothing =>
       \A t \in before \ spared : t.word = said /\ t.id \notin ids => ran[t.id] = 1

LEMMA TriggersStart == TriggersInit => TriggersInv
BY TriggersAssumption DEF TriggersInit, TriggersInv, IdsOf, Nothing

\* What an edit leaves, with at most one new trigger under a new id.
LEMMA TriggersEdited ==
  ASSUME TriggersInv, NEW gone \in SUBSET triggers, NEW new \in {{}} \cup {{w} : w \in Words},
         Edited(gone, new)
  PROVE  /\ lastId' \in lastId .. MaxTriggers
         /\ spared' = spared \cup {t \in gone : ran'[t.id] = 0}
         /\ triggers' \subseteq Trigger
         /\ \A t \in triggers' : t \in triggers \ gone \/ (t.id = lastId + 1 /\ lastId' = lastId + 1)
         /\ \A t, u \in triggers' : t.id = u.id => t = u
         /\ triggers \ gone \subseteq triggers'
<1>1. CASE new = {}
  <2>1. Cardinality(new) = 0
    BY <1>1, FS_EmptySet
  <2>2. triggers' = triggers \ gone
    BY <1>1 DEF Edited
  <2>3. lastId' = lastId /\ spared' = spared \cup {t \in gone : ran'[t.id] = 0}
    BY <2>1, TriggersAssumption DEF Edited, TriggersInv
  <2> QED
    BY <2>2, <2>3, TriggersAssumption DEF TriggersInv
<1>2. CASE \E w \in Words : new = {w}
  <2>1. PICK w \in Words : new = {w}
    BY <1>2
  <2>2. Cardinality(new) = 1
    BY <2>1, FS_Singleton
  <2> DEFINE t == [id |-> lastId + 1, word |-> w]
  <2>3. t \in Trigger /\ t.id = lastId + 1
    BY TriggersAssumption DEF TriggersInv, Trigger
  <2>4. triggers' = (triggers \ gone) \cup {t}
    BY <2>1 DEF Edited
  <2>5. /\ lastId' = lastId + 1 /\ lastId' <= MaxTriggers
        /\ spared' = spared \cup {u \in gone : ran'[u.id] = 0}
    BY <2>2 DEF Edited
  <2> HIDE DEF t
  <2> QED
    BY <2>3, <2>4, <2>5, TriggersAssumption DEF TriggersInv
<1> QED
  BY <1>1, <1>2

\* The triggers after an edit, as far as it does not matter what was called.
LEMMA TriggersNamed ==
  ASSUME TriggersInv, NEW gone \in SUBSET triggers, NEW new \in {{}} \cup {{w} : w \in Words},
         Edited(gone, new), before' = before
  PROVE  /\ lastId' \in 0 .. MaxTriggers
         /\ triggers' \subseteq Trigger /\ before' \subseteq Trigger /\ spared' \subseteq Trigger
         /\ \A t \in triggers' \cup before' \cup spared' : t.id \in 1 .. lastId'
         /\ \A t, u \in triggers' \cup before' \cup spared' : t.id = u.id => t = u
         /\ spared' \subseteq spared \cup gone /\ spared \subseteq spared'
         /\ \A t \in gone : ran'[t.id] = 0 => t \in spared'
         /\ \A t \in spared' : t \notin triggers' /\ (t \in spared \/ ran'[t.id] = 0)
         /\ triggers \ gone \subseteq triggers'
<1>1. /\ lastId' \in lastId .. MaxTriggers
      /\ spared' = spared \cup {t \in gone : ran'[t.id] = 0}
      /\ triggers' \subseteq Trigger
      /\ \A t \in triggers' : t \in triggers \ gone \/ (t.id = lastId + 1 /\ lastId' = lastId + 1)
      /\ \A t, u \in triggers' : t.id = u.id => t = u
      /\ triggers \ gone \subseteq triggers'
  BY TriggersEdited
<1>2. spared' \subseteq spared \cup triggers /\ before' \cup spared' \subseteq triggers \cup before \cup spared
  BY <1>1
<1>3. /\ lastId \in 0 .. MaxTriggers /\ MaxTriggers \in Nat
      /\ \A t \in triggers \cup before \cup spared : t.id \in 1 .. lastId
      /\ \A t, u \in triggers \cup before \cup spared : t.id = u.id => t = u
  BY TriggersAssumption DEF TriggersInv
<1>4. /\ lastId' \in 0 .. MaxTriggers
      /\ \A t \in triggers' \cup before' \cup spared' : t.id \in 1 .. lastId'
  BY <1>1, <1>2, <1>3
<1>5. \A t, u \in triggers' \cup before' \cup spared' : t.id = u.id => t = u
  <2> SUFFICES ASSUME NEW t \in triggers' \cup before' \cup spared',
                      NEW u \in triggers' \cup before' \cup spared', t.id = u.id
               PROVE  t = u
    OBVIOUS
  <2>1. /\ t \in triggers \cup before \cup spared \/ (t \in triggers' /\ t.id = lastId + 1)
        /\ u \in triggers \cup before \cup spared \/ (u \in triggers' /\ u.id = lastId + 1)
    BY <1>1, <1>2
  <2> QED
    BY <1>1, <1>3, <2>1
<1>6. \A t \in spared' : t \notin triggers'
  BY <1>1, <1>3 DEF TriggersInv
<1> QED
  BY <1>1, <1>2, <1>4, <1>5, <1>6 DEF TriggersInv

LEMMA TriggersSteps == TriggersInv /\ TriggersNext => TriggersInv'
<1> SUFFICES ASSUME TriggersInv, TriggersNext PROVE TriggersInv'
  OBVIOUS
<1>1. ASSUME NEW gone \in SUBSET triggers, NEW new \in {{}} \cup {{w} : w \in Words},
             Edited(gone, new), said = Nothing, UNCHANGED <<said, texts, ids, before, ran>>
      PROVE  TriggersInv'
  <2>1. UNCHANGED <<said, texts, ids, before, ran>> /\ ids = {}
    BY <1>1 DEF TriggersInv
  <2>2. \A t \in spared' : ran'[t.id] = 0
    BY <1>1, <2>1, TriggersNamed DEF TriggersInv
  <2> QED
    BY <1>1, <2>1, <2>2, TriggersNamed DEF TriggersInv, IdsOf
<1>2. ASSUME NEW w \in Words, OnKeyword(w) PROVE TriggersInv'
  BY <1>1, <1>2 DEF OnKeyword
<1>3. ASSUME NEW t \in triggers, RemoveTrigger(t) PROVE TriggersInv'
  BY <1>1, <1>3 DEF RemoveTrigger
<1>4. ASSUME NEW w \in Words, MessageComes(w) PROVE TriggersInv'
  BY <1>4, TriggersAssumption DEF MessageComes, TriggersInv, IdsOf, Nothing
<1>5. CASE CheckNext
  <2>1. PICK id \in ids :
          /\ IF Due(id)
             THEN /\ ran' = [ran EXCEPT ![id] = @ + 1]
                  /\ \E gone \in SUBSET triggers, new \in {{}} \cup {{w} : w \in Words} :
                       Edited(gone, new)
             ELSE UNCHANGED <<triggers, lastId, spared, ran>>
          /\ ids' = ids \ {id}
          /\ UNCHANGED <<said, texts, before>>
    BY <1>5 DEF CheckNext
  <2>2. \A i \in ids : \E u \in before : u.id = i
    BY DEF TriggersInv, IdsOf
  <2>3. PICK old \in before : old.id = id
    BY <2>2
  <2>4. id \in 1 .. MaxTriggers /\ ran[id] = 0 /\ said # Nothing /\ old \in triggers \cup spared
    BY <2>1, <2>3, TriggersAssumption DEF TriggersInv
  <2> DEFINE t == [id |-> id, word |-> said]
  <2>5. \A u \in Trigger : u.id = id /\ u.word = said => u = t
    BY DEF Trigger
  <2>6. t.id = id /\ t.word = said /\ (Due(id) <=> t \in triggers)
    BY DEF Due
  <2> HIDE DEF t
  <2>7. CASE t \in triggers
    <3>1. PICK gone \in SUBSET triggers, new \in {{}} \cup {{w} : w \in Words} : Edited(gone, new)
      BY <2>1, <2>6, <2>7
    <3>2. ran' = [ran EXCEPT ![id] = 1] /\ UNCHANGED <<said, before>>
      BY <2>1, <2>4, <2>6, <2>7
    <3>3. /\ lastId' \in 0 .. MaxTriggers
          /\ triggers' \subseteq Trigger /\ before' \subseteq Trigger /\ spared' \subseteq Trigger
          /\ \A u \in triggers' \cup before' \cup spared' : u.id \in 1 .. lastId'
          /\ \A u, v \in triggers' \cup before' \cup spared' : u.id = v.id => u = v
          /\ spared' \subseteq spared \cup gone /\ spared \subseteq spared'
          /\ \A u \in gone : ran'[u.id] = 0 => u \in spared'
          /\ \A u \in spared' : u \notin triggers' /\ (u \in spared \/ ran'[u.id] = 0)
          /\ triggers \ gone \subseteq triggers'
      BY <3>1, <3>2, TriggersNamed
    <3>4. /\ \A i \in 1 .. MaxTriggers : ran'[i] = IF i = id THEN 1 ELSE ran[i]
          /\ ran' \in [1 .. MaxTriggers -> 0 .. 1]
      BY <2>4, <3>2 DEF TriggersInv
    <3>5. \A u \in triggers \cup before \cup spared : u.id \in 1 .. MaxTriggers
      BY TriggersAssumption DEF TriggersInv
    <3>6. \A u \in spared' : ran'[u.id] = 0
      <4>1. \A u \in spared : u.id # id
        BY <2>6, <2>7 DEF TriggersInv
      <4>2. \A u \in spared : ran'[u.id] = 0
        BY <3>4, <3>5, <4>1 DEF TriggersInv
      <4> QED
        BY <3>3, <4>2
    <3>7. \A u \in before' : u.id \in ids' => u \in triggers' \cup spared'
      <4>1. ASSUME NEW u \in before, u.id \in ids, u.id # id PROVE u \in triggers' \cup spared'
        <5>1. ran'[u.id] = 0
          BY <3>4, <3>5, <4>1 DEF TriggersInv
        <5> QED
          BY <3>3, <4>1, <5>1 DEF TriggersInv
      <4> QED
        BY <2>1, <3>2, <4>1
    <3>8. ids' \subseteq IdsOf(before') /\ (said' = Nothing => ids' = {})
      BY <2>1, <2>4, <3>2 DEF TriggersInv, IdsOf
    <3>9. \A i \in 1 .. MaxTriggers : ran'[i] = 1 => i \in IdsOf(before') /\ i \notin ids'
      BY <2>1, <2>3, <3>2, <3>4 DEF TriggersInv, IdsOf
    <3>10. \A u \in before' \ spared' : u.word = said' /\ u.id \notin ids' => ran'[u.id] = 1
      BY <2>1, <2>4, <3>2, <3>3, <3>4, <3>5 DEF TriggersInv
    <3> QED
      BY <3>3, <3>4, <3>6, <3>7, <3>8, <3>9, <3>10 DEF TriggersInv
  <2>8. CASE t \notin triggers
    <3>1. UNCHANGED <<triggers, lastId, spared, ran, said, before>>
      BY <2>1, <2>6, <2>8
    <3>2. \A u \in before \ spared : u.word = said => u.id # id
      BY <2>1, <2>5, <2>8 DEF TriggersInv
    <3> QED
      BY <2>1, <2>4, <3>1, <3>2 DEF TriggersInv, IdsOf
  <2> QED
    BY <2>7, <2>8
<1>6. CASE CheckDone
  BY <1>6 DEF CheckDone, TriggersInv, IdsOf
<1> QED
  BY <1>2, <1>3, <1>4, <1>5, <1>6 DEF TriggersNext

LEMMA TriggersStutter == TriggersInv /\ UNCHANGED triggersVars => TriggersInv'
BY DEF TriggersInv, IdsOf, triggersVars

LEMMA TriggersSafe == TriggersInv => TriggersRunOnce
BY TriggersAssumption DEF TriggersInv, TriggersRunOnce, IdsOf

(***************************************************************************)
(* The bridge to a live chat.  It is closed as it leaves, and what is      *)
(* queued of a socket came after what has been handled.                    *)
(***************************************************************************)
Events == [kind : {"open", "close", "chat", "control"}, chat : Nat]

SocketInv ==
  /\ {timer, connected, closed} \subseteq BOOLEAN
  /\ made \in Nat /\ socket \in {0, made}
  /\ real \in {"none", "opening", "open", "ended"}
  /\ room \in {"joining", "in", "leaving", "out"}
  /\ closed <=> room \in {"leaving", "out"}
  /\ room = "joining" => made = 0 /\ ~timer /\ ~connected
  /\ room = "in" => (timer <=> socket = 0)
  /\ closed => socket = 0 /\ ~timer /\ ~connected
  /\ real # "none" \/ wire # <<>> => made # 0
  /\ BelievedOpen
  /\ \A i \in DOMAIN wire : wire[i].kind = "open" => real \in {"open", "ended"}

ChatsInv ==
  /\ wire \in Seq(Events) /\ carried \in Nat /\ heard \in Seq(1 .. carried)
  /\ \A i \in DOMAIN wire : wire[i].chat <= carried
  /\ \A i, j \in DOMAIN wire :
       i < j /\ wire[i].kind = "chat" /\ wire[j].kind = "chat" => wire[i].chat < wire[j].chat
  /\ \A i \in DOMAIN wire : wire[i].kind = "chat" => wire[i].chat # 0
  /\ Forwarded

Answers == {"read-only", "says nothing", "not connected", "sent", "failed"}

SaysInv == replies \in Seq(Answers \X {"leaves", "stays"}) /\ Truthful

\* A close is the last event of its socket, so none is left once it is handled.
PassedInv ==
  /\ \A i \in DOMAIN wire : wire[i].kind = "close" => i = Len(wire) /\ real = "ended"
  /\ ~closed /\ socket = 0 => wire = <<>> /\ real \in {"none", "ended"}
  /\ chats \subseteq Nat
  /\ NonePassedOver

SocialInv == SocketInv /\ ChatsInv /\ SaysInv /\ PassedInv

LEMMA EventFields ==
  ASSUME NEW kind \in {"open", "close", "control"}, NEW c \in Nat
  PROVE  /\ Event(kind) \in Events /\ Event(kind).kind = kind /\ Event(kind).chat = 0
         /\ Chat(c) \in Events /\ Chat(c).kind = "chat" /\ Chat(c).chat = c
BY DEF Event, Chat, Events

LEMMA SocialStarts == SocialInit => SocialInv
<1> SUFFICES ASSUME SocialInit PROVE SocialInv
  OBVIOUS
<1>1. SocketInv
  <2>1. DOMAIN wire = {}
    BY DEF SocialInit
  <2> QED
    BY <2>1 DEF SocialInit, SocketInv, BelievedOpen
<1>2. ChatsInv
  BY DEF SocialInit, ChatsInv, Forwarded
<1>3. SaysInv
  BY DEF SocialInit, SaysInv, Truthful
<1>4. PassedInv
  BY DEF SocialInit, PassedInv, NonePassedOver
<1> QED
  BY <1>1, <1>2, <1>3, <1>4 DEF SocialInv

\* A new event comes last.
LEMMA WireGrows ==
  ASSUME ChatsInv, NEW event \in Events, NEW limit \in Nat, carried <= limit,
         event.chat = 0 \/ (event.chat = limit /\ carried < limit),
         event.kind = "chat" => event.chat # 0,
         wire' = Append(wire, event), carried' = limit, heard' = heard
  PROVE  ChatsInv'
<1>1. /\ wire' \in Seq(Events) /\ Len(wire') = Len(wire) + 1 /\ wire'[Len(wire) + 1] = event
      /\ \A i \in DOMAIN wire : i \in DOMAIN wire' /\ wire'[i] = wire[i]
      /\ DOMAIN wire' = DOMAIN wire \cup {Len(wire) + 1} /\ DOMAIN wire = 1 .. Len(wire)
      /\ Len(wire) \in Nat
  BY DEF ChatsInv
<1>2. event.chat \in Nat
  BY DEF Events
<1>3. \A i \in DOMAIN wire : wire[i].chat \in Nat
  <2>1. \A i \in DOMAIN wire : wire[i] \in Events
    BY DEF ChatsInv
  <2> QED
    BY <2>1 DEF Events
<1>4. \A i \in DOMAIN wire' : wire'[i].chat <= carried' /\ (wire'[i].kind = "chat" => wire'[i].chat # 0)
  BY <1>1, <1>2, <1>3 DEF ChatsInv
<1>5. \A i, j \in DOMAIN wire' :
        i < j /\ wire'[i].kind = "chat" /\ wire'[j].kind = "chat" => wire'[i].chat < wire'[j].chat
  BY <1>1, <1>2, <1>3 DEF ChatsInv
<1>6. heard \in Seq(1 .. limit) /\ \A i \in DOMAIN heard : heard[i] \in 1 .. carried
  <2>1. 1 .. carried \subseteq 1 .. limit
    BY DEF ChatsInv
  <2> QED
    BY <2>1 DEF ChatsInv
<1>7. Forwarded'
  BY <1>1, <1>2, <1>6 DEF ChatsInv, Forwarded
<1> QED
  BY <1>1, <1>4, <1>5, <1>6, <1>7 DEF ChatsInv

LEMMA ChatsHandled ==
  ASSUME ChatsInv, wire # <<>>, wire' = Tail(wire), carried' = carried,
         \/ heard' = heard
         \/ Head(wire).kind = "chat" /\ heard' = Append(heard, Head(wire).chat)
  PROVE  ChatsInv'
<1>1. /\ wire' \in Seq(Events) /\ Len(wire) \in Nat \ {0} /\ Len(wire') = Len(wire) - 1
      /\ \A i \in DOMAIN wire' : i + 1 \in DOMAIN wire /\ wire'[i] = wire[i + 1] /\ i \in Nat
      /\ Head(wire) = wire[1] /\ 1 \in DOMAIN wire
  BY DEF ChatsInv
<1>2. \A i \in DOMAIN wire : wire[i].chat \in Nat
  <2>1. \A i \in DOMAIN wire : wire[i] \in Events
    BY DEF ChatsInv
  <2> QED
    BY <2>1 DEF Events
<1>3. \A i \in DOMAIN wire' : wire'[i].chat <= carried' /\ (wire'[i].kind = "chat" => wire'[i].chat # 0)
  BY <1>1 DEF ChatsInv
<1>4. \A i, j \in DOMAIN wire' :
        i < j /\ wire'[i].kind = "chat" /\ wire'[j].kind = "chat" => wire'[i].chat < wire'[j].chat
  <2> SUFFICES ASSUME NEW i \in DOMAIN wire', NEW j \in DOMAIN wire', i < j,
                      wire'[i].kind = "chat", wire'[j].kind = "chat"
               PROVE  wire'[i].chat < wire'[j].chat
    OBVIOUS
  <2>1. i + 1 < j + 1
    BY <1>1
  <2> QED
    BY <1>1, <2>1 DEF ChatsInv
<1>5. CASE heard' = heard
  <2>1. Forwarded'
    BY <1>1, <1>5 DEF ChatsInv, Forwarded
  <2> QED
    BY <1>1, <1>3, <1>4, <1>5, <2>1 DEF ChatsInv
<1>6. CASE Head(wire).kind = "chat" /\ heard' = Append(heard, Head(wire).chat)
  <2> DEFINE c == Head(wire).chat
  <2>1. c = wire[1].chat /\ c \in 1 .. carried /\ wire[1].kind = "chat"
    BY <1>1, <1>2, <1>6 DEF ChatsInv
  <2>2. /\ heard' \in Seq(1 .. carried) /\ Len(heard') = Len(heard) + 1 /\ Len(heard) \in Nat
        /\ heard'[Len(heard) + 1] = c /\ DOMAIN heard = 1 .. Len(heard)
        /\ DOMAIN heard' = DOMAIN heard \cup {Len(heard) + 1}
        /\ \A i \in DOMAIN heard : heard'[i] = heard[i] /\ heard[i] \in Nat
    <3>1. heard \in Seq(1 .. carried) /\ heard' = Append(heard, c)
      BY <1>6 DEF ChatsInv
    <3> HIDE DEF c
    <3> QED
      BY <2>1, <3>1 DEF ChatsInv
  <2> HIDE DEF c
  <2>3. \A i \in DOMAIN heard : heard[i] < c
    BY <1>1, <2>1 DEF ChatsInv, Forwarded
  <2>4. \A i, j \in DOMAIN heard' : i < j => heard'[i] < heard'[j]
    <3>1. \A i, j \in DOMAIN heard : i < j => heard[i] < heard[j]
      BY DEF ChatsInv, Forwarded
    <3>2. ASSUME NEW i \in DOMAIN heard', NEW j \in DOMAIN heard', i < j
          PROVE  heard'[i] < heard'[j]
      <4>1. i \in DOMAIN heard
        BY <2>2, <3>2
      <4>2. CASE j \in DOMAIN heard
        BY <2>2, <3>1, <3>2, <4>1, <4>2
      <4>3. CASE j = Len(heard) + 1
        BY <2>2, <2>3, <4>1, <4>3
      <4> QED
        BY <2>2, <4>2, <4>3
    <3> QED
      BY <3>2
  <2>5. \A j \in DOMAIN wire' : wire'[j].kind = "chat" => c < wire'[j].chat
    <3>1. \A j \in DOMAIN wire' : 1 < j + 1
      BY <1>1 DEF ChatsInv
    <3> QED
      BY <1>1, <2>1, <3>1 DEF ChatsInv
  <2>6. \A i \in DOMAIN heard', j \in DOMAIN wire' : wire'[j].kind = "chat" => heard'[i] < wire'[j].chat
    <3>1. \A i \in DOMAIN heard, j \in DOMAIN wire : wire[j].kind = "chat" => heard[i] < wire[j].chat
      BY DEF ChatsInv, Forwarded
    <3>2. \A i \in DOMAIN heard, j \in DOMAIN wire' : wire'[j].kind = "chat" => heard[i] < wire'[j].chat
      BY <1>1, <3>1
    <3> QED
      BY <2>2, <2>5, <3>2
  <2>7. Forwarded'
    BY <2>4, <2>6 DEF Forwarded
  <2> QED
    BY <1>1, <1>3, <1>4, <2>2, <2>7 DEF ChatsInv
<1> QED
  BY <1>5, <1>6

LEMMA ChatsStutter == ChatsInv /\ UNCHANGED <<wire, carried, heard>> => ChatsInv'
BY DEF ChatsInv, Forwarded

\* A new socket has no events yet.
LEMMA WireEmptied ==
  ASSUME ChatsInv, wire' = <<>>, UNCHANGED <<carried, heard>> PROVE ChatsInv'
BY DEF ChatsInv, Forwarded

LEMMA SaysStutter == SaysInv /\ UNCHANGED <<readOnly, replies>> => SaysInv'
BY DEF SaysInv, Truthful, asks

LEMMA SayAnswered ==
  ASSUME SaysInv, NEW what \in Answers, NEW left \in {"leaves", "stays"},
         left = "leaves" => what = "sent" /\ "say" \in asks,
         replies' = Append(replies, <<what, left>>), UNCHANGED readOnly
  PROVE  SaysInv'
<1> DEFINE reply == <<what, left>>
<1>1. reply \in Answers \X {"leaves", "stays"} /\ reply[1] = what /\ reply[2] = left
  OBVIOUS
<1> HIDE DEF reply
<1>2. /\ replies' \in Seq(Answers \X {"leaves", "stays"}) /\ DOMAIN replies' = DOMAIN replies \cup {Len(replies) + 1}
      /\ replies'[Len(replies) + 1] = reply /\ \A i \in DOMAIN replies : replies'[i] = replies[i]
  <2>1. replies \in Seq(Answers \X {"leaves", "stays"}) /\ replies' = Append(replies, reply)
    BY DEF SaysInv, reply
  <2> QED
    BY <1>1, <2>1
<1>3. asks' = asks
  BY DEF asks
<1> QED
  BY <1>1, <1>2, <1>3 DEF SaysInv, Truthful

LEMMA SaysTruthful == ASSUME SaysInv, NEW text \in BOOLEAN, Say(text) PROVE SaysInv'
<1>1. UNCHANGED readOnly
  BY DEF Say
<1>2. ASSUME NEW what \in Answers, replies' = Append(replies, <<what, "stays">>) PROVE SaysInv'
  BY <1>1, <1>2, SayAnswered
<1>3. ASSUME NEW what \in {"read-only", "says nothing", "not connected"},
             replies' = Append(replies, <<what, "stays">>)
      PROVE  SaysInv'
  BY <1>2, <1>3 DEF Answers
<1>4. ASSUME ~readOnly, NEW answer \in sendChat, replies' = Append(replies, answer) PROVE SaysInv'
  <2>1. "say" \in asks
    BY <1>4 DEF asks
  <2>2. answer \in {<<"sent", "leaves">>, <<"sent", "stays">>, <<"failed", "stays">>}
    BY <1>4 DEF sendChat
  <2>3. CASE answer = <<"sent", "leaves">>
    BY <1>1, <1>4, <2>1, <2>3, SayAnswered DEF Answers
  <2>4. ASSUME NEW what \in {"sent", "failed"}, answer = <<what, "stays">> PROVE SaysInv'
    BY <1>2, <1>4, <2>4 DEF Answers
  <2> QED
    BY <2>2, <2>3, <2>4
<1> QED
  BY <1>3, <1>4, Zenon DEF Say

LEMMA SocketConnects ==
  ASSUME SocketInv, connect, room' = "in", room \in {"joining", "in"} PROVE SocketInv'
<1>1. CASE FactoryGives
  <2>1. made' = made + 1 /\ socket' = made + 1 /\ real' = "opening" /\ DOMAIN wire' = {}
    BY <1>1 DEF FactoryGives
  <2>2. timer' = FALSE /\ connected' = connected /\ closed' = closed
    BY <1>1 DEF FactoryGives, connect
  <2>3. ~connected /\ ~closed
    BY DEF SocketInv, BelievedOpen, connect
  <2>4. ~timer' /\ ~connected' /\ ~closed' /\ {timer', connected', closed'} \subseteq BOOLEAN
    BY <2>2, <2>3 DEF SocketInv
  <2>5. made' \in Nat /\ made' # 0
    BY <2>1 DEF SocketInv
  <2> QED
    BY <2>1, <2>4, <2>5 DEF SocketInv, BelievedOpen
<1>2. CASE FactoryThrows
  BY <1>2 DEF SocketInv, BelievedOpen, connect, FactoryThrows
<1> QED
  BY <1>1, <1>2 DEF connect

LEMMA SocketHandles == ASSUME SocketInv, ChatsInv, Handle PROVE SocketInv'
<1>1. /\ DOMAIN wire' \subseteq DOMAIN wire
      /\ \A i \in DOMAIN wire' : i + 1 \in DOMAIN wire /\ wire'[i] = wire[i + 1]
      /\ wire # <<>> /\ 1 \in DOMAIN wire /\ Head(wire) = wire[1]
  <2>1. wire \in Seq(Events) /\ wire # <<>> /\ wire' = Tail(wire)
    BY DEF ChatsInv, Handle
  <2> QED
    BY <2>1
<1>2. UNCHANGED <<room, closed, made, real>>
  BY DEF Handle
<1>3. \A i \in DOMAIN wire' : wire'[i].kind = "open" => real' \in {"open", "ended"}
  BY <1>1, <1>2 DEF SocketInv
<1>4. CASE ~Current
  BY <1>1, <1>2, <1>3, <1>4 DEF SocketInv, BelievedOpen, Handle
<1>5. CASE Current /\ onopen
  BY <1>1, <1>2, <1>3, <1>5 DEF SocketInv, BelievedOpen, Current, onopen
<1>6. CASE Current /\ onmessage
  BY <1>1, <1>2, <1>3, <1>6 DEF SocketInv, BelievedOpen, Current, onmessage
<1>7. CASE Current /\ onclose
  BY <1>1, <1>2, <1>3, <1>7 DEF SocketInv, BelievedOpen, Current, onclose, scheduleReconnect
<1> QED
  BY <1>4, <1>5, <1>6, <1>7 DEF Handle

LEMMA SocketEvent ==
  ASSUME SocketInv, ChatsInv, NEW event \in Events, wire' = Append(wire, event), made # 0,
         real' \in {"open", "ended"}, UNCHANGED <<room, socket, timer, connected, closed, made>>
  PROVE  SocketInv'
<1>1. wire' # <<>>
  BY DEF ChatsInv
<1> QED
  BY <1>1 DEF SocketInv, BelievedOpen

LEMMA SocketStutters ==
  SocketInv /\ UNCHANGED <<room, socket, timer, connected, closed, made, real, wire>> => SocketInv'
BY DEF SocketInv, BelievedOpen

\* Handlers listen to the socket the events of which are still to come.
LEMMA ListensUntilClosed ==
  ASSUME SocketInv, PassedInv, wire # <<>>, ~closed PROVE Current
BY DEF SocketInv, PassedInv, Current

LEMMA PassedEvent ==
  ASSUME ChatsInv, PassedInv, NEW event \in Events, wire' = Append(wire, event), real # "ended",
         ~closed' => socket # 0, event.kind = "close" => real' = "ended",
         \/ chats' = chats
         \/ \E c \in Nat : event = Chat(c) /\ chats' = chats \cup {c},
         socket' = socket \/ closed', heard' = heard, ~closed' => ~closed
  PROVE  PassedInv'
<1>1. /\ Len(wire') = Len(wire) + 1 /\ wire'[Len(wire) + 1] = event
      /\ \A i \in DOMAIN wire : i \in DOMAIN wire' /\ wire'[i] = wire[i]
      /\ DOMAIN wire' = DOMAIN wire \cup {Len(wire) + 1}
  BY DEF ChatsInv
<1>2. \A i \in DOMAIN wire : wire[i].kind # "close"
  BY DEF PassedInv
<1>3. \A i \in DOMAIN wire' : wire'[i].kind = "close" => i = Len(wire') /\ real' = "ended"
  BY <1>1, <1>2
<1>4. chats' \subseteq Nat
  BY DEF PassedInv
<1>5. ASSUME ~closed', NEW c \in chats'
      PROVE  c \in ToSet(heard)' \/ \E i \in DOMAIN wire' : wire'[i] = Chat(c)
  <2>1. CASE c \in chats
    <3>1. c \in ToSet(heard) \/ \E i \in DOMAIN wire : wire[i] = Chat(c)
      BY <1>5, <2>1 DEF PassedInv, NonePassedOver
    <3>2. ToSet(heard)' = ToSet(heard)
      BY DEF ToSet
    <3> QED
      BY <1>1, <3>1, <3>2
  <2>2. CASE event = Chat(c)
    BY <1>1, <2>2
  <2> QED
    BY <1>5, <2>1, <2>2
<1> QED
  BY <1>3, <1>4, <1>5 DEF PassedInv, NonePassedOver

LEMMA PassedHandled ==
  ASSUME SocketInv, ChatsInv, PassedInv, Handle PROVE PassedInv'
<1>1. /\ wire # <<>> /\ wire' = Tail(wire) /\ wire \in Seq(Events) /\ heard \in Seq(1 .. carried)
      /\ UNCHANGED <<closed, real, chats>>
  BY DEF Handle, ChatsInv
<1>2. /\ Len(wire) \in Nat \ {0} /\ Len(wire') = Len(wire) - 1 /\ DOMAIN wire' = 1 .. Len(wire')
      /\ \A i \in DOMAIN wire' : i + 1 \in DOMAIN wire /\ wire'[i] = wire[i + 1] /\ i \in Nat
      /\ \A i \in DOMAIN wire : i = 1 \/ (i - 1 \in DOMAIN wire' /\ wire'[i - 1] = wire[i])
      /\ Head(wire) = wire[1] /\ 1 \in DOMAIN wire
  BY <1>1
<1>3. \A i \in DOMAIN wire' : wire'[i].kind = "close" => i = Len(wire') /\ real' = "ended"
  <2>1. \A i \in DOMAIN wire : wire[i].kind = "close" => i = Len(wire) /\ real = "ended"
    BY DEF PassedInv
  <2> QED
    BY <1>1, <1>2, <2>1
<1>4. ~closed => Current
  BY <1>1, ListensUntilClosed
<1>5. ASSUME ~closed', socket' = 0 PROVE wire' = <<>> /\ real \in {"none", "ended"}
  <2>1. Current /\ (onopen \/ onmessage \/ onclose)
    BY <1>1, <1>4, <1>5 DEF Handle
  <2>2. CASE onclose
    <3>1. Len(wire) = 1 /\ real = "ended"
      BY <1>2, <2>2 DEF PassedInv, onclose
    <3> QED
      BY <1>1, <3>1
  <2>3. CASE onopen \/ onmessage
    <3>1. socket = 0
      BY <1>5, <2>3 DEF onopen, onmessage
    <3> QED
      BY <1>1, <1>5, <3>1 DEF PassedInv
  <2> QED
    BY <2>1, <2>2, <2>3
<1>6. ASSUME ~closed', NEW c \in chats
      PROVE  c \in ToSet(heard)' \/ \E i \in DOMAIN wire' : wire'[i] = Chat(c)
  <2>1. ~closed /\ Current
    BY <1>1, <1>4, <1>6
  <2>2. c \in ToSet(heard) \/ \E i \in DOMAIN wire : wire[i] = Chat(c)
    BY <1>6, <2>1 DEF PassedInv, NonePassedOver
  <2>3. onopen \/ onmessage \/ onclose
    BY <2>1 DEF Handle
  <2>4. heard' = heard \/ heard' = Append(heard, Head(wire).chat)
    BY <2>3 DEF onopen, onmessage, onclose
  <2>5. ToSet(heard) \subseteq ToSet(heard)'
    BY <1>1, <2>4 DEF ToSet
  <2>6. CASE wire[1] = Chat(c)
    <3>1. Head(wire).kind = "chat" /\ Head(wire).chat = c
      BY <1>2, <2>6 DEF Chat
    <3>2. heard' = Append(heard, c)
      BY <2>3, <3>1 DEF onopen, onmessage, onclose
    <3>3. heard'[Len(heard) + 1] = c /\ Len(heard) + 1 \in DOMAIN heard'
      BY <1>1, <3>2
    <3> QED
      BY <3>3 DEF ToSet
  <2>7. CASE \E i \in DOMAIN wire : wire[i] = Chat(c) /\ i # 1
    BY <1>2, <2>7
  <2> QED
    BY <2>2, <2>5, <2>6, <2>7
<1>7. chats' \subseteq Nat
  BY <1>1 DEF PassedInv
<1> QED
  BY <1>1, <1>3, <1>5, <1>6, <1>7 DEF PassedInv, NonePassedOver

LEMMA PassedStutters ==
  PassedInv /\ UNCHANGED <<wire, real, closed, socket, chats, heard>> => PassedInv'
BY DEF PassedInv, NonePassedOver, ToSet

LEMMA SocialSteps == SocialInv /\ SocialNext => SocialInv'
<1> SUFFICES ASSUME SocialInv, SocialNext PROVE SocialInv'
  OBVIOUS
<1> USE DEF SocialInv
<1>1. CASE RoomJoined \/ TimerFires
  <2>1. SaysInv'
    BY <1>1, SaysStutter DEF RoomJoined, TimerFires
  <2>2. connect /\ UNCHANGED <<carried, heard>>
    BY <1>1 DEF RoomJoined, TimerFires
  <2>3. ChatsInv'
    BY <2>2, WireEmptied, ChatsStutter DEF connect, FactoryGives, FactoryThrows
  <2>4. room' = "in" /\ room \in {"joining", "in"}
    BY <1>1 DEF RoomJoined, TimerFires, SocketInv, connect
  <2>5. SocketInv'
    BY <2>2, <2>4, SocketConnects
  <2>6. PassedInv'
    <3>1. wire = <<>> /\ ~closed /\ closed' = closed /\ UNCHANGED <<chats, heard>> /\ wire' = <<>>
      BY <1>1, <2>2 DEF RoomJoined, TimerFires, connect, FactoryGives, FactoryThrows, PassedInv
    <3>2. socket' = 0 => real' \in {"none", "ended"}
      BY <2>2 DEF connect, FactoryGives, FactoryThrows, PassedInv, SocketInv
    <3> QED
      BY <3>1, <3>2 DEF PassedInv, NonePassedOver, ToSet
  <2> QED
    BY <2>1, <2>3, <2>5, <2>6
<1>2. CASE SocketOpens \/ SocketEnds
  <2>1. PICK kind \in {"open", "close"} :
          wire' = Append(wire, Event(kind)) /\ (kind = "close" => real' = "ended")
    BY <1>2 DEF SocketOpens, SocketEnds
  <2>2. Event(kind) \in Events /\ Event(kind).chat = 0 /\ Event(kind).kind # "chat"
    BY EventFields
  <2>3. ChatsInv'
    BY <1>2, <2>1, <2>2, WireGrows DEF SocketOpens, SocketEnds, ChatsInv
  <2>4. SocketInv'
    BY <1>2, <2>1, <2>2, SocketEvent DEF SocketOpens, SocketEnds, SocketInv
  <2>5. SaysInv'
    BY <1>2, SaysStutter DEF SocketOpens, SocketEnds
  <2>6. PassedInv'
    <3>1. UNCHANGED <<socket, heard, closed, chats>> /\ real \notin {"none", "ended"}
      BY <1>2 DEF SocketOpens, SocketEnds
    <3>2. ~closed => socket # 0
      BY <3>1 DEF PassedInv
    <3>3. Event(kind).kind = "close" => real' = "ended"
      BY <2>1, EventFields
    <3> QED
      BY <2>1, <2>2, <3>1, <3>2, <3>3, PassedEvent
  <2> QED
    BY <2>3, <2>4, <2>5, <2>6
<1>3. CASE ServiceSends
  <2>1. PICK event \in {Chat(carried + 1), Event("control")} :
          /\ wire' = Append(wire, event)
          /\ chats' = chats \/ (event = Chat(carried + 1) /\ chats' = chats \cup {carried + 1})
    BY <1>3 DEF ServiceSends
  <2>2. carried \in Nat /\ carried + 1 \in Nat /\ carried' = carried + 1
    BY <1>3 DEF ServiceSends, ChatsInv
  <2>3. /\ event \in Events /\ event.chat \in {0, carried + 1}
        /\ event.kind = "chat" => event.chat = carried + 1
    BY <2>1, <2>2, EventFields
  <2>4. ChatsInv'
    <3>1. event.chat = 0 \/ (event.chat = carried + 1 /\ carried < carried + 1)
      BY <2>2, <2>3
    <3> QED
      BY <1>3, <2>1, <2>2, <2>3, <3>1, WireGrows DEF ServiceSends
  <2>5. SocketInv'
    BY <1>3, <2>1, <2>3, SocketEvent DEF ServiceSends, SocketInv
  <2>6. SaysInv'
    BY <1>3, SaysStutter DEF ServiceSends
  <2>7. PassedInv'
    <3>1. UNCHANGED <<socket, heard, closed>> /\ real \notin {"none", "ended"}
      BY <1>3 DEF ServiceSends
    <3>2. event.kind # "close"
      BY <2>1, <2>2, EventFields
    <3>3. ~closed => socket # 0
      BY <3>1 DEF PassedInv
    <3> QED
      BY <2>1, <2>2, <2>3, <3>1, <3>2, <3>3, PassedEvent
  <2> QED
    BY <2>4, <2>5, <2>6, <2>7
<1>4. CASE Handle
  <2>1. ChatsInv'
    BY <1>4, ChatsHandled DEF Handle, onopen, onmessage, onclose
  <2>2. SaysInv'
    BY <1>4, SaysStutter DEF Handle
  <2> QED
    BY <1>4, <2>1, <2>2, SocketHandles, PassedHandled
<1>5. ASSUME NEW text \in BOOLEAN, Say(text) PROVE SocialInv'
  BY <1>5, SaysTruthful, ChatsStutter, SocketStutters, PassedStutters DEF Say, wsVars
<1>6. CASE Shutdown
  <2>0. closed' /\ UNCHANGED <<chats, heard>>
    BY <1>6 DEF Shutdown
  <2>1. SaysInv'
    BY <1>6, SaysStutter DEF Shutdown
  <2>2. CASE socket # 0 /\ real # "ended"
    <3>1. /\ Event("close") \in Events /\ Event("close").chat = 0
          /\ Event("close").kind = "close"
      BY EventFields
    <3>2. ChatsInv'
      BY <1>6, <2>2, <3>1, WireGrows DEF Shutdown, ChatsInv
    <3>3. wire' # <<>> /\ made # 0 /\ real' = "ended"
      BY <1>6, <2>2 DEF Shutdown, ChatsInv, SocketInv
    <3>4. SocketInv'
      BY <1>6, <3>3 DEF Shutdown, SocketInv, BelievedOpen
    <3>5. PassedInv'
      BY <1>6, <2>0, <2>2, <3>1, <3>3, PassedEvent DEF Shutdown
    <3> QED
      BY <2>1, <3>2, <3>4, <3>5
  <2>3. CASE ~(socket # 0 /\ real # "ended")
    <3>1. ChatsInv'
      BY <1>6, <2>3, ChatsStutter DEF Shutdown
    <3>2. SocketInv'
      BY <1>6, <2>3 DEF Shutdown, SocketInv, BelievedOpen
    <3>3. PassedInv'
      BY <1>6, <2>0, <2>3 DEF Shutdown, PassedInv, NonePassedOver
    <3> QED
      BY <2>1, <3>1, <3>2, <3>3
  <2> QED
    BY <2>2, <2>3
<1>7. CASE Disconnected
  BY <1>7, SaysStutter, ChatsStutter, PassedStutters DEF Disconnected, wsVars, SocketInv, BelievedOpen
<1> QED
  BY <1>1, <1>2, <1>3, <1>4, <1>5, <1>6, <1>7 DEF SocialNext

LEMMA SocialStutters == SocialInv /\ UNCHANGED socialVars => SocialInv'
BY SaysStutter, ChatsStutter, SocketStutters, PassedStutters DEF SocialInv, socialVars, wsVars

LEMMA SocialSafe == SocialInv => SocialSound
<1> SUFFICES ASSUME SocialInv PROVE SocialSound
  OBVIOUS
<1>1. Reconnects
  BY DEF SocialInv, SocketInv, Reconnects
<1> QED
  BY <1>1 DEF SocialInv, SocketInv, ChatsInv, SaysInv, PassedInv, SocialSound

(***************************************************************************)
(* A room.  What a node knows, keeps in its ring or is about to be         *)
(* replayed is what it may see; a message under way may be anybody's, and  *)
(* is filtered where it arrives.                                           *)
(***************************************************************************)
Message == [from : Nodes, to : Nodes \cup {Everybody}, topic : Topics \cup {NoTopic}]
Parcel == [type : {"message", "history_request", "history_replay"}, id : Nat]

Permitted(n) == {id \in DOMAIN sent : sent[id].from = n \/ sent[id].to \in {Everybody, n}}

Carried(n) ==
  {p \in Parcel : /\ p.type = "message" => p.id \in DOMAIN sent
                  /\ p.type = "history_replay" => p.id \in Permitted(n)}

RoomInv ==
  /\ sent \in Seq(Message)
  /\ history \in [Nodes -> Seq(Nat)] /\ \A n \in Nodes : history[n] \in Seq(Permitted(n))
  /\ knows \in [Nodes -> SUBSET Nat] /\ \A n \in Nodes : knows[n] \subseteq Permitted(n)
  /\ link \in [Nodes \X Nodes -> Seq(Parcel)]
  /\ \A m, n \in Nodes : link[<<m, n>>] \in Seq(Carried(n))

LEMMA SeqGrows ==
  ASSUME NEW S, NEW T, S \subseteq T, NEW s \in Seq(S) PROVE s \in Seq(T)
OBVIOUS

LEMMA ParcelFields ==
  ASSUME NEW type \in {"message", "history_request", "history_replay"}, NEW id \in Nat
  PROVE  LET p == [type |-> type, id |-> id] IN p \in Parcel /\ p.type = type /\ p.id = id
BY DEF Parcel

LEMMA Remembered ==
  ASSUME NEW S, NEW ring \in Seq(S), NEW m \in S PROVE Remember(ring, m) \in Seq(S)
<1> DEFINE longer == Append(ring, m)
<1>1. longer \in Seq(S) /\ Len(longer) \in Nat /\ Len(longer) >= 1
  OBVIOUS
<1> HIDE DEF longer
<1>2. PICK first \in {1, 2} : first = IF Len(longer) > HistorySize THEN 2 ELSE 1
  OBVIOUS
<1>3. SubSeq(longer, first, Len(longer)) \in Seq(S)
  BY <1>1, <1>2
<1> QED
  BY <1>2, <1>3 DEF Remember, longer

\* What may be seen stays so as messages are added.
LEMMA PermittedGrows ==
  ASSUME RoomInv, NEW n \in Nodes,
         sent' = sent \/ \E m \in Message : sent' = Append(sent, m)
  PROVE  Permitted(n) \subseteq Permitted(n)' /\ Carried(n) \subseteq Carried(n)'
         /\ Permitted(n)' \subseteq Nat /\ sent' \in Seq(Message)
<1>1. /\ sent' \in Seq(Message) /\ DOMAIN sent \subseteq DOMAIN sent' /\ DOMAIN sent' \subseteq Nat
      /\ \A i \in DOMAIN sent : sent'[i] = sent[i]
  <2>1. sent \in Seq(Message)
    BY DEF RoomInv
  <2>2. CASE sent' = sent
    BY <2>1, <2>2
  <2>3. ASSUME NEW m \in Message, sent' = Append(sent, m)
        PROVE  /\ sent' \in Seq(Message) /\ DOMAIN sent \subseteq DOMAIN sent' /\ DOMAIN sent' \subseteq Nat
               /\ \A i \in DOMAIN sent : sent'[i] = sent[i]
    BY <2>1, <2>3
  <2> QED
    BY <2>2, <2>3
<1> QED
  BY <1>1 DEF Permitted, Carried

LEMMA RoomStarts == ConversationInit => RoomInv
<1> SUFFICES ASSUME ConversationInit PROVE RoomInv
  OBVIOUS
<1>1. \A n \in Nodes : history[n] = <<>> /\ knows[n] = {}
  BY DEF ConversationInit
<1>2. \A m, n \in Nodes : link[<<m, n>>] = <<>>
  BY DEF ConversationInit
<1> QED
  BY <1>1, <1>2 DEF ConversationInit, RoomInv

LEMMA RoomLeaves ==
  ASSUME RoomInv, NEW n \in Nodes, NEW to \in Nodes \cup {Everybody},
         NEW topic \in Topics \cup {NoTopic}, NEW reached \in SUBSET Nodes,
         Leaves(n, to, topic, reached)
  PROVE  RoomInv'
<1> DEFINE new == [from |-> n, to |-> to, topic |-> topic]
           id == Len(sent) + 1
           p == [type |-> "message", id |-> id]
<1>1. new \in Message /\ new.from = n
  BY DEF Message
<1>2. id \in Nat
  BY DEF RoomInv
<1>3. p \in Parcel /\ p.type = "message" /\ p.id = id
  BY <1>2, ParcelFields
<1>4. /\ sent' = Append(sent, new)
      /\ history' = [history EXCEPT ![n] = Remember(@, id)]
      /\ knows' = [knows EXCEPT ![n] = @ \cup {id}]
      /\ link' = [pair \in Nodes \X Nodes |->
                    IF pair[1] = n /\ pair[2] \in reached THEN Append(link[pair], p) ELSE link[pair]]
  BY DEF Leaves
<1> HIDE DEF new, p
<1>5. sent' \in Seq(Message) /\ id \in DOMAIN sent' /\ sent'[id] = new
  BY <1>1, <1>4 DEF RoomInv
<1> HIDE DEF id
<1>6. \A m \in Nodes : Permitted(m) \subseteq Permitted(m)' /\ Carried(m) \subseteq Carried(m)'
  BY <1>1, <1>4, PermittedGrows
<1>7. id \in Permitted(n)'
  BY <1>1, <1>5 DEF Permitted
<1>8. \A m \in Nodes : p \in Carried(m)'
  BY <1>3, <1>5 DEF Carried
<1>9. /\ history' \in [Nodes -> Seq(Nat)]
      /\ \A m \in Nodes : history'[m] \in Seq(Permitted(m)')
  <2>1. \A m \in Nodes : history[m] \in Seq(Permitted(m)') /\ history[m] \in Seq(Nat)
    BY <1>6, SeqGrows DEF RoomInv
  <2>2. Remember(history[n], id) \in Seq(Permitted(n)') /\ Remember(history[n], id) \in Seq(Nat)
    BY <1>2, <1>7, <2>1, Remembered
  <2> QED
    BY <1>4, <2>1, <2>2 DEF RoomInv
<1>10. /\ knows' \in [Nodes -> SUBSET Nat]
       /\ \A m \in Nodes : knows'[m] \subseteq Permitted(m)'
  BY <1>2, <1>4, <1>6, <1>7 DEF RoomInv
<1>11. ASSUME NEW k \in Nodes, NEW m \in Nodes
       PROVE  link'[<<k, m>>] \in Seq(Carried(m)') /\ link'[<<k, m>>] \in Seq(Parcel)
  <2>1. link[<<k, m>>] \in Seq(Carried(m)') /\ link[<<k, m>>] \in Seq(Parcel)
    BY <1>6, SeqGrows DEF RoomInv
  <2>2. Append(link[<<k, m>>], p) \in Seq(Carried(m)') /\ Append(link[<<k, m>>], p) \in Seq(Parcel)
    BY <1>3, <1>8, <2>1
  <2>3. link'[<<k, m>>] \in {link[<<k, m>>], Append(link[<<k, m>>], p)}
    BY <1>4
  <2> QED
    BY <2>1, <2>2, <2>3
<1>12. link' \in [Nodes \X Nodes -> Seq(Parcel)]
  <2>1. link' = [pair \in Nodes \X Nodes |-> link'[pair]]
    BY <1>4
  <2>2. \A pair \in Nodes \X Nodes : link'[pair] \in Seq(Parcel)
    BY <1>11
  <2> QED
    BY <2>1, <2>2
<1> QED
  BY <1>5, <1>9, <1>10, <1>11, <1>12 DEF RoomInv

\* What a link holds is taken from its end.
LEMMA RoomTakes ==
  ASSUME RoomInv, NEW m \in Nodes, NEW n \in Nodes, link[<<m, n>>] # <<>>
  PROVE  /\ Head(link[<<m, n>>]) \in Carried(n)
         /\ Tail(link[<<m, n>>]) \in Seq(Carried(n)) /\ Tail(link[<<m, n>>]) \in Seq(Parcel)
BY DEF RoomInv

LEMMA RoomHears ==
  ASSUME RoomInv, NEW m \in Nodes, NEW n \in Nodes, HandleIncoming(m, n) \/ ReplayHeard(m, n)
  PROVE  RoomInv'
<1> DEFINE p == Head(link[<<m, n>>])
           id == p.id
<1>1. p \in Carried(n)
  BY RoomTakes DEF HandleIncoming, ReplayHeard
<1>2. link' = [link EXCEPT ![<<m, n>>] = Tail(@)] /\ UNCHANGED sent
  BY DEF HandleIncoming, ReplayHeard
<1>3. /\ Tail(link[<<m, n>>]) \in Seq(Carried(n)) /\ Tail(link[<<m, n>>]) \in Seq(Parcel)
  BY RoomTakes DEF HandleIncoming, ReplayHeard
<1>4. \/ UNCHANGED <<history, knows>>
      \/ /\ id \in Permitted(n) /\ id \in Nat
         /\ history' \in {history, [history EXCEPT ![n] = Remember(@, id)]}
         /\ knows' = [knows EXCEPT ![n] = @ \cup {id}]
  <2>1. CASE HandleIncoming(m, n)
    <3>1. p.type = "message" /\ id \in DOMAIN sent /\ id \in Nat
      BY <1>1, <2>1 DEF HandleIncoming, Carried, Parcel
    <3>2. Passes(n, id) => id \in Permitted(n)
      BY <3>1 DEF Passes, Permitted
    <3>3. IF Passes(n, id)
          THEN /\ history' = [history EXCEPT ![n] = Remember(@, id)]
               /\ knows' = [knows EXCEPT ![n] = @ \cup {id}]
          ELSE UNCHANGED <<history, knows>>
      BY <2>1 DEF HandleIncoming
    <3> HIDE DEF id
    <3> QED
      BY <3>1, <3>2, <3>3
  <2>2. CASE ReplayHeard(m, n)
    <3>1. id \in Permitted(n) /\ id \in Nat
      BY <1>1, <2>2 DEF ReplayHeard, Carried, Parcel
    <3>2. history' = history /\ knows' = [knows EXCEPT ![n] = @ \cup {id}]
      BY <2>2 DEF ReplayHeard
    <3> HIDE DEF id
    <3> QED
      BY <3>1, <3>2
  <2> QED
    BY <2>1, <2>2
<1> HIDE DEF p, id
<1>5. \A k \in Nodes : Permitted(k)' = Permitted(k) /\ Carried(k)' = Carried(k)
  BY <1>2 DEF Permitted, Carried
<1>6. /\ link' \in [Nodes \X Nodes -> Seq(Parcel)]
      /\ \A j, k \in Nodes : link'[<<j, k>>] \in Seq(Carried(k))
  BY <1>2, <1>3 DEF RoomInv
<1>7. /\ history' \in [Nodes -> Seq(Nat)] /\ \A k \in Nodes : history'[k] \in Seq(Permitted(k))
      /\ knows' \in [Nodes -> SUBSET Nat] /\ \A k \in Nodes : knows'[k] \subseteq Permitted(k)
  <2>1. CASE UNCHANGED <<history, knows>>
    BY <2>1 DEF RoomInv
  <2>2. CASE /\ id \in Permitted(n) /\ id \in Nat
             /\ history' \in {history, [history EXCEPT ![n] = Remember(@, id)]}
             /\ knows' = [knows EXCEPT ![n] = @ \cup {id}]
    <3>1. Remember(history[n], id) \in Seq(Permitted(n)) /\ Remember(history[n], id) \in Seq(Nat)
      BY <2>2, Remembered DEF RoomInv
    <3> QED
      BY <2>2, <3>1 DEF RoomInv
  <2> QED
    BY <1>4, <2>1, <2>2
<1>8. /\ \A k \in Nodes : history'[k] \in Seq(Permitted(k)')
      /\ \A k \in Nodes : knows'[k] \subseteq Permitted(k)'
      /\ \A j, k \in Nodes : link'[<<j, k>>] \in Seq(Carried(k)')
  BY <1>5, <1>6, <1>7
<1>9. sent' \in Seq(Message)
  BY <1>2 DEF RoomInv
<1> QED
  BY <1>6, <1>7, <1>8, <1>9 DEF RoomInv

LEMMA RoomAsked ==
  ASSUME RoomInv, NEW n \in Nodes, NEW m \in Nodes, RequestHistory(n, m) PROVE RoomInv'
<1>1. PICK count \in Counts :
        link' = [link EXCEPT ![<<n, m>>] = Append(@, [type |-> "history_request", id |-> count])]
  BY DEF RequestHistory
<1> DEFINE p == [type |-> "history_request", id |-> count]
<1>2. p \in Parcel /\ p.type = "history_request"
  BY ConversationAssumption, ParcelFields
<1>3. link' = [link EXCEPT ![<<n, m>>] = Append(@, p)] /\ UNCHANGED <<sent, history, knows>>
  BY <1>1 DEF RequestHistory
<1> HIDE DEF p
<1>4. \A k \in Nodes : Permitted(k)' = Permitted(k) /\ Carried(k)' = Carried(k)
  BY <1>3 DEF Permitted, Carried
<1>5. p \in Carried(m)
  BY <1>2 DEF Carried
<1>6. /\ Append(link[<<n, m>>], p) \in Seq(Carried(m)) /\ Append(link[<<n, m>>], p) \in Seq(Parcel)
  BY <1>2, <1>5 DEF RoomInv
<1> QED
  BY <1>3, <1>4, <1>6 DEF RoomInv

\* The answer shows the asker only what it may see.
LEMMA RoomAnswers ==
  ASSUME RoomInv, NEW m \in Nodes, NEW n \in Nodes, HistoryRequested(m, n) PROVE RoomInv'
<1> DEFINE fit == {i \in DOMAIN history[n] : MaySee(m, sent[history[n][i]])}
<1>0. PICK taken \in SUBSET Replies(n, m, Head(link[<<m, n>>]).id) :
        \E place \in [1 .. Cardinality(taken) -> taken] :
          LET replays == [i \in DOMAIN place |-> [type |-> "history_replay", id |-> history[n][place[i]]]]
          IN link' = [pair \in Nodes \X Nodes |->
                        IF pair = <<m, n>> THEN Tail(link[pair])
                        ELSE IF pair = <<n, m>> THEN link[pair] \o replays
                        ELSE link[pair]]
  BY DEF HistoryRequested
<1>1. PICK place \in [1 .. Cardinality(taken) -> taken] :
        LET replays == [i \in DOMAIN place |-> [type |-> "history_replay", id |-> history[n][place[i]]]]
        IN link' = [pair \in Nodes \X Nodes |->
                      IF pair = <<m, n>> THEN Tail(link[pair])
                      ELSE IF pair = <<n, m>> THEN link[pair] \o replays
                      ELSE link[pair]]
  BY <1>0
<1>2. link[<<m, n>>] # <<>> /\ UNCHANGED <<sent, history, knows>>
  BY DEF HistoryRequested
<1> DEFINE replays == [i \in DOMAIN place |-> [type |-> "history_replay", id |-> history[n][place[i]]]]
<1>3. taken \subseteq fit
  BY DEF Replies, LastOf
<1>4. Cardinality(taken) \in Nat
  <2>1. IsFiniteSet(DOMAIN history[n])
    <3>1. DOMAIN history[n] = 1 .. Len(history[n]) /\ Len(history[n]) \in Nat
      BY DEF RoomInv
    <3> QED
      BY <3>1, FS_Interval
  <2> QED
    BY <1>3, <2>1, FS_Subset, FS_CardinalityType
<1>5. \A i \in fit : history[n][i] \in Permitted(m) /\ history[n][i] \in Nat
  <2> SUFFICES ASSUME NEW i \in fit PROVE history[n][i] \in Permitted(m) /\ history[n][i] \in Nat
    OBVIOUS
  <2>1. history[n][i] \in Permitted(n) /\ history[n][i] \in Nat
    BY DEF RoomInv
  <2>2. history[n][i] \in DOMAIN sent
    BY <2>1 DEF Permitted
  <2> QED
    BY <2>1, <2>2 DEF Permitted, MaySee
<1>6. \A i \in DOMAIN place : replays[i] \in Carried(m) /\ replays[i] \in Parcel
  <2> SUFFICES ASSUME NEW i \in DOMAIN place PROVE replays[i] \in Carried(m) /\ replays[i] \in Parcel
    OBVIOUS
  <2>1. place[i] \in fit
    BY <1>3
  <2>2. PICK id \in Nat : id = history[n][place[i]] /\ id \in Permitted(m)
    BY <1>5, <2>1
  <2>3. replays[i] = [type |-> "history_replay", id |-> id]
    BY <2>2
  <2> QED
    BY <2>2, <2>3, ParcelFields DEF Carried
<1>7. replays \in Seq(Carried(m)) /\ replays \in Seq(Parcel)
  <2>1. DOMAIN replays = 1 .. Cardinality(taken)
    OBVIOUS
  <2>2. replays \in [1 .. Cardinality(taken) -> Carried(m)] /\ replays \in [1 .. Cardinality(taken) -> Parcel]
    BY <1>6, <2>1
  <2>3. PICK k \in Nat : k = Cardinality(taken)
    BY <1>4
  <2>4. ASSUME NEW S, replays \in [1 .. k -> S] PROVE replays \in Seq(S)
    <3> HIDE DEF replays
    <3> QED
      BY <2>4
  <2> QED
    BY <2>2, <2>3, <2>4
<1>8. link' = [pair \in Nodes \X Nodes |->
                 IF pair = <<m, n>> THEN Tail(link[pair])
                 ELSE IF pair = <<n, m>> THEN link[pair] \o replays
                 ELSE link[pair]]
  BY <1>1
<1> HIDE DEF replays, fit
<1>9. \A k \in Nodes : Permitted(k)' = Permitted(k) /\ Carried(k)' = Carried(k)
  BY <1>2 DEF Permitted, Carried
<1>10. /\ Tail(link[<<m, n>>]) \in Seq(Carried(n)) /\ Tail(link[<<m, n>>]) \in Seq(Parcel)
  BY <1>2, RoomTakes
<1>11. /\ link[<<n, m>>] \o replays \in Seq(Carried(m)) /\ link[<<n, m>>] \o replays \in Seq(Parcel)
  <2>1. link[<<n, m>>] \in Seq(Carried(m)) /\ link[<<n, m>>] \in Seq(Parcel)
    BY DEF RoomInv
  <2> QED
    BY <1>7, <2>1
<1>12. ASSUME NEW j \in Nodes, NEW k \in Nodes
       PROVE  link'[<<j, k>>] \in Seq(Carried(k)) /\ link'[<<j, k>>] \in Seq(Parcel)
  <2>1. CASE j = m /\ k = n
    BY <1>8, <1>10, <2>1
  <2>2. CASE ~(j = m /\ k = n) /\ j = n /\ k = m
    BY <1>8, <1>11, <2>2
  <2>3. CASE ~(j = m /\ k = n) /\ ~(j = n /\ k = m)
    BY <1>8, <2>3 DEF RoomInv
  <2> QED
    BY <2>1, <2>2, <2>3
<1>13. link' \in [Nodes \X Nodes -> Seq(Parcel)]
  <2>1. link' = [pair \in Nodes \X Nodes |-> link'[pair]]
    BY <1>8
  <2>2. \A pair \in Nodes \X Nodes : link'[pair] \in Seq(Parcel)
    BY <1>12
  <2> QED
    BY <2>1, <2>2
<1> QED
  BY <1>2, <1>9, <1>12, <1>13 DEF RoomInv

LEMMA RoomStutters == RoomInv /\ UNCHANGED <<sent, history, link, knows>> => RoomInv'
<1> SUFFICES ASSUME RoomInv, UNCHANGED <<sent, history, link, knows>> PROVE RoomInv'
  OBVIOUS
<1>1. \A k \in Nodes : Permitted(k)' = Permitted(k) /\ Carried(k)' = Carried(k)
  BY DEF Permitted, Carried
<1>2. /\ \A k \in Nodes : history'[k] \in Seq(Permitted(k)')
      /\ \A k \in Nodes : knows'[k] \subseteq Permitted(k)'
      /\ \A j, k \in Nodes : link'[<<j, k>>] \in Seq(Carried(k)')
  BY <1>1 DEF RoomInv
<1> QED
  BY <1>2 DEF RoomInv

LEMMA RoomSteps == RoomInv /\ ConversationNext => RoomInv'
<1> SUFFICES ASSUME RoomInv, NEW n \in Nodes,
                    \/ Broadcast(n)
                    \/ \E topic \in Topics : SubscribeTopic(n, topic) \/ UnsubscribeTopic(n, topic)
                    \/ \E m \in Nodes :
                         \/ Send(n, m) \/ HandleIncoming(m, n)
                         \/ RequestHistory(n, m) \/ HistoryRequested(m, n) \/ ReplayHeard(m, n)
             PROVE  RoomInv'
  BY DEF ConversationNext
<1>1. CASE Broadcast(n)
  BY <1>1, RoomLeaves DEF Broadcast
<1>2. ASSUME NEW topic \in Topics, SubscribeTopic(n, topic) \/ UnsubscribeTopic(n, topic)
      PROVE  RoomInv'
  BY <1>2, RoomStutters DEF SubscribeTopic, UnsubscribeTopic
<1>3. ASSUME NEW m \in Nodes, Send(n, m) PROVE RoomInv'
  BY <1>3, RoomLeaves DEF Send
<1> QED
  BY <1>1, <1>2, <1>3, RoomHears, RoomAsked, RoomAnswers

LEMMA RoomSafe == RoomInv => DirectStaysPrivate
<1> SUFFICES ASSUME RoomInv, NEW n \in Nodes, NEW id \in knows[n] \cup ToSet(history[n])
             PROVE  n = sent[id].from \/ sent[id].to \in {Everybody, n}
  BY DEF DirectStaysPrivate
<1>1. id \in Permitted(n)
  BY DEF RoomInv, ToSet
<1> QED
  BY <1>1 DEF Permitted

(***************************************************************************)
(* What an agent is told of a peer.  Unless the last notice due was not    *)
(* stored, it remembers what it was told last exactly while that was not   *)
(* that the peer left; the last thing on an open channel, or else what was *)
(* told, is the profile of now, unless what came last was rejected.        *)
(***************************************************************************)
Said == [shape : {"announce", "skill_update"}, profile : Profiles]
Notice == [kind : {"peer_discovered", "peer_updated", "peer_left"}, profile : Profiles,
           gap : BOOLEAN]

NoticesTypeOK ==
  /\ joined \in BOOLEAN /\ unannounced \in BOOLEAN /\ channel \in BOOLEAN /\ listening \in BOOLEAN
  /\ olderHeld \in BOOLEAN /\ unheard \in BOOLEAN /\ notStored \in BOOLEAN
  /\ profile \in Profiles
  /\ onChannel \in Seq(Said) /\ notices \in Seq(Notice)
  /\ fingerprint \in Said \cup {NoFingerprint}

Remembers ==
  IF fingerprint = NoFingerprint THEN notices = <<>> \/ LastNotice.kind = "peer_left"
  ELSE /\ notices # <<>> /\ LastNotice.kind # "peer_left"
       /\ LastNotice.profile = fingerprint.profile

LeftOnce ==
  \A i \in DOMAIN notices : notices[i].kind = "peer_left" =>
    notices[i].gap \/ (i > 1 /\ notices[i - 1].kind # "peer_left")

\* What has come or is to come on the channel.
Arrives ==
  /\ ~channel => onChannel = <<>>
  /\ channel /\ olderHeld => onChannel # <<>> \/ unheard
  /\ channel /\ ~notStored /\ notices # <<>> /\ fingerprint = NoFingerprint =>
       onChannel # <<>> \/ unheard
  /\ channel /\ ~unannounced =>
       IF onChannel # <<>> THEN onChannel[Len(onChannel)].profile = profile
       ELSE unheard \/ (fingerprint # NoFingerprint => fingerprint.profile = profile)

NoticesInv ==
  /\ NoticesTypeOK /\ LeftOnce /\ Arrives
  /\ ~notStored => Remembers
  /\ ~channel /\ ~olderHeld => fingerprint = NoFingerprint
  /\ ~listening => notices = <<>> /\ fingerprint = NoFingerprint

LEMMA SaidFields ==
  ASSUME NEW shape \in {"announce", "skill_update"}, NEW v \in Profiles
  PROVE  LET said2 == [shape |-> shape, profile |-> v]
         IN said2 \in Said /\ said2.shape = shape /\ said2.profile = v
BY DEF Said

LEMMA SaidSomething ==
  ASSUME NEW x \in Said PROVE x # NoFingerprint /\ x.profile \in Profiles
<1>1. x.shape # "none" /\ x.profile \in Profiles
  BY DEF Said
<1> QED
  BY <1>1 DEF NoFingerprint

Stored(kind, about) ==
  /\ notStored' \in BOOLEAN /\ notices' \in Seq(Notice) /\ LeftOnce'
  /\ notStored' => notices' = notices
  /\ ~notStored' => notices' # <<>> /\ LastNotice'.kind = kind /\ LastNotice'.profile = about

\* A notice that is due: that the peer left is due only after another notice.
LEMMA NoticeStored ==
  ASSUME NoticesInv, NEW kind \in {"peer_discovered", "peer_updated", "peer_left"},
         NEW about \in Profiles, StoreNotice(kind, about),
         kind = "peer_left" => notStored \/ (notices # <<>> /\ LastNotice.kind # "peer_left")
  PROVE  Stored(kind, about)
<1>1. CASE UNCHANGED notices /\ notStored' = TRUE
  BY <1>1 DEF NoticesInv, NoticesTypeOK, LeftOnce, Stored
<1>2. CASE /\ notices' = Append(notices, [kind |-> kind, profile |-> about, gap |-> notStored])
           /\ notStored' = FALSE
  <2>1. PICK notice \in Notice :
          /\ notice = [kind |-> kind, profile |-> about, gap |-> notStored]
          /\ notice.kind = kind /\ notice.profile = about /\ notice.gap = notStored
    <3>1. [kind |-> kind, profile |-> about, gap |-> notStored] \in Notice
      BY DEF Notice, NoticesInv, NoticesTypeOK
    <3>2. LET notice == [kind |-> kind, profile |-> about, gap |-> notStored]
          IN notice.kind = kind /\ notice.profile = about /\ notice.gap = notStored
      OBVIOUS
    <3> QED
      BY <3>1, <3>2
  <2>2. /\ notices \in Seq(Notice) /\ notices' = Append(notices, notice)
        /\ notices' \in Seq(Notice) /\ Len(notices') = Len(notices) + 1
        /\ Len(notices) \in Nat /\ DOMAIN notices = 1 .. Len(notices)
        /\ DOMAIN notices' = 1 .. Len(notices) + 1
        /\ notices'[Len(notices) + 1] = notice /\ \A i \in DOMAIN notices : notices'[i] = notices[i]
    BY <1>2, <2>1 DEF NoticesInv, NoticesTypeOK
  <2>3. notices' # <<>> /\ LastNotice' = notice
    BY <2>2 DEF LastNotice
  <2>4. ASSUME NEW i \in DOMAIN notices', notices'[i].kind = "peer_left", ~notices'[i].gap
        PROVE  i > 1 /\ notices'[i - 1].kind # "peer_left"
    <3>1. CASE i \in DOMAIN notices
      <4>1. i > 1 /\ notices[i - 1].kind # "peer_left"
        BY <2>2, <2>4, <3>1 DEF NoticesInv, LeftOnce
      <4>2. i - 1 \in DOMAIN notices
        BY <2>2, <3>1, <4>1
      <4> QED
        BY <2>2, <4>1, <4>2
    <3>2. CASE i = Len(notices) + 1
      <4>1. notices # <<>> /\ LastNotice.kind # "peer_left"
        BY <2>1, <2>2, <2>4, <3>2
      <4>2. Len(notices) \in DOMAIN notices /\ Len(notices) > 0
        BY <2>2, <4>1
      <4> QED
        BY <2>2, <3>2, <4>1, <4>2 DEF LastNotice
    <3> QED
      BY <2>2, <3>1, <3>2
  <2> QED
    BY <1>2, <2>1, <2>2, <2>3, <2>4 DEF LeftOnce, Stored
<1> QED
  BY <1>1, <1>2 DEF StoreNotice

LEMMA Nothings == <<>> \in Seq(Said) /\ <<>> \in Seq(Notice)
OBVIOUS

LEMMA NoticesStart == NoticesInit => NoticesInv
<1> SUFFICES ASSUME NoticesInit PROVE NoticesInv
  OBVIOUS
<1>1. NoticesTypeOK
  <2>1. onChannel \in Seq(Said) /\ notices \in Seq(Notice)
    BY Nothings DEF NoticesInit
  <2> QED
    BY <2>1 DEF NoticesInit, NoticesTypeOK
<1> QED
  BY <1>1 DEF NoticesInit, NoticesInv, Remembers, LeftOnce, Arrives

\* An announce on a channel that has just opened, or taken the place of another.
LEMMA NoticesAnnounced ==
  ASSUME NoticesInv, channel' = TRUE, Announces, olderHeld' \in BOOLEAN,
         UNCHANGED <<profile, joined, unheard, listening, fingerprint, notices, notStored>>
  PROVE  NoticesInv'
<1>1. PICK x \in Said : x = [shape |-> "announce", profile |-> profile] /\ x.profile = profile
  BY SaidFields DEF NoticesInv, NoticesTypeOK
<1>2. /\ onChannel' = <<x>> /\ onChannel' \in Seq(Said) /\ onChannel' # <<>>
      /\ onChannel'[Len(onChannel')] = x /\ unannounced' = FALSE
  BY <1>1 DEF Announces
<1>3. NoticesTypeOK'
  BY <1>2 DEF NoticesInv, NoticesTypeOK
<1>4. Arrives'
  BY <1>1, <1>2 DEF Arrives
<1> QED
  BY <1>3, <1>4 DEF NoticesInv, Remembers, LeftOnce, LastNotice

LEMMA NoticesUpdated ==
  ASSUME NoticesInv, NEW v \in Profiles, UpdateProfile(v) PROVE NoticesInv'
<1>1. /\ profile' = v /\ unannounced' = (channel /\ ~joined)
      /\ UNCHANGED <<joined, channel, olderHeld, unheard, listening, fingerprint, notices, notStored>>
  BY DEF UpdateProfile
<1>2. (~notStored => Remembers)' /\ LeftOnce'
  BY <1>1 DEF NoticesInv, Remembers, LeftOnce, LastNotice
<1>3. CASE joined /\ channel
  <2>1. PICK x \in Said : x = [shape |-> "skill_update", profile |-> v] /\ x.profile = v
    BY SaidFields
  <2>2. /\ onChannel' = Append(onChannel, x) /\ onChannel' \in Seq(Said) /\ onChannel' # <<>>
        /\ onChannel'[Len(onChannel')] = x
    BY <1>3, <2>1 DEF UpdateProfile, BroadcastSkillUpdate, NoticesInv, NoticesTypeOK
  <2>3. NoticesTypeOK'
    BY <1>1, <1>3, <2>2 DEF NoticesInv, NoticesTypeOK
  <2>4. Arrives'
    BY <1>1, <1>3, <2>1, <2>2 DEF Arrives
  <2> QED
    BY <1>1, <1>2, <2>3, <2>4 DEF NoticesInv
<1>4. CASE ~(joined /\ channel)
  <2>1. onChannel' = onChannel
    BY <1>4 DEF UpdateProfile, BroadcastSkillUpdate
  <2>2. NoticesTypeOK'
    BY <1>1, <1>4, <2>1 DEF NoticesInv, NoticesTypeOK
  <2>3. Arrives'
    BY <1>1, <1>4, <2>1 DEF NoticesInv, Arrives
  <2> QED
    BY <1>1, <1>2, <2>2, <2>3 DEF NoticesInv
<1> QED
  BY <1>3, <1>4

LEMMA NoticesHeard ==
  ASSUME NoticesInv, NEW shape \in {"announce", "skill_update"}, Heard(shape) PROVE NoticesInv'
<1> DEFINE x == Head(onChannel)
<1>1. /\ onChannel # <<>> /\ onChannel' = Tail(onChannel) /\ unheard' = olderHeld
      /\ UNCHANGED <<profile, joined, unannounced, channel, olderHeld, listening>>
  BY DEF Heard
<1>2. channel
  BY <1>1 DEF NoticesInv, Arrives
<1>3. /\ x \in Said /\ onChannel' \in Seq(Said) /\ x # NoFingerprint /\ x.profile \in Profiles
      /\ onChannel' = <<>> => onChannel[Len(onChannel)] = x
      /\ onChannel' # <<>> => onChannel'[Len(onChannel')] = onChannel[Len(onChannel)]
  <2>1. onChannel \in Seq(Said) /\ onChannel # <<>> /\ onChannel' = Tail(onChannel)
    BY <1>1 DEF NoticesInv, NoticesTypeOK
  <2>2. x \in Said
    BY <2>1
  <2> QED
    BY <2>1, <2>2, SaidSomething
<1>4. ~unannounced => onChannel[Len(onChannel)].profile = profile
  BY <1>1, <1>2 DEF NoticesInv, Arrives
<1>5. CASE ~(listening /\ ~olderHeld)
  <2>1. UNCHANGED <<fingerprint, notices, notStored>>
    BY <1>5 DEF Heard
  <2>2. NoticesTypeOK'
    BY <1>1, <1>3, <2>1 DEF NoticesInv, NoticesTypeOK
  <2>3. Arrives'
    BY <1>1, <1>2, <1>3, <1>4, <1>5, <2>1 DEF NoticesInv, Arrives
  <2> QED
    BY <1>1, <2>1, <2>2, <2>3 DEF NoticesInv, Remembers, LeftOnce, LastNotice
<1>6. CASE listening /\ ~olderHeld
  <2>1. /\ fingerprint' = x /\ (~notStored => Remembers)' /\ LeftOnce'
        /\ notices' \in Seq(Notice) /\ notStored' \in BOOLEAN
    <3>1. RecordPeerNotice(x)
      BY <1>6 DEF Heard
    <3> HIDE DEF x
    <3>2. CASE x = fingerprint
      <4>1. UNCHANGED <<fingerprint, notices, notStored>>
        BY <3>1, <3>2 DEF RecordPeerNotice
      <4> QED
        BY <3>2, <4>1 DEF NoticesInv, NoticesTypeOK, Remembers, LeftOnce, LastNotice
    <3>3. CASE x # fingerprint
      <4>1. PICK v \in Profiles : v = x.profile
        BY <1>3
      <4>2. PICK kind \in {"peer_discovered", "peer_updated", "peer_left"} :
              kind # "peer_left" /\ StoreNotice(kind, v) /\ fingerprint' = x
        BY <3>1, <3>3, <4>1 DEF RecordPeerNotice
      <4>3. Stored(kind, v)
        BY <4>2, NoticeStored
      <4> QED
        BY <1>3, <4>1, <4>2, <4>3 DEF Remembers, Stored
    <3> QED
      BY <3>2, <3>3
  <2> HIDE DEF x
  <2>2. NoticesTypeOK'
    BY <1>1, <1>3, <2>1 DEF NoticesInv, NoticesTypeOK
  <2>3. Arrives'
    BY <1>1, <1>2, <1>3, <1>4, <1>6, <2>1 DEF Arrives
  <2> QED
    BY <1>1, <1>2, <1>6, <2>1, <2>2, <2>3 DEF NoticesInv
<1> QED
  BY <1>5, <1>6

\* The close of a channel is told: of the one that is open, or of the older one held.
LEMMA NoticesLeft ==
  ASSUME NoticesInv, PeerLeft
  PROVE  /\ fingerprint' = NoFingerprint /\ (~notStored => Remembers)' /\ LeftOnce'
         /\ notices' \in Seq(Notice) /\ notStored' \in BOOLEAN
         /\ ~listening => UNCHANGED <<notices, fingerprint, notStored>>
<1>1. CASE listening /\ fingerprint # NoFingerprint
  <2>1. PICK v \in Profiles : v = fingerprint.profile
    BY <1>1, SaidSomething DEF NoticesInv, NoticesTypeOK
  <2>2. StoreNotice("peer_left", v) /\ fingerprint' = NoFingerprint
    BY <1>1, <2>1 DEF PeerLeft
  <2>3. Stored("peer_left", v)
    <3>1. notStored \/ (notices # <<>> /\ LastNotice.kind # "peer_left")
      BY <1>1 DEF NoticesInv, Remembers
    <3> QED
      BY <2>2, <3>1, NoticeStored
  <2> QED
    BY <1>1, <2>2, <2>3 DEF Remembers, Stored
<1>2. CASE ~(listening /\ fingerprint # NoFingerprint)
  <2>1. UNCHANGED <<fingerprint, notices, notStored>> /\ fingerprint = NoFingerprint
    BY <1>2 DEF PeerLeft, NoticesInv
  <2> QED
    BY <2>1 DEF NoticesInv, NoticesTypeOK, Remembers, LeftOnce, LastNotice
<1> QED
  BY <1>1, <1>2

LEMMA NoticesStutter == NoticesInv /\ UNCHANGED noticesVars => NoticesInv'
BY DEF NoticesInv, NoticesTypeOK, Remembers, LeftOnce, LastNotice, Arrives, noticesVars

LEMMA NoticesSteps == NoticesInv /\ NoticesNext => NoticesInv'
<1> SUFFICES ASSUME NoticesInv, NoticesNext PROVE NoticesInv'
  OBVIOUS
<1>1. CASE ChannelOpens
  <2>1. olderHeld' \in BOOLEAN
    BY <1>1 DEF ChannelOpens
  <2> QED
    BY <1>1, <2>1, NoticesAnnounced DEF ChannelOpens
<1>2. CASE ConnectEnds
  <2>1. NoticesTypeOK'
    BY <1>2 DEF ConnectEnds, NoticesInv, NoticesTypeOK
  <2> QED
    BY <1>2, <2>1 DEF ConnectEnds, NoticesInv, Remembers, LeftOnce, LastNotice, Arrives
<1>3. CASE Listens
  <2>1. NoticesTypeOK'
    BY <1>3 DEF Listens, NoticesInv, NoticesTypeOK
  <2> QED
    BY <1>3, <2>1 DEF Listens, NoticesInv, Remembers, LeftOnce, LastNotice, Arrives
<1>4. CASE AnnounceHeard \/ SkillUpdateHeard
  BY <1>4, NoticesHeard DEF AnnounceHeard, SkillUpdateHeard
<1>5. CASE ConnectionEnds
  <2>1. /\ channel /\ channel' = FALSE /\ onChannel' = <<>>
        /\ UNCHANGED <<profile, joined, unannounced, olderHeld, unheard, listening>>
    BY <1>5 DEF ConnectionEnds
  <2>2. CASE olderHeld
    <3>1. UNCHANGED <<fingerprint, notices, notStored>>
      BY <1>5, <2>2 DEF ConnectionEnds
    <3>2. NoticesTypeOK'
      BY <2>1, <3>1, Nothings DEF NoticesInv, NoticesTypeOK
    <3> QED
      BY <2>1, <2>2, <3>1, <3>2 DEF NoticesInv, Remembers, LeftOnce, LastNotice, Arrives
  <2>3. CASE ~olderHeld
    <3>1. PeerLeft
      BY <1>5, <2>3 DEF ConnectionEnds
    <3>2. /\ fingerprint' = NoFingerprint /\ (~notStored => Remembers)' /\ LeftOnce'
          /\ notices' \in Seq(Notice) /\ notStored' \in BOOLEAN
          /\ ~listening => UNCHANGED <<notices, fingerprint, notStored>>
      BY <3>1, NoticesLeft
    <3>3. NoticesTypeOK'
      BY <2>1, <3>2, Nothings DEF NoticesInv, NoticesTypeOK
    <3> QED
      BY <2>1, <3>2, <3>3 DEF NoticesInv, Arrives
  <2> QED
    BY <2>2, <2>3
<1>6. CASE AgentRestarts
  <2>1. NoticesTypeOK'
    <3>1. /\ channel' \in BOOLEAN /\ listening' \in BOOLEAN /\ olderHeld' \in BOOLEAN
          /\ unheard' \in BOOLEAN /\ notStored' \in BOOLEAN
          /\ onChannel' \in Seq(Said) /\ notices' \in Seq(Notice)
      BY <1>6, Nothings DEF AgentRestarts
    <3> QED
      BY <1>6, <3>1 DEF AgentRestarts, NoticesInv, NoticesTypeOK
  <2> QED
    BY <1>6, <2>1 DEF AgentRestarts, NoticesInv, Remembers, LeftOnce, Arrives
<1>7. ASSUME NEW v \in Profiles, UpdateProfile(v) PROVE NoticesInv'
  BY <1>7, NoticesUpdated
<1>8. CASE ConnectionReplaced
  <2>1. channel' = TRUE
    BY <1>8 DEF ConnectionReplaced, NoticesInv, NoticesTypeOK
  <2> QED
    BY <1>8, <2>1, NoticesAnnounced DEF ConnectionReplaced
<1>9. CASE OldConnectionEnds
  <2>1. /\ olderHeld /\ olderHeld' = FALSE /\ PeerLeft
        /\ UNCHANGED <<profile, joined, unannounced, channel, onChannel, unheard, listening>>
    BY <1>9 DEF OldConnectionEnds
  <2>2. /\ fingerprint' = NoFingerprint /\ (~notStored => Remembers)' /\ LeftOnce'
        /\ notices' \in Seq(Notice) /\ notStored' \in BOOLEAN
        /\ ~listening => UNCHANGED <<notices, fingerprint, notStored>>
    BY <2>1, NoticesLeft
  <2>3. NoticesTypeOK'
    BY <2>1, <2>2 DEF NoticesInv, NoticesTypeOK
  <2> QED
    BY <2>1, <2>2, <2>3 DEF NoticesInv, Arrives
<1>10. CASE StreamNamed
  <2>1. NoticesTypeOK'
    BY <1>10 DEF StreamNamed, NoticesInv, NoticesTypeOK
  <2> QED
    BY <1>10, <2>1 DEF StreamNamed, NoticesInv, Remembers, LeftOnce, LastNotice, Arrives
<1> QED
  BY <1>1, <1>2, <1>3, <1>4, <1>5, <1>6, <1>7, <1>8, <1>9, <1>10 DEF NoticesNext

LEMMA NoticesSafe == NoticesInv => NoticesTellWhoIsHere
BY DEF NoticesInv, NoticesTypeOK, Remembers, LeftOnce, Arrives, NoticesTellWhoIsHere

(***************************************************************************)
(* The command fetch.  A file that is saved makes the promise complete,    *)
(* unless it could not be opened; the timer has seen no count before the   *)
(* last chunk came, or no count of more chunks than there are.             *)
(***************************************************************************)
FetchTypeOK ==
  /\ have \in 0 .. Chunks /\ now \in Nat /\ lastChunks \in 0 .. NoCount
  /\ lastProgressAt \in Nat /\ gainedAt \in 0 .. now
  /\ stage \in Stages /\ outcome \in {"pending", "complete", "null"}
  /\ exit \in {0, 1, 130, None} /\ offers \subseteq Files
  /\ saved \in BOOLEAN /\ unseeded \in BOOLEAN /\ stalled \in BOOLEAN

FetchReports ==
  /\ stage \in {"joining", "looking"} => outcome = "pending" /\ ~saved
  /\ stage = "seeding" => outcome = "complete"
  /\ outcome = "complete" => saved
  /\ saved => unseeded \/ outcome = "complete"
  /\ exit # None => stage = "ended"
  /\ ExitTellsTheTruth

FetchWatches ==
  /\ Downloading => lastChunks <= have \/ lastChunks = NoCount
  /\ Downloading /\ have = lastChunks => gainedAt <= lastProgressAt
  /\ stalled => stage \in {"waiting", "ended"} /\ outcome = "null"
  /\ SteadyNeverCut

FetchInv == FetchTypeOK /\ FetchReports /\ FetchWatches /\ OneFileFetched

LEMMA FetchStarts == FetchInit => FetchInv
<1> SUFFICES ASSUME FetchInit PROVE FetchInv
  OBVIOUS
<1>1. ~saved /\ ~unseeded /\ ~stalled /\ stage = "joining" /\ outcome = "pending" /\ exit = None
  BY DEF FetchInit
<1>2. FetchTypeOK
  <2>1. saved \in BOOLEAN /\ unseeded \in BOOLEAN /\ stalled \in BOOLEAN
    BY DEF FetchInit
  <2> QED
    BY <2>1, FetchAssumption DEF FetchInit, FetchTypeOK, Stages, NoCount
<1>3. FetchReports
  BY <1>1 DEF FetchReports, ExitTellsTheTruth, None
<1>4. FetchWatches
  BY <1>1 DEF FetchWatches, SteadyNeverCut, Downloading
<1>5. OneFileFetched
  BY <1>1 DEF OneFileFetched
<1> QED
  BY <1>2, <1>3, <1>4, <1>5 DEF FetchInv

\* How a completed session leaves what the command looks at.
Completions ==
  \/ have' = Chunks /\ saved' /\ unseeded' = unseeded /\ outcome' = "complete"
  \/ have' \in {0, have} /\ saved' = saved /\ unseeded' = unseeded /\ outcome' = "null"
  \/ have' = Chunks /\ saved' /\ unseeded' /\ outcome' = "pending"

LEMMA SessionCompleted ==
  ASSUME FetchInv, completeSession, outcome = "pending"
  PROVE  Completions /\ saved' \in BOOLEAN /\ unseeded' \in BOOLEAN
<1>0. saved \in BOOLEAN /\ unseeded \in BOOLEAN
  BY DEF FetchInv, FetchTypeOK
<1>1. CASE /\ have' = Chunks /\ saved' = TRUE /\ outcome' = "complete"
           /\ UNCHANGED <<failed, unseeded>>
  BY <1>0, <1>1 DEF Completions
<1>2. CASE /\ have' = 0 /\ outcome' = "null" /\ failed' = TRUE
           /\ UNCHANGED <<saved, unseeded>>
  BY <1>0, <1>2 DEF Completions
<1>3. CASE /\ have' = Chunks /\ saved' = TRUE /\ unseeded' = TRUE
           /\ UNCHANGED <<outcome, failed>>
  BY <1>3 DEF Completions
<1> QED
  BY <1>1, <1>2, <1>3 DEF completeSession

\* What a query resolves to is one file.
LEMMA ResolvedIsOne ==
  ASSUME NEW text, NEW pool \in SUBSET Files, Resolved(text, pool) # {}
  PROVE  \E f \in Files : Resolved(text, pool) = {f} /\ text \in {f.id, f.name, f.prefix}
<1> DEFINE exact == {f \in pool : f.id = text}
           byName == {f \in pool : f.name = text}
           byPrefix == {f \in pool : f.prefix = text}
<1>1. IsFiniteSet(byName) /\ IsFiniteSet(byPrefix)
  BY FetchAssumption, FS_Subset
<1>2. CASE exact # {}
  <2>1. PICK f \in exact : TRUE
    BY <1>2
  <2>2. exact = {f} /\ f \in Files /\ f.id = text
    BY <2>1, FetchAssumption
  <2> QED
    BY <1>2, <2>2 DEF Resolved
<1>3. CASE exact = {} /\ Cardinality(byName) = 1
  <2>1. PICK f : byName = {f}
    BY <1>1, <1>3, FS_Singleton
  <2>2. f \in Files /\ f.name = text
    BY <2>1
  <2> QED
    BY <1>3, <2>1, <2>2 DEF Resolved
<1>4. CASE exact = {} /\ Cardinality(byName) # 1
  <2>1. Cardinality(byPrefix) = 1 /\ Resolved(text, pool) = byPrefix
    BY <1>4 DEF Resolved
  <2>2. PICK f : byPrefix = {f}
    BY <1>1, <2>1, FS_Singleton
  <2>3. f \in Files /\ f.prefix = text
    BY <2>2
  <2> QED
    BY <2>1, <2>2, <2>3
<1> QED
  BY <1>2, <1>3, <1>4

LEMMA FetchFound == ASSUME FetchInv, Found PROVE FetchInv'
<1>1. /\ stage = "looking" /\ manifest' = Resolved(query, offers)
      /\ UNCHANGED <<query, offers, now, stalled>> /\ Resolved(query, offers) # {}
  BY DEF Found
<1>2. OneFileFetched'
  BY <1>1, ResolvedIsOne DEF FetchInv, FetchTypeOK, OneFileFetched
<1>3. ~stalled /\ outcome = "pending" /\ ~saved /\ exit = None
  BY <1>1 DEF FetchInv, FetchReports, FetchWatches
<1>4. CASE stage' = "waiting" /\ Watches /\ exit' = exit
  <2>1. gainedAt' = now /\ lastChunks' = NoCount /\ lastProgressAt' = now
    BY <1>4 DEF Watches
  <2>2. \/ \E n \in 0 .. Chunks - 1 : have' = n /\ UNCHANGED <<outcome, saved, failed, unseeded>>
        \/ completeSession
    BY <1>1, <1>4 DEF Found, Ends
  <2>3. /\ have' \in 0 .. Chunks
        /\ \/ outcome' = "pending" /\ saved' = saved /\ unseeded' = unseeded
           \/ Completions
    BY <1>3, <2>2, SessionCompleted, FetchAssumption DEF Completions, FetchInv, FetchTypeOK
  <2>4. saved' \in BOOLEAN /\ unseeded' \in BOOLEAN /\ outcome' \in {"pending", "complete", "null"}
    BY <1>3, <2>2, SessionCompleted DEF Completions, FetchInv, FetchTypeOK
  <2>5. FetchTypeOK'
    BY <1>1, <1>4, <2>1, <2>3, <2>4, FetchAssumption DEF FetchInv, FetchTypeOK, Stages, NoCount
  <2>6. FetchReports'
    BY <1>3, <1>4, <2>3 DEF FetchReports, ExitTellsTheTruth, None, Completions
  <2>7. FetchWatches'
    BY <1>1, <1>3, <1>4, <2>1, <2>3, FetchAssumption DEF FetchWatches, SteadyNeverCut, NoCount
  <2> QED
    BY <1>2, <2>5, <2>6, <2>7 DEF FetchInv
<1>5. CASE /\ Ends(1) /\ outcome' = "null"
           /\ UNCHANGED <<have, saved, lastChunks, lastProgressAt, gainedAt, unseeded>>
  <2>1. stage' = "ended" /\ exit' = 1
    BY <1>5 DEF Ends
  <2>2. FetchTypeOK'
    BY <1>1, <1>5, <2>1 DEF FetchInv, FetchTypeOK, Stages, NoCount
  <2>3. FetchReports'
    BY <1>3, <1>5, <2>1 DEF FetchReports, ExitTellsTheTruth, None
  <2>4. FetchWatches'
    BY <1>1, <1>3, <1>5, <2>1 DEF FetchWatches, SteadyNeverCut, Downloading
  <2> QED
    BY <1>2, <2>2, <2>3, <2>4 DEF FetchInv
<1> QED
  BY <1>4, <1>5 DEF Found

LEMMA FetchEnds ==
  ASSUME FetchInv, stage' \in {"ended", "seeding"}, stage # "ended", exit' \in {0, 1, 130, None},
         stage' = "ended" \/ (outcome = "complete" /\ exit' = None /\ stage = "waiting"),
         exit' = 0 => saved, exit' = 1 => ~saved \/ unseeded,
         UNCHANGED <<query, offers, manifest, have, now, lastChunks, lastProgressAt, outcome, stalled,
                     saved, gainedAt, unseeded>>
  PROVE  FetchInv'
<1>1. FetchTypeOK'
  BY DEF FetchInv, FetchTypeOK, Stages, NoCount
<1>2. FetchReports'
  BY DEF FetchInv, FetchReports, ExitTellsTheTruth
<1>3. FetchWatches'
  BY DEF FetchInv, FetchWatches, SteadyNeverCut, Downloading, NoCount
<1>4. OneFileFetched'
  BY DEF FetchInv, OneFileFetched
<1> QED
  BY <1>1, <1>2, <1>3, <1>4 DEF FetchInv

LEMMA FetchChunk == ASSUME FetchInv, ChunkVerified \/ StartFails PROVE FetchInv'
<1>1. /\ Downloading /\ UNCHANGED <<query, offers, stage, manifest, now, lastChunks, lastProgressAt,
                                   stalled, exit>>
      /\ have < Chunks
  BY FetchAssumption DEF ChunkVerified, StartFails
<1>2. stage = "waiting" /\ outcome = "pending" /\ ~stalled
  BY <1>1 DEF Downloading, FetchInv, FetchWatches
<1>3. /\ \/ have' = have + 1 /\ have' < Chunks /\ outcome' = "pending" /\ saved' = saved
            /\ unseeded' = unseeded
         \/ Completions
      /\ saved' \in BOOLEAN /\ unseeded' \in BOOLEAN
      /\ gainedAt' \in {now, gainedAt} /\ (outcome' = "pending" => gainedAt' = now)
  <2>1. CASE ChunkVerified
    <3>1. CASE completeSession
      BY <1>2, <2>1, <3>1, SessionCompleted DEF ChunkVerified
    <3>2. CASE ~completeSession
      BY <1>2, <2>1, <3>2 DEF ChunkVerified, FetchInv, FetchTypeOK
    <3> QED
      BY <3>1, <3>2
  <2>2. CASE StartFails
    BY <2>2 DEF StartFails, Completions, FetchInv, FetchTypeOK
  <2> QED
    BY <2>1, <2>2
<1>4. FetchTypeOK'
  <2>1. have' \in 0 .. Chunks /\ outcome' \in {"pending", "complete", "null"} /\ gainedAt' \in 0 .. now'
    <3>1. CASE Completions
      BY <1>1, <1>3, <3>1, FetchAssumption DEF FetchInv, FetchTypeOK, Completions
    <3>2. CASE have' = have + 1 /\ have' < Chunks /\ outcome' = "pending"
      BY <1>1, <1>3, <3>2, FetchAssumption DEF FetchInv, FetchTypeOK
    <3> QED
      BY <1>3, <3>1, <3>2
  <2> QED
    BY <1>1, <1>3, <2>1 DEF FetchInv, FetchTypeOK, NoCount
<1>5. FetchReports'
  <2>1. stage' = "waiting" /\ exit' = None
    BY <1>1, <1>2 DEF FetchInv, FetchReports
  <2>2. saved => unseeded
    BY <1>2 DEF FetchInv, FetchReports
  <2>3. (outcome' = "complete" => saved') /\ (saved' => unseeded' \/ outcome' = "complete")
    <3>1. CASE have' = Chunks /\ saved' /\ unseeded' = unseeded /\ outcome' = "complete"
      BY <3>1
    <3>2. CASE have' \in {0, have} /\ saved' = saved /\ unseeded' = unseeded /\ outcome' = "null"
      BY <2>2, <3>2
    <3>3. CASE have' = Chunks /\ saved' /\ unseeded' /\ outcome' = "pending"
      BY <3>3
    <3>4. CASE outcome' = "pending" /\ saved' = saved /\ unseeded' = unseeded
      BY <2>2, <3>4
    <3> QED
      BY <1>3, <3>1, <3>2, <3>3, <3>4 DEF Completions
  <2> QED
    BY <2>1, <2>3 DEF FetchReports, ExitTellsTheTruth, None
<1>6. FetchWatches'
  <2>1. ~stalled' /\ Downloading' = (outcome' = "pending")
    BY <1>1, <1>2 DEF Downloading
  <2>2. ASSUME outcome' = "pending"
        PROVE  have' > have /\ have' # NoCount /\ (lastChunks <= have \/ lastChunks = NoCount)
    BY <1>1, <1>3, <2>2, FetchAssumption
       DEF FetchInv, FetchTypeOK, FetchWatches, NoCount, Completions
  <2>3. ASSUME outcome' = "pending"
        PROVE  /\ lastChunks' # have' /\ (lastChunks' <= have' \/ lastChunks' = NoCount)
    BY <1>1, <1>4, <2>2, <2>3, FetchAssumption DEF FetchInv, FetchTypeOK, NoCount
  <2> QED
    BY <2>1, <2>3 DEF FetchWatches, SteadyNeverCut, NoCount
<1>7. OneFileFetched'
  BY <1>1 DEF FetchInv, OneFileFetched
<1> QED
  BY <1>4, <1>5, <1>6, <1>7 DEF FetchInv

LEMMA FetchTime == ASSUME FetchInv, Time PROVE FetchInv'
<1>1. /\ now' = now + 1
      /\ UNCHANGED <<query, offers, stage, manifest, have, exit, saved, gainedAt, unseeded>>
  BY DEF Time
<1>2. OneFileFetched'
  BY <1>1 DEF FetchInv, OneFileFetched
<1>3. CASE UNCHANGED <<lastChunks, lastProgressAt, outcome, stalled>>
  <2>1. FetchTypeOK' /\ FetchReports'
    BY <1>1, <1>3 DEF FetchInv, FetchTypeOK, FetchReports, ExitTellsTheTruth, NoCount
  <2>2. FetchWatches'
    BY <1>1, <1>3, FetchAssumption
       DEF FetchInv, FetchTypeOK, FetchWatches, SteadyNeverCut, Downloading, NoCount
  <2> QED
    BY <1>2, <2>1, <2>2 DEF FetchInv
<1>4. CASE Downloading /\ have # lastChunks /\ lastChunks' = have /\ lastProgressAt' = now + 1
           /\ UNCHANGED <<outcome, stalled>>
  <2>1. FetchTypeOK' /\ FetchReports'
    BY <1>1, <1>4, FetchAssumption
       DEF FetchInv, FetchTypeOK, FetchReports, ExitTellsTheTruth, NoCount
  <2>2. FetchWatches'
    BY <1>1, <1>4, FetchAssumption
       DEF FetchInv, FetchTypeOK, FetchWatches, SteadyNeverCut, Downloading, NoCount
  <2> QED
    BY <1>2, <2>1, <2>2 DEF FetchInv
<1>5. CASE /\ Downloading /\ have = lastChunks /\ now + 1 - lastProgressAt >= Timeout
           /\ stalled' = TRUE /\ outcome' = "null" /\ UNCHANGED <<lastChunks, lastProgressAt>>
  <2>1. FetchTypeOK' /\ FetchReports'
    BY <1>1, <1>5 DEF FetchInv, FetchTypeOK, FetchReports, ExitTellsTheTruth, NoCount, Downloading
  <2>2. now' - gainedAt' >= Timeout
    BY <1>1, <1>5, FetchAssumption DEF FetchInv, FetchTypeOK, FetchWatches
  <2>3. FetchWatches'
    BY <1>1, <1>5, <2>2 DEF FetchWatches, SteadyNeverCut, Downloading
  <2> QED
    BY <1>2, <2>1, <2>3 DEF FetchInv
<1> QED
  BY <1>3, <1>4, <1>5 DEF Time, StallTimer

LEMMA FetchStutters == FetchInv /\ UNCHANGED fetchVars => FetchInv'
BY DEF FetchInv, FetchTypeOK, FetchReports, FetchWatches, OneFileFetched, ExitTellsTheTruth,
       SteadyNeverCut, Downloading, NoCount, fetchVars

LEMMA FetchSteps == FetchInv /\ FetchNext => FetchInv'
<1> SUFFICES ASSUME FetchInv, FetchNext PROVE FetchInv'
  OBVIOUS
<1>1. CASE Joined
  BY <1>1 DEF Joined, FetchInv, FetchTypeOK, FetchReports, FetchWatches, OneFileFetched,
              ExitTellsTheTruth, SteadyNeverCut, Downloading, NoCount, Stages
<1>2. CASE Found
  BY <1>2, FetchFound
<1>3. CASE NotFound
  BY <1>3, FetchEnds DEF NotFound, Ends, FetchInv, FetchReports
<1>4. CASE Finished
  <2>1. outcome = "null" => ~saved \/ unseeded
    BY DEF FetchInv, FetchReports
  <2>2. outcome = "complete" => saved
    BY DEF FetchInv, FetchReports
  <2>3. stage = "waiting" /\ exit = None
    BY <1>4 DEF Finished, FetchInv, FetchReports
  <2> QED
    BY <1>4, <2>1, <2>2, <2>3, FetchEnds DEF Finished, Ends, None
<1>5. CASE Interrupted
  <2>1. stage = "seeding" => saved
    BY DEF FetchInv, FetchReports
  <2> QED
    BY <1>5, <2>1, FetchEnds DEF Interrupted, Ends
<1>6. CASE ChunkVerified \/ StartFails
  BY <1>6, FetchChunk
<1>7. CASE Time
  BY <1>7, FetchTime
<1>8. ASSUME NEW f \in Files, OfferComesOrGoes(f) PROVE FetchInv'
  BY <1>8 DEF OfferComesOrGoes, FetchInv, FetchTypeOK, FetchReports, FetchWatches, OneFileFetched,
              ExitTellsTheTruth, SteadyNeverCut, Downloading, NoCount
<1> QED
  BY <1>1, <1>2, <1>3, <1>4, <1>5, <1>6, <1>7, <1>8 DEF FetchNext

LEMMA FetchSafe == FetchInv => FetchTruthful
BY DEF FetchInv, FetchReports, FetchWatches, FetchTruthful

(***************************************************************************)
(* The offers.  Every way an attempt may take leaves the file wanted, in a *)
(* session or reported; and only a list of hashes that was checked, page   *)
(* by page or inline, is kept.                                             *)
(***************************************************************************)
Checked(o) == DOMAIN o = DOMAIN NoOffer /\ o.hashes \in {"none", "right"}

WaitedFor == wanted \/ session # "none" \/ reported

OffersInv ==
  /\ asked \in BOOLEAN /\ reported \in BOOLEAN /\ wanted \in BOOLEAN
  /\ asked => WaitedFor
  /\ Checked(offer)

LEMMA OffersStart == OffersInit => OffersInv
<1> SUFFICES ASSUME OffersInit PROVE OffersInv
  OBVIOUS
<1>1. asked = FALSE /\ wanted = FALSE /\ reported = FALSE /\ offer = NoOffer
  BY DEF OffersInit
<1>2. Checked(NoOffer)
  BY DEF Checked, NoOffer
<1> QED
  BY <1>1, <1>2 DEF OffersInv

LEMMA OwnChecked ==
  ASSUME NEW summary
  PROVE  Checked(OwnOffer(summary)) /\ Checked(NoOffer)
<1>1. PICK own : own = [NoOffer EXCEPT !.summary = summary, !.hashes = "right"]
  OBVIOUS
<1>2. DOMAIN own = DOMAIN NoOffer /\ own.hashes = "right"
  BY <1>1 DEF NoOffer
<1> QED
  BY <1>1, <1>2 DEF OwnOffer, Checked, NoOffer

\* Changes of an offer that leave its list of hashes.
LEMMA StillChecked ==
  ASSUME NEW o, Checked(o), NEW x, NEW y
  PROVE  /\ Checked([o EXCEPT !.fresh = x])
         /\ Checked([o EXCEPT !.cursor = x, !.fresh = y])
         /\ Checked([o EXCEPT !.pages = x, !.fresh = y])
         /\ Checked([o EXCEPT !.sources = x, !.fresh = y])
         /\ y \in {"none", "right"} => Checked([o EXCEPT !.sources = x, !.hashes = y])
         /\ y \in {"none", "right"} => Checked([o EXCEPT !.hashes = y])
BY DEF Checked, NoOffer

LEMMA AskKeeps ==
  ASSUME NEW o, Checked(o), NEW refusing, AskPages(o, refusing)
  PROVE  Checked(offer')
<1>1. CASE offer' = o
  BY <1>1
<1>2. CASE offer' # o
  <2>1. PICK x, y : offer' = [o EXCEPT !.cursor = x, !.fresh = y]
    BY <1>2 DEF AskPages
  <2> QED
    BY <2>1, StillChecked
<1> QED
  BY <1>1, <1>2

LEMMA CompletedKeeps ==
  ASSUME NEW o, Checked(o), NEW still \in BOOLEAN, reported \in BOOLEAN, Completed(o, still)
  PROVE  Checked(offer') /\ WaitedFor' /\ reported' \in BOOLEAN /\ wanted' \in BOOLEAN
<1>1. CASE Saved(o)
  BY <1>1, OwnChecked DEF Completed, Saved, NotTheFile, FinishFails, WaitedFor
<1>2. CASE FinishFails(o)
  BY <1>2, OwnChecked DEF Completed, Saved, NotTheFile, FinishFails, WaitedFor
<1>3. CASE NotTheFile(o)
  BY <1>3, OwnChecked DEF NotTheFile, WaitedFor
<1> QED
  BY <1>1, <1>2, <1>3 DEF Completed

LEMMA GoOnKeeps ==
  ASSUME NEW o, Checked(o), wanted = TRUE, reported \in BOOLEAN, GoOn(o)
  PROVE  Checked(offer') /\ WaitedFor' /\ reported' \in BOOLEAN /\ wanted' \in BOOLEAN
<1>1. CASE StartDownload(o)
  <2>1. CASE Completed(o, FALSE)
    BY <2>1, CompletedKeeps
  <2>2. CASE ~Completed(o, FALSE)
    BY <1>1, <2>2 DEF StartDownload, WaitedFor
  <2> QED
    BY <2>1, <2>2
<1>2. CASE /\ \E refusing \in SUBSET Peers : AskPages(o, refusing)
           /\ UNCHANGED <<session, wanted, reported, mishaps>>
  BY <1>2, AskKeeps DEF WaitedFor
<1> QED
  BY <1>1, <1>2 DEF GoOn

LEMMA FetchCallKeeps ==
  ASSUME OffersInv, Fetch
  PROVE  OffersInv'
<1>1. Checked(offer) /\ reported \in BOOLEAN /\ wanted \in BOOLEAN /\ asked' = TRUE
  BY DEF OffersInv, Fetch
<1>2. CASE session # "none"
  BY <1>1, <1>2 DEF Fetch, OffersInv, WaitedFor
<1>3. CASE session = "none" /\ offer.hashes = "none"
  <2>1. Checked(offer')
    BY <1>1, <1>3, AskKeeps DEF Fetch
  <2> QED
    BY <1>1, <1>3, <2>1 DEF Fetch, OffersInv, WaitedFor
<1>4. CASE session = "none" /\ offer.hashes # "none"
  <2>1. CASE Completed(offer, FALSE)
    BY <1>1, <2>1, CompletedKeeps DEF OffersInv
  <2>2. CASE ~Completed(offer, FALSE)
    BY <1>1, <1>4, <2>2 DEF Fetch, OffersInv, WaitedFor
  <2> QED
    BY <2>1, <2>2
<1> QED
  BY <1>2, <1>3, <1>4

LEMMA OfferKeeps ==
  ASSUME OffersInv, NEW p \in Peers, NEW inline \in BOOLEAN, OfferHeard(p, inline)
  PROVE  OffersInv'
<1>1. Checked(offer) /\ reported \in BOOLEAN /\ wanted \in BOOLEAN /\ asked' = asked
  BY DEF OffersInv, OfferHeard
<1>2. PICK new : new = [NoOffer EXCEPT !.summary = Summary(p)]
  OBVIOUS
<1>3. Checked(new)
  BY <1>2 DEF Checked, NoOffer
<1>4. PICK base : base = IF offer = NoOffer THEN new ELSE offer
  OBVIOUS
<1>5. Checked(base)
  BY <1>1, <1>3, <1>4
<1>6. PICK sources : sources = IF p \in ToSet(base.sources) THEN base.sources ELSE Append(base.sources, p)
  OBVIOUS
<1>7. PICK hashes : hashes = IF inline /\ base.hashes = "none" THEN "right" ELSE base.hashes
  OBVIOUS
<1>8. PICK o : o = [base EXCEPT !.sources = sources, !.hashes = hashes]
  OBVIOUS
<1>9. Checked(o)
  BY <1>5, <1>7, <1>8, StillChecked DEF Checked
<1>10. IF wanted THEN GoOn(o)
       ELSE offer' = o /\ UNCHANGED <<session, wanted, reported, requests, mishaps>>
  BY <1>2, <1>4, <1>6, <1>7, <1>8 DEF OfferHeard
<1>11. CASE wanted
  BY <1>1, <1>9, <1>10, <1>11, GoOnKeeps DEF OffersInv
<1>12. CASE ~wanted
  BY <1>1, <1>9, <1>10, <1>12 DEF OffersInv, WaitedFor
<1> QED
  BY <1>11, <1>12

LEMMA PageKeeps ==
  ASSUME OffersInv, NEW m \in answers, PageHeard(m)
  PROVE  OffersInv'
<1>1. Checked(offer) /\ reported \in BOOLEAN /\ wanted \in BOOLEAN /\ asked' = asked
  BY DEF OffersInv, PageHeard
<1>2. PICK pages : pages = [offer.pages EXCEPT ![m.page] = PageOf(m.peer)]
  OBVIOUS
<1>3. PICK fresh : fresh = offer.fresh \ {m.page}
  OBVIOUS
<1>4. PICK o : o = [offer EXCEPT !.pages = pages, !.fresh = fresh]
  OBVIOUS
<1>5. PICK cleared : cleared = [offer EXCEPT !.pages = NoPages, !.fresh = {}]
  OBVIOUS
<1>6. PICK right : right = IF \A i \in Pages : pages[i] = "right" THEN "right" ELSE "wrong"
  OBVIOUS
<1>7. PICK full : full = [cleared EXCEPT !.hashes = right]
  OBVIOUS
<1>8. Checked(o) /\ Checked(cleared)
  BY <1>1, <1>4, <1>5, StillChecked
<1>9. Whole(pages) => Checked(full)
  BY <1>6, <1>7, <1>8, StillChecked DEF Whole
<1>10. \/ UNCHANGED <<wanted, offer, session, reported>>
       \/ wanted /\ GoOn(o)
       \/ wanted /\ Whole(pages) /\ GoOn(full)
       \/ offer' = cleared /\ UNCHANGED <<wanted, session, reported>>
  BY <1>2, <1>3, <1>4, <1>5, <1>6, <1>7 DEF PageHeard
<1>11. CASE UNCHANGED <<wanted, offer, session, reported>>
  BY <1>1, <1>11 DEF OffersInv, WaitedFor
<1>12. CASE wanted /\ GoOn(o)
  BY <1>1, <1>8, <1>12, GoOnKeeps DEF OffersInv
<1>13. CASE wanted /\ Whole(pages) /\ GoOn(full)
  BY <1>1, <1>9, <1>13, GoOnKeeps DEF OffersInv
<1>14. CASE offer' = cleared /\ UNCHANGED <<wanted, session, reported>>
  BY <1>1, <1>8, <1>14 DEF OffersInv, WaitedFor
<1> QED
  BY <1>10, <1>11, <1>12, <1>13, <1>14

\* Timers, peers that come and go, lost messages: the file is wanted as before.
LEMMA OffersQuiet ==
  ASSUME OffersInv, UNCHANGED <<asked, wanted, session, reported>>, Checked(offer')
  PROVE  OffersInv'
BY DEF OffersInv, WaitedFor

LEMMA OffersSteps == OffersInv /\ OffersNext => OffersInv'
<1> SUFFICES ASSUME OffersInv, OffersNext PROVE OffersInv'
  OBVIOUS
<1>0. Checked(offer)
  BY DEF OffersInv
<1>1. CASE Fetch
  BY <1>1, FetchCallKeeps
<1>2. CASE Seed
  BY <1>2, OwnChecked DEF Seed, OffersInv, WaitedFor
<1>3. CASE Stop \/ StartAgain \/ RetryTime
  <2>1. offer' = offer \/ offer' = [offer EXCEPT !.fresh = {}]
    BY <1>3 DEF Stop, StartAgain, RetryTime
  <2>2. Checked([offer EXCEPT !.fresh = {}])
    BY <1>0, StillChecked
  <2> QED
    BY <1>0, <1>3, <2>1, <2>2, OffersQuiet DEF Stop, StartAgain, RetryTime
<1>4. CASE Pump
  <2>1. Checked(offer')
    BY <1>0, <1>4, AskKeeps DEF Pump
  <2> QED
    BY <1>4, <2>1, OffersQuiet DEF Pump
<1>5. CASE SessionCompletes
  BY <1>5, CompletedKeeps DEF SessionCompletes, OffersInv
<1>6. ASSUME NEW p \in Peers, PeerComes(p) \/ PeerGoes(p) PROVE OffersInv'
  <2>1. PICK sources : sources = SelectSeq(offer.sources, LAMBDA q : q # p)
    OBVIOUS
  <2>2. offer' = offer \/ offer' = [offer EXCEPT !.sources = sources, !.fresh = {}]
    BY <1>6, <2>1 DEF PeerComes, PeerGoes
  <2>3. Checked([offer EXCEPT !.sources = sources, !.fresh = {}])
    BY <1>0, StillChecked
  <2> QED
    BY <1>0, <1>6, <2>2, <2>3, OffersQuiet DEF PeerComes, PeerGoes
<1>7. ASSUME NEW p \in Peers, NEW inline \in BOOLEAN, OfferHeard(p, inline) PROVE OffersInv'
  BY <1>7, OfferKeeps
<1>8. ASSUME NEW m \in requests, PeerAnswers(m) \/ RequestLost(m) PROVE OffersInv'
  BY <1>0, <1>8, OffersQuiet DEF PeerAnswers, RequestLost
<1>9. ASSUME NEW m \in answers, PageHeard(m) PROVE OffersInv'
  BY <1>9, PageKeeps
<1> QED
  BY <1>1, <1>2, <1>3, <1>4, <1>5, <1>6, <1>7, <1>8, <1>9 DEF OffersNext

LEMMA OffersStutter == OffersInv /\ UNCHANGED offersVars => OffersInv'
BY DEF OffersInv, WaitedFor, offersVars

LEMMA OffersSafe == OffersInv => FetchSound
BY DEF OffersInv, WaitedFor, Checked, FetchSound

(***************************************************************************)
(* The relay.  Whatever of a sender has reached the log, a reader or the   *)
(* network for good was written before all that is still in its queue, so  *)
(* a log has its letters in the order of writing, but for those a post of  *)
(* which was given up; and so has what a client passed on before what it   *)
(* has still to read.                                                      *)
(***************************************************************************)
Follows(m, n) == m # n /\ (From[m] = From[n] /\ n \notin overdue => m < n)

\* Where what follows the cursor of c stands in the log.
UnreadAt(c) == {x \in 1 .. Len(log) : x > Len(log) - behind[c]}

Reached(n) == n \in overdue \/ In(n, log) \/ \E c \in Clients : In(n, got[c])

RelayTypeOK ==
  /\ log \in Seq(Letters) /\ Len(log) <= Retention
  /\ behind \in [Clients -> Nat]
  /\ client \in [Clients -> {"new", "on", "closed"}]
  /\ queue \in [Clients -> Seq(Letters)] /\ got \in [Clients -> Seq(Letters)]
  /\ known \in [Clients -> SUBSET Clients] /\ seen \in [Clients -> SUBSET Letters]
  /\ rejected \in [Clients -> SUBSET Letters] /\ owed \in [Clients -> SUBSET Letters]
  /\ late \subseteq overdue /\ overdue \subseteq Letters /\ unsent \subseteq Letters

Posts ==
  /\ \A m \in Letters \ unsent : \A n \in unsent : From[m] = From[n] => m < n
  /\ \A c \in Clients : \A i \in 1 .. Len(queue[c]) :
       From[queue[c][i]] = c /\ queue[c][i] \notin unsent
  /\ \A c \in Clients : \A i, j \in 1 .. Len(queue[c]) : i < j => queue[c][i] < queue[c][j]
  /\ \A n \in Letters : Reached(n) =>
       n \notin unsent /\ \A i \in 1 .. Len(queue[From[n]]) : n <= queue[From[n]][i]

LogInOrder == \A x, y \in 1 .. Len(log) : x < y => Follows(log[x], log[y])

CursorsSound == \A c \in Clients : behind[c] = Lost \/ behind[c] <= Len(log)

PassedInOrder(c) ==
  /\ \A i, j \in 1 .. Len(got[c]) : i < j => Follows(got[c][i], got[c][j])
  /\ \A i \in 1 .. Len(got[c]) : got[c][i] \in seen[c]
  /\ behind[c] # Lost =>
       \A i \in 1 .. Len(got[c]) : \A x \in UnreadAt(c) :
         log[x] \notin seen[c] => Follows(got[c][i], log[x])

OwedSound(c) ==
  \A n \in owed[c] :
    /\ client[c] = "on" /\ n \in FromPeers(c)
    /\ \/ In(n, got[c]) \/ n \in rejected[c] \/ behind[c] = Lost
       \/ n \notin seen[c] /\ \E x \in UnreadAt(c) : log[x] = n

RelayInv ==
  /\ RelayTypeOK /\ Posts /\ LogInOrder /\ CursorsSound
  /\ \A c \in Clients : PassedInOrder(c) /\ OwedSound(c)

LEMMA RelayStarts == RelayInit => RelayInv
<1> SUFFICES ASSUME RelayInit PROVE RelayInv
  OBVIOUS
<1>1. /\ log = <<>> /\ overdue = {} /\ unsent = Letters /\ late = {}
      /\ \A c \in Clients : queue[c] = <<>> /\ got[c] = <<>> /\ owed[c] = {} /\ behind[c] = 0
  BY DEF RelayInit
<1>2. Retention \in Nat /\ <<>> \in Seq(Letters)
  BY RelayAssumption
<1>3. RelayTypeOK
  BY <1>2 DEF RelayInit, RelayTypeOK
<1>4. Posts
  BY <1>1 DEF Posts, Reached, In
<1>5. LogInOrder /\ CursorsSound
  BY <1>1 DEF LogInOrder, CursorsSound
<1>6. \A c \in Clients : PassedInOrder(c) /\ OwedSound(c)
  BY <1>1 DEF PassedInOrder, OwedSound, UnreadAt
<1> QED
  BY <1>3, <1>4, <1>5, <1>6 DEF RelayInv

LEMMA InIsToSet == ASSUME NEW s, s \in Seq(Letters), NEW n PROVE n \in ToSet(s) <=> In(n, s)
BY DEF ToSet, In

\* Letters are numbers.
LEMMA LettersAreNumbers ==
  /\ Letters \subseteq Nat /\ Retention \in Nat \ {0} /\ Lost \in Nat /\ Lost = Retention + 1
  /\ \A n \in Letters : From[n] \in Clients
BY RelayAssumption DEF Lost

\* The order of a pair of letters stays, as more become overdue.
LEMMA FollowsOn ==
  ASSUME overdue \subseteq overdue', NEW m, NEW n, Follows(m, n)
  PROVE  Follows(m, n)'
BY DEF Follows

-----------------------------------------------------------------------------
(* The queues. *)

\* A queue is left alone, emptied or gives its head, and nothing but what is first
\* in a queue reaches the log, a reader or the network.
LEMMA PostsKept ==
  ASSUME RelayTypeOK, Posts, unsent' = unsent,
         \A c \in Clients :
           \/ queue'[c] \in {queue[c], <<>>}
           \/ queue[c] # <<>> /\ queue'[c] = Tail(queue[c]),
         \A n \in Letters : Reached(n)' =>
           Reached(n) \/ \E c \in Clients : queue[c] # <<>> /\ n = Head(queue[c])
  PROVE  Posts'
<1>1. \A c \in Clients : queue[c] \in Seq(Letters)
  BY DEF RelayTypeOK
<1>2. ASSUME NEW c \in Clients, NEW i \in 1 .. Len(queue'[c])
      PROVE  \E d \in {0, 1} : /\ Len(queue'[c]) + d = Len(queue[c]) /\ i + d \in 1 .. Len(queue[c])
                               /\ \A j \in 1 .. Len(queue'[c]) : queue'[c][j] = queue[c][j + d]
  <2>1. CASE queue'[c] = queue[c]
    BY <1>1, <1>2, <2>1
  <2>2. CASE queue'[c] = <<>>
    BY <1>2, <2>2
  <2>3. CASE queue[c] # <<>> /\ queue'[c] = Tail(queue[c])
    <3>1. PICK s \in Seq(Letters) : s = queue[c] /\ s # <<>>
      BY <1>1, <2>3
    <3>2. /\ Len(Tail(s)) = Len(s) - 1 /\ Len(s) \in Nat \ {0}
          /\ \A a \in 1 .. Len(s) - 1 : Tail(s)[a] = s[a + 1] /\ a + 1 \in 1 .. Len(s)
      BY <3>1, TailFacts
    <3> QED
      BY <1>2, <2>3, <3>1, <3>2
  <2> QED
    BY <2>1, <2>2, <2>3
<1>3. \A c \in Clients : \A i \in 1 .. Len(queue'[c]) : \E k \in 1 .. Len(queue[c]) : queue'[c][i] = queue[c][k]
  BY <1>2
<1>4. ASSUME NEW c \in Clients, NEW i \in 1 .. Len(queue'[c]), NEW j \in 1 .. Len(queue'[c]), i < j
      PROVE  queue'[c][i] < queue'[c][j]
  <2>1. PICK d \in {0, 1} : /\ Len(queue'[c]) + d = Len(queue[c]) /\ i + d \in 1 .. Len(queue[c])
                            /\ \A k \in 1 .. Len(queue'[c]) : queue'[c][k] = queue[c][k + d]
    BY <1>2
  <2>2. i + d \in 1 .. Len(queue[c]) /\ j + d \in 1 .. Len(queue[c]) /\ i + d < j + d
    BY <1>1, <1>4, <2>1
  <2>3. queue[c][i + d] < queue[c][j + d]
    BY <2>2 DEF Posts
  <2> QED
    BY <2>1, <2>3
<1>5. ASSUME NEW n \in Letters, Reached(n)'
      PROVE  n \notin unsent /\ \A i \in 1 .. Len(queue'[From[n]]) : n <= queue'[From[n]][i]
  <2>1. From[n] \in Clients
    BY LettersAreNumbers
  <2>2. CASE Reached(n)
    BY <1>3, <2>1, <2>2 DEF Posts
  <2>3. ASSUME NEW c \in Clients, queue[c] # <<>>, n = Head(queue[c])
        PROVE  n \notin unsent /\ \A i \in 1 .. Len(queue'[From[n]]) : n <= queue'[From[n]][i]
    <3>1. PICK s \in Seq(Letters) : s = queue[c] /\ s # <<>>
      BY <1>1, <2>3
    <3>2. 1 \in 1 .. Len(s) /\ n = s[1]
      BY <2>3, <3>1
    <3>3. From[n] = c /\ n \notin unsent
      BY <3>1, <3>2 DEF Posts
    <3>4. \A k \in 1 .. Len(s) : n <= s[k]
      <4>1. ASSUME NEW k \in 1 .. Len(s), k # 1 PROVE n <= s[k]
        <5>0. 1 \in 1 .. Len(queue[c]) /\ k \in 1 .. Len(queue[c]) /\ 1 < k
          BY <3>1, <3>2, <4>1
        <5>1. n < s[k]
          BY <3>1, <3>2, <5>0 DEF Posts
        <5>2. s[k] \in Letters
          BY <3>1, <4>1
        <5>3. s[k] \in Nat /\ n \in Nat
          BY <5>2, LettersAreNumbers
        <5> QED
          BY <5>1, <5>3
      <4>2. n <= s[1]
        BY <3>2, LettersAreNumbers
      <4> QED
        BY <4>1, <4>2
    <3> QED
      BY <1>3, <3>1, <3>3, <3>4
  <2> QED
    BY <1>5, <2>2, <2>3
<1>6. \A c \in Clients : \A i \in 1 .. Len(queue'[c]) :
        From[queue'[c][i]] = c /\ queue'[c][i] \notin unsent
  BY <1>3 DEF Posts
<1>7. \A m \in Letters \ unsent : \A n \in unsent : From[m] = From[n] => m < n
  BY DEF Posts
<1> QED
  BY <1>4, <1>5, <1>6, <1>7 DEF Posts

LEMMA PostsWrite ==
  ASSUME RelayTypeOK, Posts, NEW n \in Letters, Write(n)
  PROVE  Posts'
<1> DEFINE s == From[n]
<1>1. /\ n \in unsent /\ unsent' = unsent \ {n} /\ s \in Clients
      /\ \A k \in unsent : From[k] = s => n <= k
      /\ queue[s] \in Seq(Letters) /\ queue \in [Clients -> Seq(Letters)]
      /\ queue' = [queue EXCEPT ![s] = Append(queue[s], n)]
      /\ UNCHANGED <<log, overdue, got>>
  BY LettersAreNumbers DEF Write, RelayTypeOK, readings
<1>2. \A k : Reached(k)' = Reached(k)
  BY <1>1 DEF Reached, In
<1>3. /\ Len(queue'[s]) = Len(queue[s]) + 1 /\ Len(queue[s]) \in Nat /\ queue'[s][Len(queue[s]) + 1] = n
      /\ \A a \in 1 .. Len(queue[s]) : queue'[s][a] = queue[s][a]
  <2>1. queue'[s] = Append(queue[s], n)
    BY <1>1
  <2> QED
    BY <1>1, <2>1, AppendFacts
<1>4. \A c \in Clients : c # s => queue'[c] = queue[c]
  BY <1>1
<1>5. \A i \in 1 .. Len(queue'[s]) : i \in 1 .. Len(queue[s]) \/ i = Len(queue[s]) + 1
  BY <1>3
<1>6. \A m \in Letters \ unsent : From[m] = s => m < n /\ m <= n
  BY <1>1, LettersAreNumbers DEF Posts
<1>7. \A c \in Clients : \A i \in 1 .. Len(queue[c]) :
        From[queue[c][i]] = c /\ queue[c][i] \notin unsent /\ queue[c][i] \in Letters
  BY DEF Posts, RelayTypeOK
<1>8. \A m \in Letters \ unsent' : \A k \in unsent' : From[m] = From[k] => m < k
  BY <1>1, LettersAreNumbers DEF Posts
<1>9. \A c \in Clients : \A i \in 1 .. Len(queue'[c]) :
        From[queue'[c][i]] = c /\ queue'[c][i] \notin unsent'
  <2>1. ASSUME NEW i \in 1 .. Len(queue'[s]) PROVE From[queue'[s][i]] = s /\ queue'[s][i] \notin unsent'
    BY <1>1, <1>3, <1>5, <1>7
  <2> QED
    BY <1>1, <1>4, <1>7, <2>1
<1>10. \A c \in Clients : \A i, j \in 1 .. Len(queue'[c]) : i < j => queue'[c][i] < queue'[c][j]
  <2>1. ASSUME NEW i \in 1 .. Len(queue'[s]), NEW j \in 1 .. Len(queue'[s]), i < j
        PROVE  queue'[s][i] < queue'[s][j]
    <3>1. i \in 1 .. Len(queue[s])
      BY <1>3, <1>5, <2>1
    <3>2. CASE j \in 1 .. Len(queue[s])
      BY <1>1, <1>3, <2>1, <3>1, <3>2 DEF Posts
    <3>3. CASE j = Len(queue[s]) + 1
      <4>1. queue[s][i] < n
        BY <1>1, <1>6, <1>7, <3>1
      <4> QED
        BY <1>3, <3>1, <3>3, <4>1
    <3> QED
      BY <1>5, <3>2, <3>3
  <2>2. \A c \in Clients : c # s => \A i, j \in 1 .. Len(queue'[c]) : i < j => queue'[c][i] < queue'[c][j]
    BY <1>4 DEF Posts
  <2> QED
    BY <2>1, <2>2
<1>11. ASSUME NEW m \in Letters, Reached(m)
       PROVE  m \notin unsent' /\ \A i \in 1 .. Len(queue'[From[m]]) : m <= queue'[From[m]][i]
  <2>1. m \notin unsent /\ \A i \in 1 .. Len(queue[From[m]]) : m <= queue[From[m]][i]
    BY <1>11 DEF Posts
  <2>2. From[m] \in Clients
    BY LettersAreNumbers
  <2>3. CASE From[m] = s
    BY <1>1, <1>3, <1>5, <1>6, <2>1, <2>3
  <2>4. CASE From[m] # s
    BY <1>1, <1>4, <2>1, <2>2, <2>4
  <2> QED
    BY <2>3, <2>4
<1> QED
  BY <1>2, <1>8, <1>9, <1>10, <1>11 DEF Posts

-----------------------------------------------------------------------------
(* The log and the cursors. *)

\* A step that leaves the log and what was read alone: a cursor stays, is lost or
\* goes to the end, and what is no longer owed to a client is forgotten.
LEMMA RelayQuiet ==
  ASSUME RelayInv, RelayTypeOK', Posts', UNCHANGED <<log, seen, got, rejected>>, overdue \subseteq overdue',
         \A c \in Clients : behind'[c] \in {behind[c], Lost, 0},
         \A c \in Clients : \A n \in owed'[c] :
           n \in owed[c] /\ n \in FromPeers(c)' /\ client'[c] = "on" /\ behind'[c] \in {behind[c], Lost}
  PROVE  RelayInv'
<1> DEFINE L == Len(log)
<1>1. L \in Nat /\ \A c \in Clients : behind[c] \in Nat /\ behind'[c] \in Nat
  BY DEF RelayInv, RelayTypeOK
<1>2. Lost' = Lost /\ Lost \in Nat
  BY LettersAreNumbers DEF Lost
<1>3. LogInOrder'
  BY DEF RelayInv, LogInOrder, Follows
<1>4. CursorsSound'
  <2>1. \A c \in Clients : behind[c] = Lost \/ behind[c] <= L
    BY DEF RelayInv, CursorsSound
  <2> QED
    BY <1>1, <1>2, <2>1 DEF CursorsSound
<1>5. ASSUME NEW c \in Clients PROVE PassedInOrder(c)'
  <2>1. PassedInOrder(c)
    BY DEF RelayInv
  <2>2. /\ \A i, j \in 1 .. Len(got[c]) : i < j => Follows(got[c][i], got[c][j])'
        /\ \A i \in 1 .. Len(got[c]) : got[c][i] \in seen[c]
    BY <2>1, FollowsOn DEF PassedInOrder
  <2>3. behind'[c] # Lost =>
          \A x \in UnreadAt(c)' : behind[c] # Lost /\ x \in UnreadAt(c)
    <3>1. SUFFICES ASSUME behind'[c] # Lost, NEW x \in UnreadAt(c)'
                   PROVE  behind[c] # Lost /\ x \in UnreadAt(c)
      OBVIOUS
    <3>2. x \in 1 .. L /\ x > L - behind'[c]
      BY DEF UnreadAt
    <3>3. behind'[c] # 0
      BY <1>1, <3>2
    <3>4. behind'[c] = behind[c]
      BY <3>1, <3>3
    <3> QED
      BY <3>1, <3>2, <3>4 DEF UnreadAt
  <2>4. behind'[c] # Lost =>
          \A i \in 1 .. Len(got[c]) : \A x \in UnreadAt(c)' :
            log[x] \notin seen[c] => Follows(got[c][i], log[x])'
    BY <2>1, <2>3, FollowsOn DEF PassedInOrder
  <2> QED
    BY <1>2, <2>2, <2>4 DEF PassedInOrder
<1>6. ASSUME NEW c \in Clients PROVE OwedSound(c)'
  <2>1. SUFFICES ASSUME NEW n \in owed'[c]
                 PROVE  \/ In(n, got'[c]) \/ n \in rejected'[c] \/ behind'[c] = Lost
                        \/ n \notin seen'[c] /\ \E x \in UnreadAt(c)' : log'[x] = n
    BY <1>2 DEF OwedSound
  <2>2. n \in owed[c] /\ behind'[c] \in {behind[c], Lost}
    OBVIOUS
  <2>3. \/ In(n, got[c]) \/ n \in rejected[c] \/ behind[c] = Lost
        \/ n \notin seen[c] /\ \E x \in UnreadAt(c) : log[x] = n
    BY <2>2 DEF RelayInv, OwedSound
  <2>4. behind'[c] = behind[c] => UnreadAt(c)' = UnreadAt(c)
    BY DEF UnreadAt
  <2> QED
    BY <2>2, <2>3, <2>4
<1> QED
  BY <1>3, <1>4, <1>5, <1>6 DEF RelayInv

\* What goes to the log follows what is there, and what was read before it.
Latest(n) ==
  n \in overdue \/ \A m \in Letters : Reached(m) /\ From[m] = From[n] => m <= n

\* The log loses its first d events, and gains one if e is 1: a cursor within what
\* is left moves with it, and any other is lost.
LEMMA RelayMoves ==
  ASSUME RelayInv, RelayTypeOK', Posts', UNCHANGED <<seen, got, rejected, client, known, overdue>>,
         NEW d \in Nat, NEW e \in {0, 1}, NEW n,
         d <= Len(log), Len(log') = Len(log) - d + e,
         \A x \in 1 .. Len(log) - d : log'[x] = log[x + d],
         e = 1 => log'[Len(log')] = n /\ n \in Letters /\ ~In(n, log) /\ Latest(n),
         \A c \in Clients :
           \/ behind'[c] = Lost
           \/ behind[c] # Lost /\ behind'[c] = behind[c] + e /\ behind[c] + d <= Len(log),
         \A c \in Clients : \A m \in owed'[c] : m \in owed[c] \/ (e = 1 /\ m = n /\ Concerns(n, c))
  PROVE  RelayInv'
<1>1. PICK L \in Nat : L = Len(log)
  BY DEF RelayInv, RelayTypeOK
<1>2. Lost' = Lost /\ Lost \in Nat
  BY LettersAreNumbers DEF Lost
<1>3. \A m, k : Follows(m, k)' = Follows(m, k)
  BY DEF Follows
<1>4. \A c \in Clients : behind[c] \in Nat /\ behind'[c] \in Nat
  BY DEF RelayInv, RelayTypeOK
<1>5. \A x \in 1 .. Len(log') :
        \/ x \in 1 .. L - d /\ x + d \in 1 .. L /\ log'[x] = log[x + d]
        \/ e = 1 /\ x = L - d + 1 /\ log'[x] = n
  <2>1. \A x \in 1 .. L - d + e :
          \/ x \in 1 .. L - d /\ x + d \in 1 .. L
          \/ e = 1 /\ x = L - d + 1
    OBVIOUS
  <2>2. Len(log') = L - d + e
    BY <1>1
  <2> QED
    BY <1>1, <2>1, <2>2
<1>6. \A x \in 1 .. L : log[x] \in Letters
  BY <1>1 DEF RelayInv, RelayTypeOK
<1>7. \A c \in Clients : \A i \in 1 .. Len(got[c]) : got[c][i] \in Letters
  BY DEF RelayInv, RelayTypeOK
<1>8. e = 1 => \A m \in Letters : Reached(m) /\ m # n => Follows(m, n)
  <2> SUFFICES ASSUME e = 1, NEW m \in Letters, Reached(m), m # n PROVE Follows(m, n)
    OBVIOUS
  <2>1. m \in Nat /\ n \in Nat
    BY LettersAreNumbers
  <2> QED
    BY <2>1 DEF Latest, Follows
<1>9. LogInOrder'
  <2>1. SUFFICES ASSUME NEW x \in 1 .. Len(log'), NEW y \in 1 .. Len(log'), x < y
                 PROVE  Follows(log'[x], log'[y])
    BY <1>3 DEF LogInOrder
  <2>2. x \in 1 .. L - d /\ x + d \in 1 .. L /\ log'[x] = log[x + d]
    BY <1>1, <1>5, <2>1
  <2>3. CASE y \in 1 .. L - d /\ y + d \in 1 .. L /\ log'[y] = log[y + d]
    <3>1. x + d < y + d
      BY <2>1
    <3> QED
      BY <1>1, <2>2, <2>3, <3>1 DEF RelayInv, LogInOrder
  <2>4. CASE e = 1 /\ y = L - d + 1 /\ log'[y] = n
    <3>1. Reached(log[x + d]) /\ log[x + d] # n
      BY <1>1, <2>2, <2>4 DEF Reached, In
    <3> QED
      BY <1>6, <1>8, <2>2, <2>4, <3>1
  <2> QED
    BY <1>5, <2>3, <2>4
<1>10. CursorsSound'
  BY <1>1, <1>2, <1>4 DEF CursorsSound
<1>11. ASSUME NEW c \in Clients, behind'[c] # Lost
       PROVE  /\ behind[c] # Lost
              /\ \A x \in UnreadAt(c)' :
                   \/ x + d \in UnreadAt(c) /\ log'[x] = log[x + d]
                   \/ e = 1 /\ log'[x] = n
              /\ \A y \in UnreadAt(c) : \E x \in UnreadAt(c)' : log'[x] = log[y]
              /\ e = 1 => \E x \in UnreadAt(c)' : log'[x] = n
  <2>1. PICK b \in Nat : b = behind[c] /\ b # Lost /\ behind'[c] = b + e /\ b + d <= L
    BY <1>1, <1>4, <1>11
  <2>2. \A x : x \in UnreadAt(c)' <=> x \in 1 .. L - d + e /\ x > L - d - b
    <3>1. PICK k \in Nat, l \in Nat : k = Len(log') /\ l = behind'[c] /\ k = L - d + e /\ l = b + e
      BY <1>1, <1>4, <2>1
    <3>2. k - l = L - d - b
      BY <3>1
    <3>3. UnreadAt(c)' = {x \in 1 .. k : x > k - l}
      BY <3>1 DEF UnreadAt
    <3> QED
      BY <3>1, <3>2, <3>3
  <2>3. \A y : y \in UnreadAt(c) <=> y \in 1 .. L /\ y > L - b
    BY <1>1, <2>1 DEF UnreadAt
  <2>4. ASSUME NEW x \in UnreadAt(c)'
        PROVE  \/ x + d \in UnreadAt(c) /\ log'[x] = log[x + d]
               \/ e = 1 /\ log'[x] = n
    <3>1. x \in 1 .. L - d + e /\ x > L - d - b /\ x \in 1 .. Len(log')
      BY <1>1, <2>2, <2>4
    <3>2. x \in 1 .. L - d => x + d \in 1 .. L /\ x + d > L - b
      BY <3>1
    <3> QED
      BY <1>5, <2>3, <3>1, <3>2
  <2>5. ASSUME NEW y \in UnreadAt(c) PROVE \E x \in UnreadAt(c)' : log'[x] = log[y]
    <3>1. y \in 1 .. L /\ y > L - b
      BY <2>3, <2>5
    <3>2. PICK x \in Int : x = y - d /\ e \in Nat
      BY <3>1
    <3>3. x >= 1 /\ x <= L - d /\ x <= L - d + e /\ x > L - d - b /\ x + d = y
      <4>1. L \in Nat /\ d \in Nat /\ b \in Nat /\ b + d <= L /\ y \in Int /\ y <= L /\ y > L - b
        BY <2>1, <3>1
      <4>2. x + d = y /\ y > d
        BY <3>2, <4>1
      <4> QED
        BY <3>2, <4>1, <4>2
    <3>4. x \in 1 .. L - d /\ x \in 1 .. L - d + e
      BY <3>3
    <3>5. x \in UnreadAt(c)' /\ log'[x] = log[y]
      BY <1>1, <2>2, <3>3, <3>4
    <3> QED
      BY <3>5
  <2>6. ASSUME e = 1 PROVE \E x \in UnreadAt(c)' : log'[x] = n
    <3>1. Len(log') \in 1 .. L - d + e /\ Len(log') > L - d - b
      BY <1>1, <2>1, <2>6
    <3> QED
      BY <2>2, <2>6, <3>1
  <2> QED
    BY <2>1, <2>4, <2>5, <2>6
<1>12. ASSUME NEW c \in Clients PROVE PassedInOrder(c)'
  <2>1. PassedInOrder(c)
    BY DEF RelayInv
  <2>2. ASSUME behind'[c] # Lost, NEW i \in 1 .. Len(got[c]), NEW x \in UnreadAt(c)', log'[x] \notin seen[c]
        PROVE  Follows(got[c][i], log'[x])
    <3>1. CASE x + d \in UnreadAt(c) /\ log'[x] = log[x + d]
      BY <1>11, <2>1, <2>2, <3>1 DEF PassedInOrder
    <3>2. CASE e = 1 /\ log'[x] = n
      <4>1. got[c][i] # n /\ Reached(got[c][i])
        BY <2>1, <2>2, <3>2 DEF PassedInOrder, Reached, In
      <4> QED
        BY <1>7, <1>8, <3>2, <4>1
    <3> QED
      BY <1>11, <2>2, <3>1, <3>2
  <2> QED
    BY <1>2, <1>3, <2>1, <2>2 DEF PassedInOrder
<1>13. ASSUME NEW c \in Clients PROVE OwedSound(c)'
  <2>1. FromPeers(c)' = FromPeers(c)
    BY DEF FromPeers
  <2>2. SUFFICES ASSUME NEW m \in owed'[c]
                 PROVE  /\ client[c] = "on" /\ m \in FromPeers(c)
                        /\ \/ In(m, got[c]) \/ m \in rejected[c] \/ behind'[c] = Lost
                           \/ m \notin seen[c] /\ \E x \in UnreadAt(c)' : log'[x] = m
    BY <1>2, <2>1 DEF OwedSound
  <2>3. CASE m \in owed[c]
    <3>1. /\ client[c] = "on" /\ m \in FromPeers(c)
          /\ \/ In(m, got[c]) \/ m \in rejected[c] \/ behind[c] = Lost
             \/ m \notin seen[c] /\ \E x \in UnreadAt(c) : log[x] = m
      BY <2>3 DEF RelayInv, OwedSound
    <3> QED
      BY <1>11, <3>1
  <2>4. CASE e = 1 /\ m = n /\ Concerns(n, c)
    <3>1. client[c] = "on" /\ m \in FromPeers(c) /\ m \notin seen[c]
      BY <2>4 DEF Concerns, FromPeers
    <3> QED
      BY <1>11, <2>4, <3>1
  <2> QED
    BY <2>2, <2>3, <2>4
<1> QED
  BY <1>9, <1>10, <1>12, <1>13 DEF RelayInv

-----------------------------------------------------------------------------
(* Reading. *)

\* What a read passes on stands in the log behind the cursor, in the same order, and
\* was not seen before; and it is all of that which is for c and from its peers.
Reads(c, p, v) ==
  /\ p \in Seq(Letters) /\ v \in Seq(Letters)
  /\ \A i \in 1 .. Len(p) : In(p[i], v) /\ p[i] \notin seen[c] /\ \E x \in UnreadAt(c) : log[x] = p[i]
  /\ \A i, j \in 1 .. Len(p) : i < j =>
       \E x, y \in UnreadAt(c) : x < y /\ log[x] = p[i] /\ log[y] = p[j]
  /\ \A x \in UnreadAt(c) : log[x] \in Opened(c) /\ log[x] \in FromPeers(c) => In(log[x], p)

\* What is unread stands behind the cursor.
Stands(u, c) ==
  /\ u \in Seq(Letters)
  /\ \A k \in 1 .. Len(u) : \E x \in UnreadAt(c) : log[x] = u[k]
  /\ \A k, l \in 1 .. Len(u) : k < l =>
       \E x, y \in UnreadAt(c) : x < y /\ log[x] = u[k] /\ log[y] = u[l]
  /\ \A x \in UnreadAt(c) : \E k \in 1 .. Len(u) : log[x] = u[k]

LEMMA UnreadStands ==
  ASSUME RelayTypeOK, NEW c \in Clients, behind[c] <= Len(log)
  PROVE  Stands(Unread(c), c)
<1>1. PICK L \in Nat, b \in Nat : L = Len(log) /\ b = behind[c] /\ b <= L
  BY DEF RelayTypeOK
<1>2. log \in Seq(Letters)
  BY DEF RelayTypeOK
<1>3. PICK u : u = Unread(c)
  OBVIOUS
<1>4. u = SubSeq(log, L - b + 1, L)
  BY <1>1, <1>3 DEF Unread
<1>5. \A x \in 1 .. L : log[x] \in Letters
  BY <1>1, <1>2
<1>6. PICK d \in Nat : d = L - b /\ d + b = L
  BY <1>1
<1>7. u = SubSeq(log, d + 1, L)
  BY <1>4, <1>6
<1>9. u \in Seq(Letters) /\ Len(u) = b /\ \A k \in 1 .. b : u[k] = log[d + k]
  <2>1. PICK e \in Int : e = d + 1
    OBVIOUS
  <2>2. \A x \in e .. L : log[x] \in Letters
    BY <1>5, <2>1
  <2>3. /\ u \in Seq(Letters) /\ Len(u) = IF e <= L THEN L - e + 1 ELSE 0
        /\ \A k \in 1 .. L - e + 1 : u[k] = log[e + k - 1]
    <3>1. u = SubSeq(log, e, L)
      BY <1>7, <2>1
    <3> QED
      BY <2>2, <3>1, SubSeqProperties
  <2>4. /\ L - e + 1 = b /\ (IF e <= L THEN L - e + 1 ELSE 0) = b
        /\ \A k \in 1 .. b : e + k - 1 = d + k
    BY <1>6, <2>1
  <2> QED
    BY <2>3, <2>4
<1>10. \A x : x \in UnreadAt(c) <=> x \in 1 .. L /\ x > d
  BY <1>1, <1>6 DEF UnreadAt
<1>11. ASSUME NEW k \in 1 .. b PROVE d + k \in UnreadAt(c)
  <2>1. d + k \in 1 .. L /\ d + k > d
    BY <1>6
  <2> QED
    BY <1>10, <2>1
<1>12. \A k, l \in 1 .. b : k < l => d + k < d + l
  OBVIOUS
<1>13. ASSUME NEW x \in UnreadAt(c) PROVE \E k \in 1 .. b : log[x] = u[k]
  <2>0. x \in 1 .. L /\ x > d
    BY <1>10
  <2>1. PICK k \in Int : k = x - d /\ x = d + k
    BY <2>0
  <2>2. k \in 1 .. b
    BY <1>6, <2>0, <2>1
  <2> QED
    BY <1>9, <2>1, <2>2
<1> QED
  BY <1>3, <1>9, <1>11, <1>12, <1>13 DEF Stands

LEMMA ReadsUnread ==
  ASSUME RelayTypeOK, NEW c \in Clients, behind[c] <= Len(log)
  PROVE  Reads(c, PassedOn(c), New(c))
<1>1. PICK u, v, p : u = Unread(c) /\ v = New(c) /\ p = PassedOn(c)
  OBVIOUS
<1>2. /\ u \in Seq(Letters)
      /\ \A k \in 1 .. Len(u) : \E x \in UnreadAt(c) : log[x] = u[k]
      /\ \A k, l \in 1 .. Len(u) : k < l =>
           \E x, y \in UnreadAt(c) : x < y /\ log[x] = u[k] /\ log[y] = u[l]
      /\ \A x \in UnreadAt(c) : \E k \in 1 .. Len(u) : log[x] = u[k]
  <2>1. Stands(u, c)
    BY <1>1, UnreadStands
  <2> QED
    BY <2>1 DEF Stands
<1>3. v \in Seq(Letters) /\ Kept(u, v, Opened(c))
  <2>1. v = Only(u, Opened(c))
    BY <1>1 DEF New
  <2> QED
    BY <1>2, <2>1, OnlyKeeps
<1>4. p \in Seq(Letters) /\ Kept(v, p, FromPeers(c))
  <2>1. p = Only(v, FromPeers(c))
    BY <1>1 DEF PassedOn
  <2> QED
    BY <1>3, <2>1, OnlyKeeps
<1>5. \A k \in 1 .. Len(v) :
        v[k] \in Opened(c) /\ \E x \in UnreadAt(c) : log[x] = v[k]
  BY <1>2, <1>3 DEF Kept
<1>6. ASSUME NEW k \in 1 .. Len(v), NEW l \in 1 .. Len(v), k < l
      PROVE  \E x, y \in UnreadAt(c) : x < y /\ log[x] = v[k] /\ log[y] = v[l]
  <2>0. \A i, j \in 1 .. Len(v) : i < j =>
          \E f, g \in 1 .. Len(u) : f < g /\ u[f] = v[i] /\ u[g] = v[j]
    BY <1>3 DEF Kept
  <2>1. PICK f, g \in 1 .. Len(u) : f < g /\ u[f] = v[k] /\ u[g] = v[l]
    BY <1>6, <2>0
  <2>2. \A i, j \in 1 .. Len(u) : i < j =>
          \E x, y \in UnreadAt(c) : x < y /\ log[x] = u[i] /\ log[y] = u[j]
    BY <1>2
  <2>3. PICK x, y \in UnreadAt(c) : x < y /\ log[x] = u[f] /\ log[y] = u[g]
    BY <2>1, <2>2
  <2> QED
    BY <2>1, <2>3
<1>7. \A i \in 1 .. Len(p) : In(p[i], v)
  BY <1>4 DEF Kept, In
<1>8. \A i \in 1 .. Len(p) : p[i] \notin seen[c] /\ \E x \in UnreadAt(c) : log[x] = p[i]
  BY <1>5, <1>7 DEF In, Opened
<1>9. ASSUME NEW i \in 1 .. Len(p), NEW j \in 1 .. Len(p), i < j
      PROVE  \E x, y \in UnreadAt(c) : x < y /\ log[x] = p[i] /\ log[y] = p[j]
  <2>1. PICK k, l \in 1 .. Len(v) : k < l /\ v[k] = p[i] /\ v[l] = p[j]
    BY <1>4, <1>9 DEF Kept
  <2> QED
    BY <1>6, <2>1
<1>10. ASSUME NEW x \in UnreadAt(c), log[x] \in Opened(c), log[x] \in FromPeers(c)
       PROVE  In(log[x], p)
  <2>1. PICK f \in 1 .. Len(u) : log[x] = u[f]
    BY <1>2
  <2>2. PICK k \in 1 .. Len(v) : v[k] = log[x]
    BY <1>3, <1>10, <2>1 DEF Kept
  <2> QED
    BY <1>4, <1>10, <2>2 DEF Kept, In
<1> QED
  BY <1>1, <1>3, <1>4, <1>7, <1>8, <1>9, <1>10 DEF Reads

LEMMA RelayReads ==
  ASSUME RelayInv, RelayTypeOK', NEW c \in Clients, ReadSucceeds(c)
  PROVE  RelayInv'
<1>1. /\ RelayTypeOK /\ Posts /\ LogInOrder /\ CursorsSound
      /\ \A b \in Clients : PassedInOrder(b) /\ OwedSound(b)
  BY DEF RelayInv
<1>2. PICK p, v : p = PassedOn(c) /\ v = New(c)
  OBVIOUS
<1>3. /\ behind[c] # Lost /\ behind[c] <= Len(log)
      /\ seen' = [seen EXCEPT ![c] = seen[c] \cup ToSet(v)] /\ got' = [got EXCEPT ![c] = got[c] \o p]
      /\ rejected' = [rejected EXCEPT ![c] = rejected[c] \cup Refused(c)]
      /\ behind' = [behind EXCEPT ![c] = 0]
      /\ UNCHANGED <<log, client, queue, known, overdue, owed, unsent>>
  BY <1>1, <1>2 DEF ReadSucceeds, CursorsSound
<1>4. Reads(c, p, v)
  BY <1>1, <1>2, <1>3, ReadsUnread
<1>5. /\ got[c] \in Seq(Letters) /\ p \in Seq(Letters)
      /\ got' \in [Clients -> Seq(Letters)] /\ got \in [Clients -> Seq(Letters)]
      /\ seen \in [Clients -> SUBSET Letters] /\ behind \in [Clients -> Nat]
      /\ rejected \in [Clients -> SUBSET Letters]
  BY <1>1, <1>4 DEF RelayTypeOK, Reads
<1>6. /\ got'[c] = got[c] \o p
      /\ seen'[c] = seen[c] \cup ToSet(v) /\ behind'[c] = 0
      /\ rejected'[c] = rejected[c] \cup Refused(c)
      /\ \A b \in Clients : b # c =>
           got'[b] = got[b] /\ seen'[b] = seen[b] /\ behind'[b] = behind[b] /\ rejected'[b] = rejected[b]
  BY <1>3, <1>5
<1>7. PICK n \in Nat, m \in Nat :
        /\ n = Len(got[c]) /\ m = Len(p) /\ Len(got'[c]) = n + m
        /\ \A a \in 1 .. n : got'[c][a] = got[c][a]
        /\ \A a \in 1 .. m : got'[c][n + a] = p[a]
        /\ \A a \in 1 .. n + m : a \in 1 .. n \/ a - n \in 1 .. m
        /\ \A i : In(i, got'[c]) <=> In(i, got[c]) \/ In(i, p)
  <2>0. PICK s \in Seq(Letters) : s = got[c]
    BY <1>5
  <2>1. PICK t : t = got'[c] /\ t = s \o p /\ s = got[c]
    BY <1>6, <2>0
  <2>2. PICK n \in Nat, m \in Nat : n = Len(s) /\ m = Len(p)
    BY <1>5
  <2>3. /\ Len(t) = n + m /\ \A a \in 1 .. n : t[a] = s[a]
        /\ \A a \in 1 .. m : t[n + a] = p[a]
        /\ \A a \in 1 .. n + m : a \in 1 .. n \/ a - n \in 1 .. m
        /\ \A i : In(i, t) <=> In(i, s) \/ In(i, p)
    <3>1. p \in Seq(Letters)
      BY <1>5
    <3>2. /\ Len(s \o p) = Len(s) + Len(p) /\ \A a \in 1 .. Len(s) : (s \o p)[a] = s[a]
          /\ \A a \in 1 .. Len(p) : (s \o p)[Len(s) + a] = p[a]
          /\ \A a \in 1 .. Len(s) + Len(p) : a \in 1 .. Len(s) \/ a - Len(s) \in 1 .. Len(p)
          /\ \A i : In(i, s \o p) <=> In(i, s) \/ In(i, p)
      BY <3>1, ConcatFacts
    <3> QED
      BY <2>1, <2>2, <3>2
  <2>4. /\ n = Len(got[c]) /\ m = Len(p) /\ Len(got'[c]) = n + m
        /\ \A a \in 1 .. n : got'[c][a] = got[c][a]
        /\ \A a \in 1 .. m : got'[c][n + a] = p[a]
        /\ \A a \in 1 .. n + m : a \in 1 .. n \/ a - n \in 1 .. m
    BY <2>1, <2>2, <2>3
  <2>5. \A i : In(i, got'[c]) <=> In(i, got[c]) \/ In(i, p)
    BY <2>1, <2>3
  <2> QED
    BY <2>4, <2>5
<1>8. ASSUME NEW a \in 1 .. n + m
      PROVE  \/ a \in 1 .. n /\ got'[c][a] = got[c][a]
             \/ \E b \in 1 .. m : a = n + b /\ got'[c][a] = p[b]
  <2>1. CASE a \in 1 .. n
    BY <1>7, <2>1
  <2>2. CASE a - n \in 1 .. m
    <3>1. PICK b \in 1 .. m : a = n + b
      BY <2>2
    <3> QED
      BY <1>7, <3>1
  <2> QED
    BY <1>7, <2>1, <2>2
<1>9. \A x, y : Follows(x, y)' = Follows(x, y)
  BY <1>3 DEF Follows
<1>10. Lost' = Lost
  BY DEF Lost
<1>11. \A x : Reached(x)' => Reached(x)
  <2>1. \A i : In(i, p) => In(i, log)
    <3>1. \A k \in 1 .. Len(p) : \E x \in UnreadAt(c) : log[x] = p[k]
      BY <1>4 DEF Reads
    <3>2. UnreadAt(c) \subseteq 1 .. Len(log)
      BY DEF UnreadAt
    <3> QED
      BY <3>1, <3>2 DEF In
  <2>2. \A i : \A b \in Clients : In(i, got'[b]) => In(i, got[b]) \/ In(i, log)
    BY <1>6, <1>7, <2>1
  <2> QED
    BY <1>3, <2>2 DEF Reached
<1>12. Posts'
  BY <1>1, <1>3, <1>11 DEF Posts
<1>13. LogInOrder'
  BY <1>1, <1>3, <1>9 DEF LogInOrder
<1>14. CursorsSound'
  <2>1. Len(log) \in Nat
    BY <1>1 DEF RelayTypeOK
  <2> QED
    BY <1>1, <1>3, <1>6, <1>10, <2>1 DEF CursorsSound
<1>15. UnreadAt(c)' = {}
  <2>1. Len(log) \in Nat /\ log' = log /\ behind'[c] = 0
    BY <1>1, <1>3, <1>6 DEF RelayTypeOK
  <2> QED
    BY <2>1 DEF UnreadAt
<1>16. \A b \in Clients : b # c => UnreadAt(b)' = UnreadAt(b)
  BY <1>3, <1>6 DEF UnreadAt
<1>17. PassedInOrder(c)'
  <2>1. PassedInOrder(c)
    BY <1>1
  <2>2. ASSUME NEW i \in 1 .. n + m, NEW j \in 1 .. n + m, i < j
        PROVE  Follows(got'[c][i], got'[c][j])
    <3>1. CASE j \in 1 .. n
      <4>1. i \in 1 .. n
        BY <2>2, <3>1
      <4> QED
        BY <1>7, <2>1, <2>2, <3>1, <4>1 DEF PassedInOrder
    <3>2. ASSUME NEW l \in 1 .. m, j = n + l, got'[c][j] = p[l] PROVE Follows(got'[c][i], got'[c][j])
      <4>1. CASE i \in 1 .. n /\ got'[c][i] = got[c][i]
        <5>1. PICK x \in UnreadAt(c) : log[x] = p[l] /\ log[x] \notin seen[c]
          BY <1>4, <1>7 DEF Reads
        <5> QED
          BY <1>3, <1>7, <2>1, <3>2, <4>1, <5>1 DEF PassedInOrder
      <4>2. ASSUME NEW k \in 1 .. m, i = n + k, got'[c][i] = p[k] PROVE Follows(got'[c][i], got'[c][j])
        <5>1. k < l
          BY <2>2, <3>2, <4>2
        <5>2. PICK x, y \in UnreadAt(c) : x < y /\ log[x] = p[k] /\ log[y] = p[l]
          BY <1>4, <1>7, <5>1 DEF Reads
        <5> QED
          BY <1>1, <3>2, <4>2, <5>2 DEF LogInOrder, UnreadAt
      <4> QED
        BY <1>8, <4>1, <4>2
    <3> QED
      BY <1>8, <3>1, <3>2
  <2>3. ASSUME NEW i \in 1 .. n + m PROVE got'[c][i] \in seen'[c]
    <3>1. CASE i \in 1 .. n /\ got'[c][i] = got[c][i]
      BY <1>6, <1>7, <2>1, <3>1 DEF PassedInOrder
    <3>2. ASSUME NEW k \in 1 .. m, got'[c][i] = p[k] PROVE got'[c][i] \in seen'[c]
      <4>1. In(p[k], v) /\ v \in Seq(Letters)
        BY <1>4, <1>7 DEF Reads
      <4>2. p[k] \in ToSet(v)
        BY <4>1 DEF In, ToSet
      <4> QED
        BY <1>6, <3>2, <4>2
    <3> QED
      BY <1>8, <3>1, <3>2
  <2> QED
    BY <1>7, <1>9, <1>15, <2>2, <2>3 DEF PassedInOrder
<1>18. ASSUME NEW b \in Clients, b # c PROVE PassedInOrder(b)' /\ OwedSound(b)'
  <2>1. /\ got'[b] = got[b] /\ seen'[b] = seen[b] /\ behind'[b] = behind[b] /\ UnreadAt(b)' = UnreadAt(b)
        /\ log' = log /\ owed' = owed /\ client' = client /\ rejected'[b] = rejected[b]
    BY <1>3, <1>6, <1>16, <1>18
  <2>2. FromPeers(b)' = FromPeers(b)
    BY <1>3 DEF FromPeers
  <2>3. PassedInOrder(b)'
    BY <1>1, <1>9, <1>10, <2>1 DEF PassedInOrder
  <2>4. OwedSound(b)'
    BY <1>1, <1>10, <2>1, <2>2 DEF OwedSound
  <2> QED
    BY <2>3, <2>4
<1>19. OwedSound(c)'
  <2>1. FromPeers(c)' = FromPeers(c)
    BY <1>3 DEF FromPeers
  <2>2. SUFFICES ASSUME NEW k \in owed[c]
                 PROVE  /\ client[c] = "on" /\ k \in FromPeers(c)
                        /\ In(k, got'[c]) \/ k \in rejected'[c]
    BY <1>3, <2>1 DEF OwedSound
  <2>3. /\ client[c] = "on" /\ k \in FromPeers(c)
        /\ \/ In(k, got[c]) \/ k \in rejected[c]
           \/ k \notin seen[c] /\ \E x \in UnreadAt(c) : log[x] = k
    BY <1>1, <1>3, <2>2 DEF OwedSound
  <2>4. ASSUME k \notin seen[c], NEW x \in UnreadAt(c), log[x] = k
        PROVE  In(k, p) \/ k \in Refused(c)
    <3>1. CASE k \notin outside[c]
      <4>1. k \in Opened(c)
        BY <2>3, <2>4, <3>1 DEF Opened, FromPeers
      <4> QED
        BY <1>4, <2>3, <2>4, <4>1 DEF Reads
    <3>2. CASE k \in outside[c]
      <4>1. Stands(Unread(c), c)
        BY <1>1, <1>3, UnreadStands
      <4>2. Unread(c) \in Seq(Letters) /\ In(k, Unread(c))
        BY <2>4, <4>1 DEF Stands, In
      <4>3. k \in ToSet(Unread(c)) /\ k \in Letters
        BY <2>3, <4>2, InIsToSet DEF FromPeers
      <4> QED
        BY <2>4, <3>2, <4>3 DEF Refused
    <3> QED
      BY <3>1, <3>2
  <2> QED
    BY <1>6, <1>7, <2>3, <2>4
<1> QED
  BY <1>12, <1>13, <1>14, <1>17, <1>18, <1>19 DEF RelayInv

-----------------------------------------------------------------------------
(* The steps. *)

\* A post that has been handled is at the head of its queue, or leaves it.
QueueGoesOn ==
  /\ queue' \in [Clients -> Seq(Letters)]
  /\ \A c \in Clients :
       \/ queue'[c] \in {queue[c], <<>>}
       \/ queue[c] # <<>> /\ queue'[c] = Tail(queue[c])

LEMMA QueueStays == ASSUME RelayTypeOK, queue' = queue PROVE QueueGoesOn
BY DEF RelayTypeOK, QueueGoesOn

HeadHandled(c) == queue' = queue \/ queue' = [queue EXCEPT ![c] = Tail(queue[c])]

LEMMA QueueShifts ==
  ASSUME RelayTypeOK, NEW c \in Clients, queue[c] # <<>>, HeadHandled(c)
  PROVE  QueueGoesOn
<1>1. CASE queue' = queue
  BY <1>1, QueueStays
<1>2. CASE queue' = [queue EXCEPT ![c] = Tail(queue[c])]
  <2>1. queue \in [Clients -> Seq(Letters)] /\ Tail(queue[c]) \in Seq(Letters)
    BY TailFacts DEF RelayTypeOK
  <2> QED
    BY <1>2, <2>1 DEF QueueGoesOn
<1> QED
  BY <1>1, <1>2 DEF HeadHandled

\* What the head of a queue is.
LEMMA HeadIsLatest ==
  ASSUME RelayTypeOK, Posts, NEW c \in Clients, queue[c] # <<>>
  PROVE  Head(queue[c]) \in Letters /\ Latest(Head(queue[c]))
<1>1. PICK s \in Seq(Letters) : s = queue[c] /\ s # <<>>
  BY DEF RelayTypeOK
<1>2. 1 \in 1 .. Len(s) /\ Head(s) = s[1] /\ Head(s) \in Letters
  BY <1>1
<1>3. From[s[1]] = c
  BY <1>1, <1>2 DEF Posts
<1>4. \A m \in Letters : Reached(m) /\ From[m] = c => m <= s[1]
  BY <1>1, <1>2 DEF Posts
<1> QED
  BY <1>1, <1>2, <1>3, <1>4 DEF Latest

\* What a post does to the log.
LEMMA LogTypes ==
  ASSUME RelayTypeOK, NEW n \in Letters, AddToLog(n)
  PROVE  /\ log' \in Seq(Letters) /\ Len(log') <= Retention
         /\ behind' \in [Clients -> Nat] /\ owed' \in [Clients -> SUBSET Letters]
         /\ \A m : In(m, log') => In(m, log) \/ m = n
<1>1. log \in Seq(Letters) /\ Len(log) <= Retention /\ Len(log) \in Nat /\ Retention \in Nat \ {0}
  BY LettersAreNumbers DEF RelayTypeOK
<1>2. behind \in [Clients -> Nat] /\ owed \in [Clients -> SUBSET Letters] /\ Lost \in Nat
  BY LettersAreNumbers DEF RelayTypeOK
<1>3. CASE UNCHANGED <<log, behind, owed>>
  BY <1>1, <1>2, <1>3
<1>4. CASE n \notin ToSet(log)
  <2>1. /\ log' = IF Len(log) = Retention THEN Append(Tail(log), n) ELSE Append(log, n)
        /\ behind' = [c \in Clients |-> IF behind[c] = Lost THEN Lost ELSE behind[c] + 1]
        /\ owed' = [c \in Clients |-> owed[c] \cup {k \in {n} : Concerns(k, c)}]
    BY <1>4 DEF AddToLog
  <2>2. behind' \in [Clients -> Nat] /\ owed' \in [Clients -> SUBSET Letters]
    BY <1>2, <2>1
  <2>3. CASE Len(log) = Retention
    <3>1. PICK t \in Seq(Letters) : t = Tail(log) /\ Len(t) = Len(log) - 1 /\ \A m : In(m, t) => In(m, log)
      <4>1. log # <<>>
        BY <1>1, <2>3
      <4> QED
        BY <1>1, <4>1, TailFacts
    <3>2. log' = Append(t, n)
      BY <2>1, <2>3, <3>1
    <3>3. log' \in Seq(Letters) /\ Len(log') = Len(t) + 1 /\ \A m : In(m, log') <=> m = n \/ In(m, t)
      BY <3>2, AppendFacts
    <3> QED
      BY <1>1, <2>2, <3>1, <3>3
  <2>4. CASE Len(log) # Retention
    <3>1. log' = Append(log, n)
      BY <2>1, <2>4
    <3>2. log' \in Seq(Letters) /\ Len(log') = Len(log) + 1 /\ \A m : In(m, log') <=> m = n \/ In(m, log)
      BY <1>1, <3>1, AppendFacts
    <3> QED
      BY <1>1, <2>2, <2>4, <3>2
  <2> QED
    BY <2>3, <2>4
<1> QED
  BY <1>3, <1>4 DEF AddToLog

LEMMA LogTakes ==
  ASSUME RelayInv, RelayTypeOK', Posts', NEW n \in Letters, AddToLog(n), Latest(n),
         UNCHANGED <<seen, got, rejected, client, known, overdue>>
  PROVE  RelayInv'
<1>1. RelayTypeOK /\ CursorsSound /\ \A c \in Clients : OwedSound(c)
  BY DEF RelayInv
<1>2. log \in Seq(Letters) /\ Len(log) <= Retention /\ Len(log) \in Nat /\ Retention \in Nat \ {0}
  BY <1>1, LettersAreNumbers DEF RelayTypeOK
<1>3. Lost = Retention + 1
  BY DEF Lost
<1>4. CASE n \in ToSet(log)
  <2>1. UNCHANGED <<log, behind, owed>>
    BY <1>4 DEF AddToLog
  <2>2. \A c \in Clients : FromPeers(c)' = FromPeers(c)
    BY DEF FromPeers
  <2>3. \A c \in Clients : \A m \in owed[c] : client[c] = "on" /\ m \in FromPeers(c)
    BY <1>1 DEF OwedSound
  <2> QED
    BY <2>1, <2>2, <2>3, RelayQuiet
<1>5. CASE n \notin ToSet(log)
  <2>1. /\ log' = IF Len(log) = Retention THEN Append(Tail(log), n) ELSE Append(log, n)
        /\ behind' = [c \in Clients |-> IF behind[c] = Lost THEN Lost ELSE behind[c] + 1]
        /\ owed' = [c \in Clients |-> owed[c] \cup {k \in {n} : Concerns(k, c)}]
    BY <1>5 DEF AddToLog
  <2>2. ~In(n, log)
    BY <1>2, <1>5, InIsToSet
  <2>3. \A c \in Clients : \A m \in owed'[c] : m \in owed[c] \/ (m = n /\ Concerns(n, c))
    BY <2>1
  <2>4. \A c \in Clients : behind[c] \in Nat /\ (behind[c] = Lost \/ behind[c] <= Len(log))
    BY <1>1 DEF RelayTypeOK, CursorsSound
  <2>5. \A c \in Clients : behind'[c] = IF behind[c] = Lost THEN Lost ELSE behind[c] + 1
    BY <2>1
  <2>6. CASE Len(log) = Retention
    <3>1. log # <<>>
      BY <1>2, <2>6
    <3>2. PICK t \in Seq(Letters) :
            /\ t = Tail(log) /\ Len(t) = Len(log) - 1
            /\ \A a \in 1 .. Len(log) - 1 : t[a] = log[a + 1]
      <4>1. log \in Seq(Letters)
        BY <1>2
      <4>2. /\ Tail(log) \in Seq(Letters) /\ Len(Tail(log)) = Len(log) - 1
            /\ \A a \in 1 .. Len(log) - 1 : Tail(log)[a] = log[a + 1]
        BY <3>1, <4>1, TailFacts
      <4> QED
        BY <4>2
    <3>3. log' = Append(t, n)
      BY <2>1, <2>6, <3>2
    <3>4. /\ Len(log') = Len(t) + 1 /\ log'[Len(t) + 1] = n
          /\ \A a \in 1 .. Len(t) : log'[a] = t[a]
      BY <3>3, AppendFacts
    <3>5. /\ Len(log') = Len(log) - 1 + 1 /\ log'[Len(log')] = n
          /\ \A a \in 1 .. Len(log) - 1 : log'[a] = log[a + 1]
      BY <3>2, <3>4
    <3>6. \A c \in Clients :
            \/ behind'[c] = Lost
            \/ behind[c] # Lost /\ behind'[c] = behind[c] + 1 /\ behind[c] + 1 <= Len(log)
      BY <1>2, <1>3, <2>4, <2>5, <2>6
    <3>7. 1 <= Len(log)
      BY <1>2, <2>6
    <3> QED
      BY <2>2, <2>3, <3>5, <3>6, <3>7, RelayMoves
  <2>7. CASE Len(log) # Retention
    <3>1. log' = Append(log, n)
      BY <2>1, <2>7
    <3>2. /\ Len(log') = Len(log) + 1 /\ log'[Len(log) + 1] = n
          /\ \A a \in 1 .. Len(log) : log'[a] = log[a]
      BY <1>2, <3>1, AppendFacts
    <3>3. /\ Len(log') = Len(log) - 0 + 1 /\ log'[Len(log')] = n
          /\ \A a \in 1 .. Len(log) - 0 : log'[a] = log[a + 0]
      BY <1>2, <3>2
    <3>4. \A c \in Clients :
            \/ behind'[c] = Lost
            \/ behind[c] # Lost /\ behind'[c] = behind[c] + 1 /\ behind[c] + 0 <= Len(log)
      BY <1>2, <2>4, <2>5
    <3>5. 0 <= Len(log)
      BY <1>2
    <3> QED
      BY <2>2, <2>3, <3>3, <3>4, <3>5, RelayMoves
  <2> QED
    BY <2>6, <2>7
<1> QED
  BY <1>4, <1>5

\* The head of a queue is posted, and handled by the relay.
LEMMA RelayTakesHead ==
  ASSUME RelayInv, NEW c \in Clients, Posting(c), AddToLog(Head(queue[c])),
         HeadHandled(c), UNCHANGED <<client, known, seen, got, rejected, late, overdue, unsent>>
  PROVE  RelayInv'
<1> DEFINE n == Head(queue[c])
<1>1. RelayTypeOK /\ Posts /\ queue[c] # <<>>
  BY DEF RelayInv, Posting, readings
<1>2. n \in Letters /\ Latest(n)
  BY <1>1, HeadIsLatest
<1>3. QueueGoesOn
  BY <1>1, QueueShifts
<1>4. /\ log' \in Seq(Letters) /\ Len(log') <= Retention
      /\ behind' \in [Clients -> Nat] /\ owed' \in [Clients -> SUBSET Letters]
      /\ \A m : In(m, log') => In(m, log) \/ m = n
  <2> HIDE DEF n
  <2>1. AddToLog(n)
    BY DEF n
  <2> QED
    BY <1>1, <1>2, <2>1, LogTypes
<1>5. RelayTypeOK'
  BY <1>1, <1>3, <1>4 DEF RelayTypeOK, QueueGoesOn
<1>6. \A m \in Letters : Reached(m)' => Reached(m) \/ m = n
  BY <1>4 DEF Reached
<1>7. Posts'
  BY <1>1, <1>3, <1>6, PostsKept DEF QueueGoesOn
<1> QED
  BY <1>2, <1>5, <1>7, LogTakes

\* A step that moves neither the log nor what was read, by the parts it may move.
LEMMA RelayQuietly ==
  ASSUME RelayInv, UNCHANGED <<log, seen, got, rejected, unsent>>, QueueGoesOn,
         behind' \in [Clients -> Nat], client' \in [Clients -> {"new", "on", "closed"}],
         known' \in [Clients -> SUBSET Clients], owed' \in [Clients -> SUBSET Letters],
         overdue \subseteq overdue', late' \subseteq overdue',
         \A n \in overdue' :
           n \in overdue \/ \E c \in Clients : queue[c] # <<>> /\ n = Head(queue[c]),
         \A c \in Clients : behind'[c] \in {behind[c], Lost, 0},
         \A c \in Clients : \A n \in owed'[c] :
           n \in owed[c] /\ n \in FromPeers(c)' /\ client'[c] = "on" /\ behind'[c] \in {behind[c], Lost}
  PROVE  RelayInv'
<1>1. RelayTypeOK /\ Posts
  BY DEF RelayInv
<1>2. \A c \in Clients : queue[c] # <<>> => Head(queue[c]) \in Letters
  BY <1>1, HeadIsLatest
<1>3. overdue' \subseteq Letters
  <2>1. overdue \subseteq Letters
    BY <1>1 DEF RelayTypeOK
  <2>2. SUFFICES ASSUME NEW n \in overdue' PROVE n \in Letters
    OBVIOUS
  <2>3. n \in overdue \/ \E c \in Clients : queue[c] # <<>> /\ n = Head(queue[c])
    BY <2>2
  <2> QED
    BY <1>2, <2>1, <2>3
<1>4. RelayTypeOK'
  BY <1>1, <1>3 DEF RelayTypeOK, QueueGoesOn
<1>5. \A n \in Letters : Reached(n)' =>
        Reached(n) \/ \E c \in Clients : queue[c] # <<>> /\ n = Head(queue[c])
  BY DEF Reached
<1>6. Posts'
  BY <1>1, <1>5, PostsKept DEF QueueGoesOn
<1> QED
  BY <1>4, <1>6, RelayQuiet

\* The peers of a client stay, and so does what it is owed.
LEMMA OwedStays ==
  ASSUME RelayInv, UNCHANGED <<client, known, owed, behind>>
  PROVE  /\ behind' \in [Clients -> Nat] /\ client' \in [Clients -> {"new", "on", "closed"}]
         /\ known' \in [Clients -> SUBSET Clients] /\ owed' \in [Clients -> SUBSET Letters]
         /\ \A c \in Clients : behind'[c] \in {behind[c], Lost, 0}
         /\ \A c \in Clients : \A n \in owed'[c] :
              n \in owed[c] /\ n \in FromPeers(c)' /\ client'[c] = "on" /\ behind'[c] \in {behind[c], Lost}
<1>1. RelayTypeOK /\ \A c \in Clients : OwedSound(c)
  BY DEF RelayInv
<1>2. \A c \in Clients : FromPeers(c)' = FromPeers(c)
  BY DEF FromPeers
<1>3. \A c \in Clients : \A n \in owed[c] : n \in FromPeers(c) /\ client[c] = "on"
  BY <1>1 DEF OwedSound
<1> QED
  BY <1>1, <1>2, <1>3 DEF RelayTypeOK

LEMMA RelayPostFails ==
  ASSUME RelayInv, NEW c \in Clients, PostFails(c) \/ PostRefused(c)
  PROVE  RelayInv'
<1>1. RelayTypeOK /\ queue[c] # <<>> /\ late \subseteq overdue
  BY DEF RelayInv, PostFails, PostRefused, Posting, RelayTypeOK
<1>2. QueueGoesOn
  <2>1. HeadHandled(c)
    BY DEF PostFails, PostRefused, Failed, Shifted, HeadHandled
  <2> QED
    BY <1>1, <2>1, QueueShifts
<1>3. /\ UNCHANGED <<log, behind, client, known, seen, got, rejected, owed, unsent>>
      /\ overdue' \in {overdue, overdue \cup {Head(queue[c])}}
      /\ overdue \subseteq overdue' /\ late' \subseteq overdue'
  BY <1>1 DEF PostFails, PostRefused, readings
<1>4. \A n \in overdue' :
        n \in overdue \/ \E b \in Clients : queue[b] # <<>> /\ n = Head(queue[b])
  BY <1>1, <1>3
<1> QED
  BY <1>2, <1>3, <1>4, OwedStays, RelayQuietly

LEMMA RelayReadFails ==
  ASSUME RelayInv, NEW c \in Clients, ReadFails(c)
  PROVE  RelayInv'
<1>1. RelayTypeOK
  BY DEF RelayInv
<1>2. UNCHANGED <<log, behind, client, queue, known, seen, got, rejected, late, overdue, owed, unsent>>
  BY DEF ReadFails, readings
<1>3. QueueGoesOn
  BY <1>1, <1>2, QueueStays
<1>4. late \subseteq overdue
  BY <1>1 DEF RelayTypeOK
<1> QED
  BY <1>2, <1>3, <1>4, OwedStays, RelayQuietly

LEMMA RelayReadGap ==
  ASSUME RelayInv, NEW c \in Clients, ReadGap(c)
  PROVE  RelayInv'
<1>1. RelayTypeOK /\ \A b \in Clients : OwedSound(b)
  BY DEF RelayInv
<1>2. /\ behind' = [behind EXCEPT ![c] = 0] /\ known' = [known EXCEPT ![c] = {}]
      /\ owed' = [owed EXCEPT ![c] = {}]
      /\ UNCHANGED <<log, client, queue, seen, got, rejected, late, overdue, unsent>>
  BY DEF ReadGap, readings
<1>3. QueueGoesOn
  BY <1>1, <1>2, QueueStays
<1>4. /\ late \subseteq overdue /\ behind \in [Clients -> Nat] /\ owed \in [Clients -> SUBSET Letters]
      /\ client \in [Clients -> {"new", "on", "closed"}] /\ known \in [Clients -> SUBSET Clients]
  BY <1>1 DEF RelayTypeOK
<1>5. /\ behind' \in [Clients -> Nat] /\ owed' \in [Clients -> SUBSET Letters]
      /\ known' \in [Clients -> SUBSET Clients]
  BY <1>2, <1>4
<1>6. \A b \in Clients : behind'[b] \in {behind[b], Lost, 0}
  BY <1>2, <1>4
<1>7. ASSUME NEW b \in Clients, NEW n \in owed'[b]
      PROVE  n \in owed[b] /\ n \in FromPeers(b)' /\ client'[b] = "on" /\ behind'[b] \in {behind[b], Lost}
  <2>1. b # c
    BY <1>2, <1>4, <1>7
  <2>2. n \in owed[b] /\ behind'[b] = behind[b] /\ known'[b] = known[b]
    BY <1>2, <1>4, <1>7, <2>1
  <2>3. FromPeers(b)' = FromPeers(b)
    BY <2>2 DEF FromPeers
  <2> QED
    BY <1>1, <1>2, <2>2, <2>3 DEF OwedSound
<1> QED
  BY <1>2, <1>3, <1>4, <1>5, <1>6, <1>7, RelayQuietly

LEMMA RelayJoins ==
  ASSUME RelayInv, NEW c \in Clients, Join(c)
  PROVE  RelayInv'
<1>1. RelayTypeOK /\ \A b \in Clients : OwedSound(b)
  BY DEF RelayInv
<1>2. /\ client[c] = "new" /\ behind' = [behind EXCEPT ![c] = 0]
      /\ client' = [client EXCEPT ![c] = "on"]
      /\ UNCHANGED <<log, queue, known, seen, got, rejected, late, overdue, owed, unsent>>
  BY DEF Join, readings
<1>3. QueueGoesOn
  BY <1>1, <1>2, QueueStays
<1>4. /\ late \subseteq overdue /\ behind \in [Clients -> Nat] /\ owed \in [Clients -> SUBSET Letters]
      /\ client \in [Clients -> {"new", "on", "closed"}] /\ known \in [Clients -> SUBSET Clients]
  BY <1>1 DEF RelayTypeOK
<1>5. behind' \in [Clients -> Nat] /\ client' \in [Clients -> {"new", "on", "closed"}]
  BY <1>2, <1>4
<1>6. \A b \in Clients : behind'[b] \in {behind[b], Lost, 0}
  BY <1>2, <1>4
<1>7. ASSUME NEW b \in Clients, NEW n \in owed[b]
      PROVE  n \in FromPeers(b)' /\ client'[b] = "on" /\ behind'[b] \in {behind[b], Lost}
  <2>1. client[b] = "on" /\ n \in FromPeers(b)
    BY <1>1 DEF OwedSound
  <2>2. b # c
    BY <1>2, <2>1
  <2>3. FromPeers(b)' = FromPeers(b)
    BY <1>2 DEF FromPeers
  <2> QED
    BY <1>2, <1>4, <2>1, <2>2, <2>3
<1> QED
  BY <1>2, <1>3, <1>4, <1>5, <1>6, <1>7, RelayQuietly

LEMMA RelayMeets ==
  ASSUME RelayInv, NEW c \in Clients, NEW d \in Clients, Meet(c, d) \/ Drop(c, d)
  PROVE  RelayInv'
<1>1. RelayTypeOK /\ \A b \in Clients : OwedSound(b)
  BY DEF RelayInv
<1>2. UNCHANGED <<log, behind, client, queue, seen, got, rejected, late, overdue, unsent>>
  BY DEF Meet, Drop, readings
<1>3. QueueGoesOn
  BY <1>1, <1>2, QueueStays
<1>4. /\ late \subseteq overdue /\ behind \in [Clients -> Nat] /\ owed \in [Clients -> SUBSET Letters]
      /\ client \in [Clients -> {"new", "on", "closed"}] /\ known \in [Clients -> SUBSET Clients]
  BY <1>1 DEF RelayTypeOK
<1>5. /\ known' \in [Clients -> SUBSET Clients] /\ owed' \in [Clients -> SUBSET Letters]
      /\ \A b \in Clients : owed'[b] \subseteq owed[b]
      /\ \A b \in Clients : \A n \in owed'[b] : From[n] \in known[b] => From[n] \in known'[b]
  <2>1. CASE Meet(c, d)
    BY <1>4, <2>1 DEF Meet
  <2>2. CASE Drop(c, d)
    <3>1. /\ known' = [known EXCEPT ![c] = known[c] \ {d}]
          /\ owed' = [owed EXCEPT ![c] = {n \in owed[c] : From[n] # d}]
      BY <2>2 DEF Drop
    <3> QED
      BY <1>4, <3>1
  <2> QED
    BY <2>1, <2>2
<1>6. \A b \in Clients : \A n \in owed'[b] : n \in owed[b] /\ n \in FromPeers(b)' /\ client[b] = "on"
  BY <1>1, <1>5 DEF OwedSound, FromPeers
<1> QED
  BY <1>2, <1>3, <1>4, <1>5, <1>6, RelayQuietly

LEMMA RelayLeaves ==
  ASSUME RelayInv, NEW c \in Clients, Leave(c)
  PROVE  RelayInv'
<1>1. RelayTypeOK /\ \A b \in Clients : OwedSound(b)
  BY DEF RelayInv
<1>2. /\ client' = [client EXCEPT ![c] = "closed"] /\ queue' = [queue EXCEPT ![c] = <<>>]
      /\ known' = [known EXCEPT ![c] = {}] /\ owed' = [owed EXCEPT ![c] = {}]
      /\ late' = late \cup AtHead(c) /\ overdue' = overdue \cup AtHead(c)
      /\ UNCHANGED <<log, behind, seen, got, rejected, unsent>>
  BY DEF Leave, readings
<1>3. /\ late \subseteq overdue /\ behind \in [Clients -> Nat] /\ owed \in [Clients -> SUBSET Letters]
      /\ client \in [Clients -> {"new", "on", "closed"}] /\ known \in [Clients -> SUBSET Clients]
      /\ queue \in [Clients -> Seq(Letters)] /\ <<>> \in Seq(Letters)
  BY <1>1 DEF RelayTypeOK
<1>4. QueueGoesOn
  BY <1>2, <1>3 DEF QueueGoesOn
<1>5. /\ client' \in [Clients -> {"new", "on", "closed"}] /\ known' \in [Clients -> SUBSET Clients]
      /\ owed' \in [Clients -> SUBSET Letters]
  BY <1>2, <1>3
<1>6. \A n \in overdue' :
        n \in overdue \/ \E b \in Clients : queue[b] # <<>> /\ n = Head(queue[b])
  BY <1>2 DEF AtHead
<1>7. ASSUME NEW b \in Clients, NEW n \in owed'[b]
      PROVE  n \in owed[b] /\ n \in FromPeers(b)' /\ client'[b] = "on"
  <2>1. b # c
    BY <1>2, <1>3, <1>7
  <2>2. n \in owed[b] /\ known'[b] = known[b] /\ client'[b] = client[b]
    BY <1>2, <1>3, <1>7, <2>1
  <2>3. FromPeers(b)' = FromPeers(b)
    BY <2>2 DEF FromPeers
  <2> QED
    BY <1>1, <2>2, <2>3 DEF OwedSound
<1> QED
  BY <1>2, <1>3, <1>4, <1>5, <1>6, <1>7, RelayQuietly

\* The log loses its first d events, and the cursors that do not fit it.
LogLoses(d) ==
  /\ d <= Len(log) /\ Len(log') = Len(log) - d
  /\ \A x \in 1 .. Len(log) - d : log'[x] = log[x + d] /\ x + d \in 1 .. Len(log)
  /\ \A c \in Clients :
       \/ behind'[c] = Lost
       \/ behind[c] # Lost /\ behind'[c] = behind[c] /\ behind[c] + d <= Len(log)

LEMMA RelayForgets ==
  ASSUME RelayInv, RelayRestarts \/ Prune
  PROVE  RelayInv'
<1>1. RelayTypeOK /\ Posts /\ CursorsSound
  BY DEF RelayInv
<1>2. /\ log \in Seq(Letters) /\ Len(log) \in Nat /\ Len(log) <= Retention
      /\ Retention \in Nat /\ Lost \in Nat /\ Lost = Retention + 1
      /\ behind \in [Clients -> Nat] /\ <<>> \in Seq(Letters)
  BY <1>1, LettersAreNumbers DEF RelayTypeOK
<1>3. UNCHANGED <<client, queue, known, seen, got, rejected, late, overdue, owed, unsent>>
  BY DEF RelayRestarts, Prune, readings
<1>4. /\ log' \in Seq(Letters) /\ Len(log') <= Retention
      /\ \E d \in Nat : LogLoses(d)
  <2>1. CASE RelayRestarts
    <3>1. log' = <<>> /\ \A c \in Clients : behind'[c] = Lost
      BY <2>1 DEF RelayRestarts
    <3>2. Len(log) <= Len(log) /\ Len(log') = Len(log) - Len(log) /\ 1 .. Len(log) - Len(log) = {}
      BY <1>2, <3>1
    <3>3. LogLoses(Len(log))
      BY <3>1, <3>2 DEF LogLoses
    <3> QED
      BY <1>2, <3>1, <3>2, <3>3
  <2>2. CASE Prune
    <3>1. /\ log # <<>> /\ log' = Tail(log)
          /\ \A c \in Clients : behind'[c] = IF behind[c] >= Len(log) THEN Lost ELSE behind[c]
      BY <2>2 DEF Prune
    <3>2. /\ log' \in Seq(Letters) /\ Len(log') = Len(log) - 1
          /\ \A x \in 1 .. Len(log) - 1 : log'[x] = log[x + 1] /\ x + 1 \in 1 .. Len(log)
      BY <1>2, <3>1, TailFacts
    <3>3. 1 <= Len(log)
      BY <1>2, <3>1
    <3>4. \A c \in Clients :
            \/ behind'[c] = Lost
            \/ behind[c] # Lost /\ behind'[c] = behind[c] /\ behind[c] + 1 <= Len(log)
      BY <1>2, <3>1
    <3>5. LogLoses(1)
      BY <3>2, <3>3, <3>4 DEF LogLoses
    <3> QED
      BY <1>2, <3>2, <3>5
  <2> QED
    BY <2>1, <2>2
<1>5. behind' \in [Clients -> Nat]
  <2>1. behind' \in [Clients -> {behind'[c] : c \in Clients}]
    BY DEF RelayRestarts, Prune
  <2> QED
    BY <1>2, <1>4, <2>1 DEF LogLoses
<1>6. PICK d \in Nat :
        /\ d <= Len(log) /\ Len(log') = Len(log) - d
        /\ \A x \in 1 .. Len(log) - d : log'[x] = log[x + d] /\ x + d \in 1 .. Len(log)
        /\ \A c \in Clients :
             \/ behind'[c] = Lost
             \/ behind[c] # Lost /\ behind'[c] = behind[c] /\ behind[c] + d <= Len(log)
  BY <1>4 DEF LogLoses
<1>7. RelayTypeOK'
  BY <1>1, <1>3, <1>4, <1>5 DEF RelayTypeOK
<1>8. \A n : In(n, log') => In(n, log)
  BY <1>6 DEF In
<1>9. Posts'
  <2>1. \A n \in Letters : Reached(n)' => Reached(n)
    BY <1>3, <1>8 DEF Reached
  <2> QED
    BY <1>1, <1>3, <2>1 DEF Posts
<1>10. /\ Len(log') = Len(log) - d + 0
       /\ \A c \in Clients :
            \/ behind'[c] = Lost
            \/ behind[c] # Lost /\ behind'[c] = behind[c] + 0 /\ behind[c] + d <= Len(log)
  BY <1>2, <1>6
<1> QED
  BY <1>3, <1>6, <1>7, <1>9, <1>10, RelayMoves

LEMMA RelaySteps == RelayInv /\ RelayNext => RelayInv'
<1> SUFFICES ASSUME RelayInv, RelayNext PROVE RelayInv'
  OBVIOUS
<1>1. RelayTypeOK /\ Posts
  BY DEF RelayInv
<1>2. CASE RelayRestarts \/ Prune
  BY <1>2, RelayForgets
<1>3. ASSUME NEW n \in Letters, LatePost(n) PROVE RelayInv'
  <2>1. /\ late' = late \ {n} /\ n \in overdue /\ AddToLog(n)
        /\ UNCHANGED <<client, queue, known, seen, got, rejected, overdue, unsent>>
    BY <1>1, <1>3 DEF LatePost, RelayTypeOK, readings
  <2>2. /\ log' \in Seq(Letters) /\ Len(log') <= Retention
        /\ behind' \in [Clients -> Nat] /\ owed' \in [Clients -> SUBSET Letters]
        /\ \A m : In(m, log') => In(m, log) \/ m = n
    BY <1>1, <2>1, LogTypes
  <2>3. RelayTypeOK'
    BY <1>1, <2>1, <2>2 DEF RelayTypeOK
  <2>4. \A m \in Letters : Reached(m)' => Reached(m)
    BY <2>1, <2>2 DEF Reached
  <2>5. Posts'
    BY <1>1, <2>1, <2>4 DEF Posts
  <2> QED
    BY <2>1, <2>3, <2>5, LogTakes DEF Latest
<1>4. ASSUME NEW n \in Letters, Write(n) PROVE RelayInv'
  <2>1. Posts'
    BY <1>1, <1>4, PostsWrite
  <2>2. /\ queue' = [queue EXCEPT ![From[n]] = Append(queue[From[n]], n)] /\ unsent' = unsent \ {n}
        /\ UNCHANGED <<log, behind, client, known, seen, got, rejected, late, overdue, owed>>
    BY <1>4 DEF Write, readings
  <2>3. queue' \in [Clients -> Seq(Letters)]
    <3>1. From[n] \in Clients /\ queue \in [Clients -> Seq(Letters)] /\ queue[From[n]] \in Seq(Letters)
      BY <1>1, LettersAreNumbers DEF RelayTypeOK
    <3>2. Append(queue[From[n]], n) \in Seq(Letters)
      BY <3>1, AppendFacts
    <3> QED
      BY <2>2, <3>1, <3>2
  <2>4. RelayTypeOK'
    BY <1>1, <2>2, <2>3 DEF RelayTypeOK
  <2> QED
    BY <2>1, <2>2, <2>4, OwedStays, RelayQuiet
<1>5. ASSUME NEW c \in Clients, PostAccepted(c) \/ AnswerLost(c) PROVE RelayInv'
  <2>1. /\ Posting(c) /\ AddToLog(Head(queue[c]))
        /\ UNCHANGED <<client, known, seen, got, rejected, late, overdue, unsent>>
    BY <1>5 DEF PostAccepted, AnswerLost, readings
  <2>2. HeadHandled(c)
    BY <1>5 DEF PostAccepted, AnswerLost, Failed, Shifted, HeadHandled
  <2> QED
    BY <2>1, <2>2, RelayTakesHead
<1>6. ASSUME NEW c \in Clients, ReadSucceeds(c) PROVE RelayInv'
  <2>1. /\ seen' = [seen EXCEPT ![c] = seen[c] \cup ToSet(New(c))]
        /\ got' = [got EXCEPT ![c] = got[c] \o PassedOn(c)]
        /\ rejected' = [rejected EXCEPT ![c] = rejected[c] \cup Refused(c)]
        /\ behind' = [behind EXCEPT ![c] = 0]
        /\ behind[c] # Lost
        /\ UNCHANGED <<log, client, queue, known, late, overdue, owed, unsent>>
    BY <1>6 DEF ReadSucceeds
  <2>2. PassedOn(c) \in Seq(Letters) /\ New(c) \in Seq(Letters)
    <3>1. behind[c] <= Len(log)
      BY <2>1 DEF RelayInv, CursorsSound
    <3> QED
      BY <1>1, <3>1, ReadsUnread DEF Reads
  <2>3. /\ got[c] \in Seq(Letters) /\ got \in [Clients -> Seq(Letters)]
        /\ seen \in [Clients -> SUBSET Letters] /\ behind \in [Clients -> Nat]
        /\ rejected \in [Clients -> SUBSET Letters]
    BY <1>1 DEF RelayTypeOK
  <2>4. got' \in [Clients -> Seq(Letters)]
    BY <2>1, <2>2, <2>3, ConcatFacts
  <2>5. seen' \in [Clients -> SUBSET Letters]
    <3>1. ToSet(New(c)) \subseteq Letters
      BY <2>2 DEF ToSet
    <3> QED
      BY <2>1, <2>3, <3>1
  <2>6. behind' \in [Clients -> Nat] /\ rejected' \in [Clients -> SUBSET Letters]
    <3>1. Refused(c) \subseteq Letters
      BY DEF Refused
    <3> QED
      BY <2>1, <2>3, <3>1
  <2>7. RelayTypeOK'
    BY <1>1, <2>1, <2>4, <2>5, <2>6 DEF RelayTypeOK
  <2> QED
    BY <1>6, <2>7, RelayReads
<1>7. ASSUME NEW c \in Clients, NEW n \in Letters, WindowMoves(c, n) PROVE RelayInv'
  <2>1. /\ UNCHANGED <<log, behind, client, queue, known, seen, got, rejected, late, overdue, owed,
                        unsent>>
        /\ late \subseteq overdue
    BY <1>1, <1>7 DEF WindowMoves, RelayTypeOK
  <2>2. QueueGoesOn
    BY <1>1, <2>1, QueueStays
  <2> QED
    BY <2>1, <2>2, OwedStays, RelayQuietly
<1> QED
  BY <1>2, <1>3, <1>4, <1>5, <1>6, <1>7, RelayPostFails, RelayReadFails, RelayReadGap, RelayJoins,
     RelayMeets, RelayLeaves DEF RelayNext

LEMMA RelayStutters == RelayInv /\ UNCHANGED relayVars => RelayInv'
<1> SUFFICES ASSUME RelayInv, UNCHANGED relayVars PROVE RelayInv'
  OBVIOUS
<1>1. /\ UNCHANGED <<log, behind, client, queue, known, seen, got, rejected, late, overdue, owed, unsent>>
      /\ RelayTypeOK /\ late \subseteq overdue
  BY DEF relayVars, RelayInv, RelayTypeOK
<1>2. QueueGoesOn
  BY <1>1, QueueStays
<1> QED
  BY <1>1, <1>2, OwedStays, RelayQuietly

LEMMA RelaySafe == RelayInv => RelaySound
<1> SUFFICES ASSUME RelayInv PROVE RelaySound
  OBVIOUS
<1>1. RelayTypeOK /\ CursorsSound /\ \A c \in Clients : PassedInOrder(c) /\ OwedSound(c)
  BY DEF RelayInv
<1>2. ASSUME NEW c \in Clients, NEW j \in DOMAIN got[c], NEW i \in 1 .. j - 1
      PROVE  /\ got[c][i] # got[c][j]
             /\ From[got[c][i]] = From[got[c][j]] /\ got[c][j] \notin overdue => got[c][i] < got[c][j]
  <2>1. got[c] \in Seq(Letters)
    BY <1>1 DEF RelayTypeOK
  <2>2. i \in 1 .. Len(got[c]) /\ j \in 1 .. Len(got[c]) /\ i < j
    BY <1>2, <2>1
  <2> QED
    BY <1>1, <2>2 DEF PassedInOrder, Follows
<1>3. ASSUME NEW c \in Clients, NEW n \in owed[c]
      PROVE  \/ n \in ToSet(got[c]) \cup rejected[c]
             \/ behind[c] = Lost \/ n \in ToSet(Unread(c))
  <2>1. \/ In(n, got[c]) \/ n \in rejected[c] \/ behind[c] = Lost
        \/ \E x \in UnreadAt(c) : log[x] = n
    BY <1>1, <1>3 DEF OwedSound
  <2>2. CASE In(n, got[c])
    BY <1>1, <2>2, InIsToSet DEF RelayTypeOK
  <2>3. CASE behind[c] # Lost /\ \E x \in UnreadAt(c) : log[x] = n
    <3>1. Stands(Unread(c), c)
      BY <1>1, <2>3, UnreadStands DEF CursorsSound
    <3>2. Unread(c) \in Seq(Letters) /\ In(n, Unread(c))
      BY <2>3, <3>1 DEF Stands, In
    <3> QED
      BY <3>2, InIsToSet
  <2> QED
    BY <2>1, <2>2, <2>3
<1> QED
  BY <1>2, <1>3 DEF RelaySound, RelayDelivery, NothingSkipped

(***************************************************************************)
(* Together.                                                               *)
(***************************************************************************)
ExchangeInv ==
  /\ OffersInv /\ FetchInv /\ MailInv /\ RoomInv /\ SocialInv /\ ServingInv /\ NoticesInv
  /\ TriggersInv /\ RelayInv

LEMMA ExchangeInit == Init => ExchangeInv
BY OffersStart, FetchStarts, MailStoreStarts, RoomStarts, SocialStarts, ServingStarts, NoticesStart, TriggersStart,
   RelayStarts DEF Init, ExchangeInv

LEMMA OffersKept == OffersInv /\ [Next]_vars => OffersInv'
BY OffersSteps, OffersStutter DEF Next, vars

LEMMA FetchKept == FetchInv /\ [Next]_vars => FetchInv'
BY FetchSteps, FetchStutters DEF Next, vars

LEMMA MailKept == MailInv /\ [Next]_vars => MailInv'
BY MailStoreSteps, MailStoreStutters DEF Next, vars

LEMMA RoomKept == RoomInv /\ [Next]_vars => RoomInv'
BY RoomSteps, RoomStutters DEF Next, vars, conversationVars

LEMMA SocialKept == SocialInv /\ [Next]_vars => SocialInv'
BY SocialSteps, SocialStutters DEF Next, vars

LEMMA ServingKept == ServingInv /\ [Next]_vars => ServingInv'
BY ServingSteps, ServingStutters DEF Next, vars

LEMMA NoticesKept == NoticesInv /\ [Next]_vars => NoticesInv'
BY NoticesSteps, NoticesStutter DEF Next, vars

LEMMA TriggersKept == TriggersInv /\ [Next]_vars => TriggersInv'
BY TriggersSteps, TriggersStutter DEF Next, vars

LEMMA RelayKept == RelayInv /\ [Next]_vars => RelayInv'
BY RelaySteps, RelayStutters DEF Next, vars

LEMMA ExchangeNext == ExchangeInv /\ [Next]_vars => ExchangeInv'
BY OffersKept, FetchKept, MailKept, RoomKept, SocialKept, ServingKept, NoticesKept, TriggersKept,
   RelayKept DEF ExchangeInv

LEMMA ExchangeAlways == Spec => []ExchangeInv
BY ExchangeInit, ExchangeNext, PTL DEF Spec

\* A reader of a mailbox that goes on from the number it was given has been shown
\* each message up to there or was told that it may have lost it, whatever was sent
\* and cleaned up between its reads (read_messages, mcp.mjs).
THEOREM NoLossUntold == Spec => []LossIsTold
<1>1. ExchangeInv => LossIsTold
  BY DEF ExchangeInv, MailInv, PagesInv
<1> QED
  BY <1>1, ExchangeAlways, PTL

\* Neither a revoked connection nor more connections than allowed hold subscriptions
\* of a mailbox, though a request waits for its callback (events/subscribe, mcp.mjs).
THEOREM SubscriptionsKept == Spec => []SubscriptionsSound
<1>1. ExchangeInv => SubscriptionsSound
  BY DEF ExchangeInv, MailInv, SubsInv
<1> QED
  BY <1>1, ExchangeAlways, PTL

\* No node comes to know a direct message of two others, by no chain of history
\* requests and replays (the case history_request of dataReceived, vdo-bridge.ts).
THEOREM DirectMessagesPrivate == Spec => []DirectStaysPrivate
<1>1. ExchangeInv => DirectStaysPrivate
  BY RoomSafe DEF ExchangeInv
<1> QED
  BY <1>1, ExchangeAlways, PTL

\* The bridge to a live chat has a socket or a timer until it is closed, forwards
\* the chat in order and once, and reports no failure of what it sent
\* (connect, onclose and sendChat, social-stream.ts).
THEOREM SocialBridgeSound == Spec => []SocialSound
<1>1. ExchangeInv => SocialSound
  BY SocialSafe DEF ExchangeInv
<1> QED
  BY <1>1, ExchangeAlways, PTL

\* A request for a chunk is answered once and with verified bytes, and never made
\* good after the manager was stopped (sendFor, swarm-manager.ts).
THEOREM ChunksServedOnce == Spec => []ChunksServedSound
<1>1. ExchangeInv => ChunksServedSound
  BY ServingSafe DEF ExchangeInv
<1> QED
  BY <1>1, ExchangeAlways, PTL

\* What the inbox of an agent says last of a peer is true once everything sent has
\* arrived, and a departure is told once (recordPeerNotice of runAgent, cli.ts).
THEOREM NoticesTrue == Spec => []NoticesTellWhoIsHere
<1>1. ExchangeInv => NoticesTellWhoIsHere
  BY NoticesSafe DEF ExchangeInv
<1> QED
  BY <1>1, ExchangeAlways, PTL

\* A message runs each trigger that matches it at most once, and all of those that
\* were there when it came and are not removed (checkTriggers, message-bus.ts).
THEOREM TriggersCalledOnce == Spec => []TriggersRunOnce
<1>1. ExchangeInv => TriggersRunOnce
  BY TriggersSafe DEF ExchangeInv
<1> QED
  BY <1>1, ExchangeAlways, PTL

\* A file that was asked for is waited for, being fetched or held, or its failure was
\* reported, whatever the peers offer; and no list of hashes that is not the one the
\* offer names is used (fetch, handleOffer and handleManifestPage, swarm-manager.ts).
THEOREM AskedIsWaitedFor == Spec => []FetchSound
<1>1. ExchangeInv => FetchSound
  BY OffersSafe DEF ExchangeInv
<1> QED
  BY <1>1, ExchangeAlways, PTL

\* What fetch reports is what happened, and a download that gains chunks in time is
\* not given up (the promise and the timers of runFetch, cli.ts).
THEOREM FetchTellsTheTruth == Spec => []FetchTruthful
<1>1. ExchangeInv => FetchTruthful
  BY FetchSafe DEF ExchangeInv
<1> QED
  BY <1>1, ExchangeAlways, PTL

\* A client of the relay passes each letter on once, and those of one sender in the
\* order of writing but for a post that was given up; and one that keeps its place
\* and its peers misses none, though posts are repeated and arrive late, and the relay
\* forgets (post and receive, http-relay.cjs; the log of relay-server.cjs).
THEOREM RelayDelivers == Spec => []RelaySound
<1>1. ExchangeInv => RelaySound
  BY RelaySafe DEF ExchangeInv
<1> QED
  BY <1>1, ExchangeAlways, PTL
=============================================================================
