--------------------------- MODULE Conversation ---------------------------
(***************************************************************************)
(* Who comes to know a message of a room: the part of the message bus that *)
(* broadcasts, publishes to a topic, filters what comes in and keeps a     *)
(* ring of what went by (src/src/message-bus.ts), and the answer of the    *)
(* bridge to a peer that asks for the history (src/src/vdo-bridge.ts).     *)
(*                                                                         *)
(* A message is the number of the call that made it.  Links keep order and *)
(* may drop what they carry.  What a node remembers that was sent to it    *)
(* again (history_replay) is known to it and is not kept in its ring.      *)
(* Bounds: MaxMessages messages, MaxRequests requests for the history.     *)
(***************************************************************************)
EXTENDS Naturals, Sequences, FiniteSets, SequencesExt

CONSTANTS
  Nodes, Topics,
  HistorySize,  \* historySize: messages kept in the ring of one node
  Counts,       \* the counts a request may name
  MaxMessages, MaxRequests

ASSUME ConversationAssumption ==
  /\ HistorySize \in Nat \ {0} /\ Counts \subseteq Nat \ {0}
  /\ MaxMessages \in Nat /\ MaxRequests \in Nat

VARIABLES
  sent,           \* the messages made so far: [from, to, topic], in order
  subscriptions,  \* the topics of each node
  history,        \* the ring of each node
  link,           \* what is under way from one node to another
  knows,          \* ghost: the messages each node has made, been sent or been replayed
  requested       \* requests made so far

conversationVars == <<sent, subscriptions, history, link, knows, requested>>

Everybody == "everybody"
NoTopic == "no topic"

ConversationInit ==
  /\ sent = <<>> /\ requested = 0
  /\ subscriptions \in [Nodes -> SUBSET Topics]
  /\ history = [n \in Nodes |-> <<>>]
  /\ link = [pair \in Nodes \X Nodes |-> <<>>]
  /\ knows = [n \in Nodes |-> {}]

\* addToHistory
Remember(ring, m) ==
  LET longer == Append(ring, m)
  IN SubSeq(longer, IF Len(longer) > HistorySize THEN 2 ELSE 1, Len(longer))

\* A new message of n, in the ring of n and on the links to the nodes that the
\* transport reaches.  One that a link does not take is lost; the queue of a
\* direct message is in MessageBus.
Leaves(n, to, topic, reached) ==
  /\ Len(sent) < MaxMessages
  /\ sent' = Append(sent, [from |-> n, to |-> to, topic |-> topic])
  /\ history' = [history EXCEPT ![n] = Remember(@, Len(sent) + 1)]
  /\ knows' = [knows EXCEPT ![n] = @ \cup {Len(sent) + 1}]
  /\ link' = [pair \in Nodes \X Nodes |->
                IF pair[1] = n /\ pair[2] \in reached
                THEN Append(link[pair], [type |-> "message", id |-> Len(sent) + 1])
                ELSE link[pair]]
  /\ UNCHANGED <<subscriptions, requested>>

\* broadcast and publish: no node is left out, and each filters for itself.
Broadcast(n) ==
  \E topic \in Topics \cup {NoTopic}, reached \in SUBSET (Nodes \ {n}) :
    Leaves(n, Everybody, topic, reached)

\* chat to a peer, command, reply, ack
Send(n, m) ==
  /\ n # m
  /\ \E reached \in SUBSET {m} : Leaves(n, m, NoTopic, reached)

SubscribeTopic(n, topic) ==
  /\ topic \notin subscriptions[n]
  /\ subscriptions' = [subscriptions EXCEPT ![n] = @ \cup {topic}]
  /\ UNCHANGED <<sent, history, link, knows, requested>>

UnsubscribeTopic(n, topic) ==
  /\ topic \in subscriptions[n]
  /\ subscriptions' = [subscriptions EXCEPT ![n] = @ \ {topic}]
  /\ UNCHANGED <<sent, history, link, knows, requested>>

\* The filters of handleIncoming: a topic the node follows, and its own id.
Passes(n, id) ==
  /\ sent[id].topic = NoTopic \/ sent[id].topic \in subscriptions[n]
  /\ sent[id].to \in {Everybody, n}

\* handleIncoming, for a message of a type that the ring keeps
HandleIncoming(from, n) ==
  /\ link[<<from, n>>] # <<>> /\ Head(link[<<from, n>>]).type = "message"
  /\ LET id == Head(link[<<from, n>>]).id IN
       IF Passes(n, id)
       THEN /\ history' = [history EXCEPT ![n] = Remember(@, id)]
            /\ knows' = [knows EXCEPT ![n] = @ \cup {id}]
       ELSE UNCHANGED <<history, knows>>
  /\ link' = [link EXCEPT ![<<from, n>>] = Tail(@)]
  /\ UNCHANGED <<sent, subscriptions, requested>>

\* requestHistory
RequestHistory(n, m) ==
  /\ n # m /\ requested < MaxRequests /\ requested' = requested + 1
  /\ \E count \in Counts :
       link' = [link EXCEPT ![<<n, m>>] = Append(@, [type |-> "history_request", id |-> count])]
  /\ UNCHANGED <<sent, subscriptions, history, knows>>

\* A message of the ring that a peer may see.
MaySee(asker, m) == m.to \in {Everybody, asker} \/ m.from = asker

\* The last positions of a set of them.
LastOf(places, count) == {i \in places : Cardinality({j \in places : j > i}) < count}

\* A variant: a message of the answering node to anyone counts as its own to show.
RepliesAnyway(n, asker, count) ==
  LastOf({i \in DOMAIN history[n] : LET m == sent[history[n][i]] IN MaySee(asker, m) \/ m.from = n},
         count)

\* The places in the ring of what a peer may see, and then the last of them.
Replies(n, asker, count) ==
  LastOf({i \in DOMAIN history[n] : MaySee(asker, sent[history[n][i]])}, count)

\* The case history_request of dataReceived.  A replay that cannot be sent is
\* left out and the next one is tried.
HistoryRequested(asker, n) ==
  /\ link[<<asker, n>>] # <<>> /\ Head(link[<<asker, n>>]).type = "history_request"
  /\ \E taken \in SUBSET Replies(n, asker, Head(link[<<asker, n>>]).id) :
       \E place \in [1 .. Cardinality(taken) -> taken] :
         /\ \A i, j \in DOMAIN place : i < j => place[i] < place[j]
         /\ LET replays == [i \in DOMAIN place |->
                              [type |-> "history_replay", id |-> history[n][place[i]]]]
            IN link' = [pair \in Nodes \X Nodes |->
                          IF pair = <<asker, n>> THEN Tail(link[pair])
                          ELSE IF pair = <<n, asker>> THEN link[pair] \o replays
                          ELSE link[pair]]
  /\ UNCHANGED <<sent, subscriptions, history, knows, requested>>

\* handleIncoming of a replay: it is handed to the listeners and not kept.
ReplayHeard(from, n) ==
  /\ link[<<from, n>>] # <<>> /\ Head(link[<<from, n>>]).type = "history_replay"
  /\ knows' = [knows EXCEPT ![n] = @ \cup {Head(link[<<from, n>>]).id}]
  /\ link' = [link EXCEPT ![<<from, n>>] = Tail(@)]
  /\ UNCHANGED <<sent, subscriptions, history, requested>>

ConversationNext ==
  \E n \in Nodes :
    \/ Broadcast(n)
    \/ \E topic \in Topics : SubscribeTopic(n, topic) \/ UnsubscribeTopic(n, topic)
    \/ \E m \in Nodes :
         \/ Send(n, m) \/ HandleIncoming(m, n)
         \/ RequestHistory(n, m) \/ HistoryRequested(m, n) \/ ReplayHeard(m, n)

-----------------------------------------------------------------------------
(* Correctness.                                                            *)

\* "A peer may see broadcasts and its own conversation with us, but never
\* direct messages exchanged with somebody else" (the case history_request):
\* through whatever chain of requests and answers, a node comes to know no
\* direct message of two others, and neither does its ring, from which it
\* will answer in turn.
DirectStaysPrivate ==
  \A n \in Nodes : \A id \in knows[n] \cup ToSet(history[n]) :
    n = sent[id].from \/ sent[id].to \in {Everybody, n}
=============================================================================
