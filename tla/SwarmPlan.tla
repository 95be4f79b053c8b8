----------------------------- MODULE SwarmPlan -----------------------------
(***************************************************************************)
(* Which chunks a downloader asks for next, and of whom: the function      *)
(* planChunkRequests of src/swarm.ts, with the score of a peer abstracted  *)
(* to its failures.  A failure costs 2 s of score; the round trip time,    *)
(* the queue and the bonus for deliveries can outweigh Slack failures.     *)
(***************************************************************************)
EXTENDS Naturals, FiniteSets, SequencesExt

CONSTANTS Chunks,   \* the chunks of the file
          Nodes,    \* the participants
          None,     \* no peer
          PerPeer,  \* maxInFlightPerPeer
          Total,    \* maxInFlightTotal
          Slack     \* failures that the rest of a score can outweigh

ASSUME PlanAssumption ==
  /\ IsFiniteSet(Chunks) /\ None \notin Nodes
  /\ PerPeer \in Nat /\ Total \in Nat /\ Slack \in Nat

\* A table of requests says of each chunk whom it was asked from, or None.
Tables == [Chunks -> Nodes \cup {None}]

\* inFlightForPeer
AskedOf(table, p) == {c \in Chunks : table[c] = p}

\* held[p]: the chunks a known peer p says it holds.
Holders(c, held) == {p \in DOMAIN held : c \in held[p]}

Candidates(have, held, table) ==
  {c \in Chunks \ have : table[c] = None /\ Holders(c, held) # {}}

\* Rarest first, in any order among equals.
Rarest(order, held) ==
  \A i, j \in 1..Len(order) :
    i < j => Cardinality(Holders(order[i], held)) <= Cardinality(Holders(order[j], held))

\* A fault for the mutation tests: the limit for one peer is ignored.
AskableUnbounded(c, table, held, failures) ==
  {p \in Holders(c, held) : \A q \in Holders(c, held) : failures[p] <= failures[q] + Slack}

\* The peers a chunk may be asked from when the requests of table are out.
Askable(c, table, held, failures) ==
  LET open == {p \in Holders(c, held) : Cardinality(AskedOf(table, p)) < PerPeer}
  IN {p \in open : \A q \in open : failures[p] <= failures[q] + Slack}

\* table with the choices ask makes for some chunks.
Asking(table, ask, chunks) == [c \in Chunks |-> IF c \in chunks THEN ask[c] ELSE table[c]]

\* One pass over the candidates in this order makes the choices of ask.
Follows(ask, table, order, held, failures) ==
  \A k \in 1..Len(order) :
    LET before  == Asking(table, ask, {order[i] : i \in 1..k-1})
        busy    == UNION {AskedOf(before, p) : p \in DOMAIN held}
        choices == Askable(order[k], before, held, failures)
    IN IF Cardinality(busy) < Total /\ choices # {}
       THEN ask[order[k]] \in choices
       ELSE ask[order[k]] = None

\* planChunkRequests: the tables of requests a pump may arrive at.
Plans(have, held, table, failures) ==
  LET new    == Candidates(have, held, table)
      orders == {order \in SetToSeqs(new) : Rarest(order, held)}
  IN {Asking(table, ask, new) :
        ask \in {f \in [new -> DOMAIN held \cup {None}] :
                   \E order \in orders : Follows(f, table, order, held, failures)}}
=============================================================================
