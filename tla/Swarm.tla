------------------------------- MODULE Swarm -------------------------------
(***************************************************************************)
(* The swarm sharing of one file: the SwarmSession and the SwarmManager    *)
(* (swarm-session.ts, swarm-manager.ts) of every participant, and the      *)
(* connections between them.                                               *)
(*                                                                         *)
(* A participant that holds the whole file seeds it; the others ask the    *)
(* peers they know for the chunks they miss.  What is slow is modelled     *)
(* step by step: a chunk on its way, a request nobody answers, its         *)
(* timeout, a connection that breaks.  Small control messages (announce,   *)
(* have, request) arrive at once or are lost with their connection.  A     *)
(* connection may also go silent: both ends believe it is open and nothing *)
(* crosses it any more (revivePeer was written for that).                  *)
(*                                                                         *)
(* Everybody has the manifest; the final check and move of a complete      *)
(* file succeed.                                                           *)
(***************************************************************************)
EXTENDS SwarmPlan

CONSTANTS
  Seeds,        \* participants that hold the file from the start
  Corrupt,      \* participants whose chunks fail their hash on arrival
  Leavers,      \* participants that may leave for good
  Pairs,        \* the pairs of participants that can connect at all
  Unknown,      \* what is known of a peer that has not announced itself
  Threshold,    \* timeouts in a row before a connection is rebuilt
  MaxFailures,  \* bound: failures counted per peer, more count as many
  Kinds,        \* the kinds of mishap that may happen
  MaxMishaps    \* bound: mishaps in all

ASSUME SwarmAssumption ==
  /\ Seeds \subseteq Nodes /\ Corrupt \subseteq Nodes /\ Leavers \subseteq Nodes
  /\ \A pair \in Pairs : pair \subseteq Nodes /\ Cardinality(pair) = 2
  /\ \A held \in SUBSET Chunks : Unknown # held
  /\ Threshold \in Nat \ {0} /\ MaxFailures \in Nat /\ Slack < MaxFailures
  /\ MaxMishaps \in Nat
  /\ Kinds \subseteq {"loss", "slow", "silence", "close", "reconnect", "restart", "disk"}

VARIABLES
  have,      \* verified chunks, on disk
  know,      \* peerChunks: what a session knows of a peer, or Unknown
  asked,     \* inFlight: whom a chunk was asked from, or None
  due,       \* the requests whose timeout has passed
  failures,  \* stats.failures of a peer
  streak,    \* consecutiveTimeouts of a peer
  news,      \* pendingHave
  cooling,   \* peers revived less than REVIVE_MIN_INTERVAL_MS ago
  link,      \* "up", "silent" or "down" for every pair of participants
  answers,   \* chunks on their way, as <<from, to, chunk>>
  left,      \* participants that have left
  mishaps    \* mishaps that may still happen

session == <<have, know, asked, due, failures, streak, news>>
vars    == <<session, cooling, link, answers, left, mishaps>>

Known(n) == {m \in Nodes : know[n][m] # Unknown}
Linked(n, state) == {m \in Nodes : {n, m} \in Pairs /\ link[{n, m}] = state}
Complete(n) == have[n] = Chunks
Downloading(n) == n \notin left /\ ~Complete(n)

Least(a, b) == IF a < b THEN a ELSE b

\* A mishap of this kind happens.
Happens(kind) ==
  /\ kind \in Kinds /\ mishaps > 0
  /\ mishaps' = mishaps - 1

Init ==
  /\ have = [n \in Nodes |-> IF n \in Seeds THEN Chunks ELSE {}]
  /\ know = [n \in Nodes |-> [m \in Nodes |-> Unknown]]
  /\ asked = [n \in Nodes |-> [c \in Chunks |-> None]]
  /\ due = [n \in Nodes |-> {}] /\ news = [n \in Nodes |-> {}]
  /\ failures = [n \in Nodes |-> [m \in Nodes |-> 0]]
  /\ streak = [n \in Nodes |-> [m \in Nodes |-> 0]]
  /\ cooling = [n \in Nodes |-> {}]
  /\ link = [pair \in Pairs |-> "down"]
  /\ answers = {} /\ left = {} /\ mishaps = MaxMishaps

-----------------------------------------------------------------------------
(* Peers come, speak and go. *)

\* The table t with v in the places of removed, a set of <<node, its peer>>.
Without(t, removed, v) ==
  [n \in Nodes |-> [m \in Nodes |-> IF <<n, m>> \in removed THEN v ELSE t[n][m]]]

\* A fault for the mutation tests: the requests to a removed peer stay out.
FreedNothing(a, removed) == a

Freed(a, removed) ==
  [n \in Nodes |-> [c \in Chunks |-> IF <<n, a[n][c]>> \in removed THEN None ELSE a[n][c]]]

StillDue(d, a) == [n \in Nodes |-> {c \in d[n] : a[n][c] # None}]

\* SwarmSession.removePeer, and what peer:disconnected does besides, for every
\* <<node, peer>> of removed.
Removed(removed) ==
  /\ know' = Without(know, removed, Unknown)
  /\ asked' = Freed(asked, removed) /\ due' = StillDue(due, asked')
  /\ failures' = Without(failures, removed, 0) /\ streak' = Without(streak, removed, 0)
  /\ cooling' = [n \in Nodes |-> {m \in cooling[n] : <<n, m>> \notin removed}]

Both(n, others) == UNION {{<<n, m>>, <<m, n>>} : m \in others}

\* Chunks on their way are lost with the connections of n to others.
Cut(n, others) == {a \in answers : ~(n \in {a[1], a[2]} /\ {a[1], a[2]} \cap others # {})}

\* A fault for the mutation tests: what was asked for is announced as held.
BitfieldPromised(n) == have[n] \cup {c \in Chunks : asked[n][c] # None}

Bitfield(n) == have[n]

\* canHelp, of a peer that has heard from n
CanHelp(p, n) == have[p] \ Bitfield(n) # {}

\* Those that may answer an announce of n: answerAnnounce, at most once a second
Helpers(n) == {p \in Linked(n, "up") : CanHelp(p, n)}

\* The table of knowledge k after n has announced h to its audience, and the
\* helpers among it have answered: handleAnnounce on either side.
Announced(k, n, h, audience, helpers) ==
  [m \in Nodes |->
     IF m = n THEN [p \in Nodes |-> IF p \in helpers THEN Bitfield(p) ELSE k[n][p]]
     ELSE IF m \in audience THEN [k[m] EXCEPT ![n] = h] ELSE k[m]]

\* A fault for the mutation tests: only a complete copy is announced.
AnnounceSeeds(n) ==
  /\ n \notin left /\ Complete(n)
  /\ know' = Announced(know, n, Bitfield(n), Linked(n, "up"), {})
  /\ UNCHANGED <<have, asked, due, failures, streak, news, cooling, link, answers, left, mishaps>>

\* announceAll, on its timer; canHelp and answerAnnounce at the peers.
Announce(n) ==
  /\ n \notin left
  /\ UNCHANGED <<have, asked, due, failures, streak, news, cooling, link, answers, left, mishaps>>
  /\ \E helpers \in SUBSET Helpers(n) :
       know' = Announced(know, n, Bitfield(n), Linked(n, "up"), helpers)

\* Two bridges connect and announce themselves: greetPeer on both sides, which
\* says nothing of an empty session.
Connects(n, m) ==
  /\ {n, m} \in Pairs /\ {n, m} \cap left = {} /\ link[{n, m}] = "down"
  /\ link' = [link EXCEPT ![{n, m}] = "up"]
  /\ know' = [k \in Nodes |-> [p \in Nodes |->
                IF {k, p} = {n, m} /\ have[p] # {} THEN Bitfield(p) ELSE know[k][p]]]
  /\ UNCHANGED <<have, asked, due, failures, streak, news, cooling, answers, left, mishaps>>

ConnectionCloses(n, m) ==
  /\ {n, m} \in Pairs /\ link[{n, m}] # "down" /\ Happens("close")
  /\ link' = [link EXCEPT ![{n, m}] = "down"]
  /\ Removed(Both(n, {m})) /\ answers' = Cut(n, {m})
  /\ UNCHANGED <<have, news, left>>

GoesSilent(n, m) ==
  /\ {n, m} \in Pairs /\ link[{n, m}] = "up" /\ Happens("silence")
  /\ link' = [link EXCEPT ![{n, m}] = "silent"]
  /\ answers' = Cut(n, {m})
  /\ UNCHANGED <<session, cooling, left>>

\* The links of n, all down.
Severed(n) == [pair \in Pairs |-> IF n \in pair THEN "down" ELSE link[pair]]

Leaves(n) ==
  /\ n \in Leavers \ left
  /\ left' = left \cup {n}
  /\ link' = Severed(n)
  /\ Removed(Both(n, Nodes)) /\ answers' = Cut(n, Nodes)
  /\ UNCHANGED <<have, news, mishaps>>

\* A downloader is killed and resumes from its part file: scanVerified.
Restarts(n) ==
  /\ Downloading(n) /\ Happens("restart")
  /\ link' = Severed(n) /\ news' = [news EXCEPT ![n] = {}]
  /\ Removed(Both(n, Nodes)) /\ answers' = Cut(n, Nodes)
  /\ UNCHANGED <<have, left>>

\* abandonInFlight: nobody is charged for the requests given up.
AbandonInFlight(n) ==
  /\ asked' = [asked EXCEPT ![n] = [c \in Chunks |-> None]]
  /\ due' = [due EXCEPT ![n] = {}]

\* ws:reconnected
SignallingReconnects(n) ==
  /\ n \notin left /\ Happens("reconnect")
  /\ AbandonInFlight(n)
  /\ \E helpers \in SUBSET Helpers(n) :
       know' = Announced(know, n, Bitfield(n), Linked(n, "up"), helpers)
  /\ UNCHANGED <<have, failures, streak, news, cooling, link, answers, left>>

-----------------------------------------------------------------------------
(* Asking for chunks. *)

\* A request that nobody answers any more times out; one whose answer is on
\* its way only when that is slow.
TimesOut(n, c) ==
  /\ asked[n][c] # None /\ c \notin due[n]
  /\ IF <<asked[n][c], n, c>> \in answers THEN Happens("slow") ELSE UNCHANGED mishaps
  /\ due' = [due EXCEPT ![n] = @ \cup {c}]
  /\ UNCHANGED <<have, know, asked, failures, streak, news, cooling, link, answers, left>>

\* A fault for the mutation tests: requests never expire.
NeverLate(n) == {}

Late(n) == due[n]

Count(n, m) == Cardinality({c \in Late(n) : asked[n][c] = m})

\* The peers still missing something, which alone are told what is new.
PeersMissingAnything(n) == {m \in Known(n) \cap Linked(n, "up") : know[n][m] # Chunks}

\* handleHave: what is known of a peer, and the news of it
WithNews(known, indexes) == IF known = Unknown THEN indexes ELSE known \cup indexes

\* unresponsivePeers, of those not revived a short while ago
Unresponsive(n, quiet) == {m \in Nodes : quiet[m] = Threshold} \ cooling[n]

\* The requests of a plan that leave, through trySend: a peer without a
\* connection is not asked.
Requested(n, free, plan) ==
  {c \in Chunks : free[c] = None /\ plan[c] \notin Linked(n, "down") \cup {None}}

\* onChunkRequest: the requests that are answered, with a chunk held and verified
Served(n, plan, sent) == {c \in sent : plan[c] \in Linked(n, "up") /\ c \in have[plan[c]]}

\* The manager's pump for a session that is not complete: flushHave,
\* expireTimeouts, planChunkRequests, the requests, reviveUnresponsive.
Pump(n) ==
  /\ Downloading(n)
  /\ news' = [news EXCEPT ![n] = {}] /\ UNCHANGED <<have, left>>
  /\ LET told    == PeersMissingAnything(n)
         failed  == [m \in Nodes |-> Least(failures[n][m] + Count(n, m), MaxFailures)]
         quiet   == [m \in Nodes |-> Least(streak[n][m] + Count(n, m), Threshold)]
         free    == [c \in Chunks |-> IF c \in Late(n) THEN None ELSE asked[n][c]]
         revived == Unresponsive(n, quiet)
         gone    == {<<m, n>> : m \in revived}
         heard   == [m \in Nodes |->
                       IF m \notin told THEN know[m]
                       ELSE [know[m] EXCEPT ![n] = WithNews(@, news[n])]]
     IN /\ failures' = Without([failures EXCEPT ![n] = failed], gone, 0)
        /\ streak' = Without([streak EXCEPT ![n] =
                                [m \in Nodes |-> IF m \in revived THEN 0 ELSE quiet[m]]], gone, 0)
        /\ know' = Without(heard, gone, Unknown)
        /\ cooling' = [m \in Nodes |-> IF m = n THEN cooling[n] \cup revived
                                       ELSE IF m \in revived THEN cooling[m] \ {n} ELSE cooling[m]]
        /\ link' = [pair \in Pairs |-> IF pair \in {{n, m} : m \in revived} THEN "down" ELSE link[pair]]
        /\ \E plan \in Plans(have[n], [m \in Known(n) |-> know[n][m]], free, failed) :
             LET sent   == Requested(n, free, plan)
                 served == Served(n, plan, sent)
             IN /\ asked' = Freed([asked EXCEPT ![n] =
                                     [c \in Chunks |-> IF c \in sent THEN plan[c] ELSE free[c]]], gone)
                /\ due' = StillDue([due EXCEPT ![n] = @ \ Late(n)], asked')
                /\ \E lost \in {{}} \cup {{c} : c \in served} :
                     /\ answers' = {a \in answers \cup {<<plan[c], n, c>> : c \in served \ lost} :
                                      ~(n \in {a[1], a[2]} /\ {a[1], a[2]} \cap revived # {})}
                     /\ IF lost = {} THEN UNCHANGED mishaps ELSE Happens("loss")

CooldownEnds(n, m) ==
  /\ m \in cooling[n]
  /\ cooling' = [cooling EXCEPT ![n] = @ \ {m}]
  /\ UNCHANGED <<session, link, answers, left, mishaps>>

-----------------------------------------------------------------------------
(* A chunk arrives: SwarmSession.onChunkData and what the manager does then. *)

Arrival(m, n, c) ==
  /\ <<m, n, c>> \in answers
  /\ answers' = answers \ {<<m, n, c>>}

\* A duplicate, or a session that needs nothing any more.
ChunkIgnored(m, n, c) ==
  /\ Arrival(m, n, c) /\ c \in have[n]
  /\ UNCHANGED <<session, cooling, link, left, mishaps>>

\* It cannot be used: only the request it answers is freed.
Released(m, n, c) ==
  /\ asked' = [asked EXCEPT ![n][c] = IF @ = m THEN None ELSE @]
  /\ due' = StillDue(due, asked')

ChunkRejected(m, n, c) ==
  /\ Arrival(m, n, c) /\ c \notin have[n] /\ m \in Corrupt
  /\ Released(m, n, c)
  /\ failures' = [failures EXCEPT ![n][m] = Least(@ + 1, MaxFailures)]
  /\ UNCHANGED <<have, know, streak, news, cooling, link, left, mishaps>>

ChunkUnstored(m, n, c) ==
  /\ Arrival(m, n, c) /\ c \notin have[n] /\ Happens("disk")
  /\ Released(m, n, c)
  /\ UNCHANGED <<have, know, failures, streak, news, cooling, link, left>>

\* Verified and stored, whoever sent it.
ChunkStored(m, n, c) ==
  /\ Arrival(m, n, c) /\ c \notin have[n] /\ m \notin Corrupt
  /\ have' = [have EXCEPT ![n] = @ \cup {c}] /\ have'[n] # Chunks
  /\ asked' = [asked EXCEPT ![n][c] = None] /\ due' = [due EXCEPT ![n] = @ \ {c}]
  /\ streak' = [streak EXCEPT ![n][m] = 0]
  /\ news' = [news EXCEPT ![n] = @ \cup {c}]
  /\ UNCHANGED <<know, failures, cooling, link, left, mishaps>>

\* The last one: completeSession opens a seed session, which knows nobody yet,
\* and announces the whole file.
LastChunkStored(m, n, c) ==
  /\ Arrival(m, n, c) /\ have[n] = Chunks \ {c} /\ m \notin Corrupt
  /\ have' = [have EXCEPT ![n] = Chunks]
  /\ know' = Announced([know EXCEPT ![n] = [p \in Nodes |-> Unknown]], n, Chunks, Linked(n, "up"), {})
  /\ asked' = [asked EXCEPT ![n] = [d \in Chunks |-> None]] /\ due' = [due EXCEPT ![n] = {}]
  /\ failures' = [failures EXCEPT ![n] = [p \in Nodes |-> 0]]
  /\ streak' = [streak EXCEPT ![n] = [p \in Nodes |-> 0]]
  /\ news' = [news EXCEPT ![n] = {}]
  /\ UNCHANGED <<cooling, link, left, mishaps>>

ChunkArrives(m, n, c) ==
  \/ ChunkIgnored(m, n, c) \/ ChunkRejected(m, n, c) \/ ChunkUnstored(m, n, c)
  \/ ChunkStored(m, n, c) \/ LastChunkStored(m, n, c)

-----------------------------------------------------------------------------

Next ==
  \/ \E n \in Nodes :
       \/ Announce(n) \/ Pump(n) \/ Leaves(n) \/ Restarts(n) \/ SignallingReconnects(n)
       \/ \E c \in Chunks : TimesOut(n, c)
       \/ \E m \in Nodes : \/ Connects(n, m) \/ ConnectionCloses(n, m) \/ GoesSilent(n, m)
                           \/ CooldownEnds(n, m)
  \/ \E a \in answers : ChunkArrives(a[1], a[2], a[3])

Spec == Init /\ [][Next]_vars

(***************************************************************************)
(* Fairness: the two timers of a manager fire, time passes, a chunk that   *)
(* is on its way arrives, and bridges that stay in the room connect.       *)
(***************************************************************************)
FairSpec ==
  /\ Spec
  /\ \A n \in Nodes :
       /\ WF_vars(Pump(n)) /\ WF_vars(Announce(n))
       /\ WF_vars(\E c \in Chunks : TimesOut(n, c))
       /\ WF_vars(\E m \in Nodes : Connects(n, m) \/ CooldownEnds(n, m))
       /\ \A m \in Nodes \ {n} : WF_vars(\E c \in Chunks : ChunkArrives(m, n, c))

-----------------------------------------------------------------------------
(* Properties. *)

\* Types; a timeout belongs to a request that is out.
TypeOK ==
  /\ have \in [Nodes -> SUBSET Chunks] /\ news \in [Nodes -> SUBSET Chunks]
  /\ \A n, m \in Nodes : know[n][m] # Unknown => know[n][m] \subseteq Chunks
  /\ asked \in [Nodes -> Tables]
  /\ \A n \in Nodes : due[n] \subseteq {c \in Chunks : asked[n][c] # None}
  /\ failures \in [Nodes -> [Nodes -> 0..MaxFailures]]
  /\ streak \in [Nodes -> [Nodes -> 0..Threshold]]
  /\ cooling \in [Nodes -> SUBSET Nodes]
  /\ link \in [Pairs -> {"up", "silent", "down"}]
  /\ answers \subseteq Nodes \X Nodes \X Chunks
  /\ left \subseteq Nodes /\ mishaps \in 0..MaxMishaps

\* Request slots: none is spent on a chunk that is there already or on a peer
\* that was removed, and neither limit is exceeded, whatever order answers,
\* timeouts, disconnects and pumps come in.  (The types with it: due holds
\* requests only.)
SlotsSound ==
  TypeOK /\ \A n \in Nodes :
    /\ \A c \in Chunks : asked[n][c] # None => c \notin have[n] /\ asked[n][c] \in Known(n)
    /\ \A m \in Nodes : Cardinality(AskedOf(asked[n], m)) <= PerPeer
    /\ Cardinality({c \in Chunks : asked[n][c] # None}) <= Total

\* Nobody is believed to hold a chunk it cannot serve.
KnowledgeSound == \A n, m \in Nodes : know[n][m] = Unknown \/ know[n][m] \subseteq have[m]

\* Everybody who can connect to an honest seed that stays gets the whole file,
\* although chunks are lost, corrupt, late, and connections break or go silent.
DownloadCompletes ==
  \A n \in Nodes \ Leavers :
    (\E m \in Seeds \ (Corrupt \cup Leavers) : m = n \/ {n, m} \in Pairs) => <>Complete(n)

\* The swarm outlives its seeder: once those who stay, all connected, hold every
\* chunk between them, each of them gets the whole file.
SwarmOutlivesSeeder ==
  LET stay == Nodes \ Leavers
  IN (\A n, m \in stay : n = m \/ {n, m} \in Pairs) =>
       UNION {have[n] : n \in stay} = Chunks ~> \A n \in stay : Complete(n)
=============================================================================
