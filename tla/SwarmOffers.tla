----------------------------- MODULE SwarmOffers -----------------------------
(***************************************************************************)
(* How the swarm manager (swarm-manager.ts) gets from `fetch` to a saved   *)
(* file: offers from several peers, the pages of the chunk hashes asked    *)
(* from one peer after the other and assembled, the session that is        *)
(* started with them and what happens as it finishes.  Chunks are in       *)
(* Swarm, the part file in PartFile.                                       *)
(*                                                                         *)
(* One file is followed.  All offers name its id; the one of a mistaken    *)
(* peer describes its chunks wrongly, and a damaged peer's list of hashes  *)
(* is not the one its offer names.                                         *)
(***************************************************************************)
EXTENDS Naturals, Sequences, SequencesExt

CONSTANTS
  Peers,
  Sound,       \* peers that are neither mistaken nor damaged
  PageCount,   \* pages of the list of hashes
  Batch,       \* pages in one request (8)
  MaxMishaps   \* bound: lost or late messages, failed starts and finishes, departures, stops

ASSUME SwarmOffersAssumption ==
  /\ Sound \subseteq Peers
  /\ {PageCount, Batch} \subseteq Nat \ {0} /\ MaxMishaps \in Nat

VARIABLES
  nature,      \* of each peer: "sound", "mistaken" or "damaged"
  manager,     \* "running" or "stopped"
  asked,       \* whether fetch was called
  wanted,
  offer,       \* the offer record, or NoOffer
  session,     \* "none", "fetch" or "seed"
  reported,    \* whether an error was reported that ended the fetch
  present,     \* peers with a connection
  requests,    \* manifest requests under way: [peer, pages]
  answers,     \* manifest pages under way: [peer, page]
  mishaps

offersVars == <<nature, manager, asked, wanted, offer, session, reported, present, requests, answers,
                mishaps>>

Pages == 1 .. PageCount
NoPages == [i \in Pages |-> "missing"]
NoOffer == [summary |-> "none", hashes |-> "none", sources |-> <<>>, pages |-> NoPages,
            fresh |-> {}, cursor |-> 0]

OffersInit ==
  /\ nature \in {k \in [Peers -> {"sound", "mistaken", "damaged"}] : \A p \in Sound : k[p] = "sound"}
  /\ manager = "running" /\ asked = FALSE /\ wanted = FALSE /\ offer = NoOffer
  /\ session = "none" /\ reported = FALSE /\ present = {}
  /\ requests = {} /\ answers = {} /\ mishaps = 0

Mishap == mishaps < MaxMishaps /\ mishaps' = mishaps + 1
NoMishap == UNCHANGED mishaps

Summary(p) == IF nature[p] = "mistaken" THEN "mistaken" ELSE "right"
PageOf(p) == IF nature[p] = "damaged" THEN "wrong" ELSE "right"

\* createOfferRecord, of a manifest of our own
OwnOffer(summary) == [NoOffer EXCEPT !.summary = summary, !.hashes = "right"]

(***************************************************************************)
(* requestManifestPages                                                    *)
(***************************************************************************)
Wants(o) ==
  LET open == {i \in Pages : o.pages[i] = "missing" /\ i \notin o.fresh} IN
    {i \in open : Cardinality({j \in open : j < i}) < Batch}

\* The first source after the cursor that the transport takes the request for.
Rotation(o) == [i \in 1 .. Len(o.sources) |-> ((o.cursor + i - 1) % Len(o.sources)) + 1]

AskPages(o, refusing) ==
  LET turns == SelectSeq(Rotation(o), LAMBDA i : o.sources[i] \notin refusing) IN
    IF o.hashes # "none" \/ Wants(o) = {} \/ turns = <<>>
      THEN offer' = o /\ UNCHANGED requests
      ELSE /\ offer' = [o EXCEPT !.cursor = turns[1] % Len(o.sources),
                                 !.fresh = @ \cup Wants(o)]
           /\ requests' = requests \cup {[peer |-> o.sources[turns[1]], pages |-> Wants(o)]}

(***************************************************************************)
(* completeSession and startDownload                                       *)
(***************************************************************************)
Saved(o) ==
  /\ o.summary = "right"
  /\ session' = "seed" /\ offer' = OwnOffer(o.summary) /\ reported' = FALSE
  /\ UNCHANGED mishaps

\* A variant: the file is not asked for again.
NotTheFileForgets(o) ==
  /\ IF o.summary = "right" THEN Mishap ELSE NoMishap
  /\ session' = "none" /\ offer' = NoOffer /\ wanted' = FALSE
  /\ reported' = FALSE

\* integrityFailure: a part file that was changed, or hashes of another file
NotTheFile(o) ==
  /\ IF o.summary = "right" THEN Mishap ELSE NoMishap
  /\ session' = "none" /\ offer' = NoOffer /\ wanted' = TRUE
  /\ reported' = FALSE

\* The lock was lost, or the file cannot be moved.
FinishFails(o) ==
  /\ Mishap
  /\ session' = "none" /\ offer' = o /\ reported' = TRUE

Completed(o, still) ==
  \/ Saved(o) /\ wanted' = still
  \/ FinishFails(o) /\ wanted' = still
  \/ NotTheFile(o)

\* Another process may hold the part file; one that is whole is finished at once.
StartDownload(o) ==
  IF session # "none" THEN offer' = o /\ UNCHANGED <<session, wanted, reported, mishaps>>
  ELSE \/ /\ Mishap
          /\ offer' = o /\ UNCHANGED <<session, wanted, reported>>
       \/ /\ session' = "fetch" /\ offer' = o /\ wanted' = FALSE
          /\ UNCHANGED <<reported, mishaps>>
       \/ Completed(o, FALSE)

\* What fetch and a new source or page lead to.
GoOn(o) ==
  IF o.hashes # "none" THEN StartDownload(o) /\ UNCHANGED requests
  ELSE /\ \E refusing \in SUBSET Peers : AskPages(o, refusing)
       /\ UNCHANGED <<session, wanted, reported, mishaps>>

(***************************************************************************)
(* The user.                                                               *)
(***************************************************************************)
Fetch ==
  /\ ~asked \/ reported
  /\ asked' = TRUE
  /\ IF session # "none"
       THEN reported' = FALSE /\ UNCHANGED <<wanted, offer, session, requests, mishaps>>
     ELSE IF offer.hashes = "none"
       THEN /\ wanted' = TRUE /\ reported' = FALSE
            /\ \E refusing \in SUBSET Peers : AskPages(offer, refusing)
            /\ UNCHANGED <<session, mishaps>>
     ELSE \/ /\ Mishap
             /\ wanted' = TRUE /\ reported' = FALSE /\ UNCHANGED <<offer, session, requests>>
          \/ /\ session' = "fetch" /\ wanted' = FALSE /\ reported' = FALSE
             /\ UNCHANGED <<offer, requests, mishaps>>
          \/ Completed(offer, FALSE) /\ UNCHANGED requests
  /\ UNCHANGED <<nature, manager, present, answers>>

\* seed: a copy of the file on this machine
Seed ==
  /\ session # "seed" /\ offer.summary # "mistaken"
  /\ session' = "seed" /\ offer' = OwnOffer("right")
  /\ UNCHANGED <<nature, manager, asked, wanted, reported, present, requests, answers, mishaps>>

Stop ==
  /\ manager = "running" /\ Mishap
  /\ manager' = "stopped" /\ offer' = [offer EXCEPT !.fresh = {}]
  /\ UNCHANGED <<nature, asked, wanted, session, reported, present, requests, answers>>

StartAgain ==
  /\ manager = "stopped" /\ manager' = "running"
  /\ UNCHANGED <<nature, asked, wanted, offer, session, reported, present, requests, answers, mishaps>>

(***************************************************************************)
(* Messages; a manager that is stopped does not listen.                    *)
(***************************************************************************)
\* handleOffer; a list of hashes that comes with an offer has been checked.
OfferHeard(p, inline) ==
  /\ manager = "running" /\ p \in present /\ inline => nature[p] # "damaged"
  /\ LET new == [NoOffer EXCEPT !.summary = Summary(p)]
         base == IF offer = NoOffer THEN new ELSE offer
         o == [base EXCEPT
                 !.sources = IF p \in ToSet(@) THEN @ ELSE Append(@, p),
                 !.hashes = IF inline /\ @ = "none" THEN "right" ELSE @]
     IN /\ base.summary = Summary(p)
        /\ IF wanted THEN GoOn(o)
           ELSE offer' = o /\ UNCHANGED <<session, wanted, reported, requests, mishaps>>
  /\ UNCHANGED <<nature, manager, asked, present, answers>>

\* handleManifestRequest of a peer: pages the transport takes
PeerAnswers(m) ==
  /\ m \in requests /\ requests' = requests \ {m}
  /\ \E sent \in SUBSET m.pages :
       /\ IF sent = m.pages THEN NoMishap ELSE Mishap
       /\ answers' = answers \cup {[peer |-> m.peer, page |-> i] : i \in sent}
  /\ UNCHANGED <<nature, manager, asked, wanted, offer, session, reported, present>>

\* A variant: the list is not compared with the hash the offer names.
WholeAnyway(pages) == \A i \in Pages : pages[i] # "missing"
Whole(pages) == \A i \in Pages : pages[i] = "right"

\* handleManifestPage
PageHeard(m) ==
  /\ m \in answers /\ answers' = answers \ {m}
  /\ LET pages == [offer.pages EXCEPT ![m.page] = PageOf(m.peer)]
         o == [offer EXCEPT !.pages = pages, !.fresh = @ \ {m.page}]
         cleared == [offer EXCEPT !.pages = NoPages, !.fresh = {}]
         right == IF \A i \in Pages : pages[i] = "right" THEN "right" ELSE "wrong"
     IN IF ~(/\ manager = "running" /\ wanted /\ offer.hashes = "none"
             /\ m.peer \in ToSet(offer.sources) /\ offer.summary = Summary(m.peer))
          THEN UNCHANGED <<wanted, offer, session, reported, requests, mishaps>>
        ELSE IF \E i \in Pages : pages[i] = "missing" THEN GoOn(o)
        ELSE IF Whole(pages) THEN GoOn([cleared EXCEPT !.hashes = right])
        ELSE offer' = cleared /\ UNCHANGED <<wanted, session, reported, requests, mishaps>>
  /\ UNCHANGED <<nature, manager, asked, present>>

(***************************************************************************)
(* Timers, the session, peers that come and go.                            *)
(***************************************************************************)
\* pump, by the interval or as a slot is free
Pump ==
  /\ manager = "running" /\ wanted /\ offer # NoOffer
  /\ \E refusing \in SUBSET Peers : AskPages(offer, refusing)
  /\ UNCHANGED <<nature, manager, asked, wanted, session, reported, present, answers, mishaps>>

\* Two seconds pass: pages that were asked for may be asked for again.
RetryTime ==
  /\ offer.fresh # {} /\ offer' = [offer EXCEPT !.fresh = {}]
  /\ IF requests \cup answers = {} THEN NoMishap ELSE Mishap
  /\ UNCHANGED <<nature, manager, asked, wanted, session, reported, present, requests, answers>>

\* The last chunk arrives.
SessionCompletes ==
  /\ manager = "running" /\ session = "fetch"
  /\ Completed(offer, wanted)
  /\ UNCHANGED <<nature, manager, asked, present, requests, answers>>

PeerComes(p) ==
  /\ p \notin present /\ present' = present \cup {p}
  /\ UNCHANGED <<nature, manager, asked, wanted, offer, session, reported, requests, answers, mishaps>>

\* peer:disconnected
PeerGoes(p) ==
  /\ p \in present /\ Mishap
  /\ present' = present \ {p}
  /\ offer' = IF manager = "stopped" THEN offer
              ELSE [offer EXCEPT !.sources = SelectSeq(@, LAMBDA q : q # p), !.fresh = {}]
  /\ requests' = {m \in requests : m.peer # p} /\ answers' = {m \in answers : m.peer # p}
  /\ UNCHANGED <<nature, manager, asked, wanted, session, reported>>

RequestLost(m) ==
  /\ m \in requests /\ Mishap /\ requests' = requests \ {m}
  /\ UNCHANGED <<nature, manager, asked, wanted, offer, session, reported, present, answers>>

OffersNext ==
  \/ Fetch \/ Seed \/ Stop \/ StartAgain \/ Pump \/ RetryTime \/ SessionCompletes
  \/ \E p \in Peers : PeerComes(p) \/ PeerGoes(p) \/ \E inline \in BOOLEAN : OfferHeard(p, inline)
  \/ \E m \in requests : PeerAnswers(m) \/ RequestLost(m)
  \/ \E m \in answers : PageHeard(m)

(***************************************************************************)
(* Properties                                                              *)
(***************************************************************************)
\* A file that was asked for is waited for, being fetched or held, until the
\* user has been told that it could not be finished, whatever the peers offer
\* and however often the manager stops; and it is never fetched by a list of
\* hashes that is not the one the offer names.
FetchSound ==
  /\ asked /\ ~reported => wanted \/ session # "none"
  /\ offer.hashes # "wrong"
=============================================================================
