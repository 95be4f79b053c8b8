--------------------------- MODULE FetchCommand ---------------------------
(***************************************************************************)
(* The command "fetch" of src/src/cli.ts (runFetch): it joins the room,    *)
(* looks for an offer that its query names, downloads it, and gives up on  *)
(* an error or when no new chunk has come for the time --timeout allows.   *)
(* What it reports is its exit code.  The offers are those of SwarmOffers, *)
(* here only their names; the download is one of Swarm, here only the      *)
(* number of its chunks that are verified.                                 *)
(*                                                                         *)
(* Time is counted in intervals of the timer that watches for a stall.     *)
(* Bounds: MaxTime intervals, Chunks chunks.                               *)
(***************************************************************************)
EXTENDS Naturals, FiniteSets

CONSTANTS
  Files,      \* the files of the room: [id, name]; an id is a sequence of two parts
  Queries,    \* what a user may type
  Timeout,    \* --timeout, in intervals; 0 is no limit
  Chunks, MaxTime

ASSUME FetchAssumption ==
  /\ IsFiniteSet(Files) /\ \A f, g \in Files : f.id = g.id => f = g
  /\ Timeout \in Nat /\ Chunks \in Nat \ {0} /\ MaxTime \in Nat

VARIABLES
  query,
  offers,      \* the files the peers offer
  stage,       \* of the command, see Stages
  manifest,    \* the file it fetches
  have,        \* progress().haveChunks, 0 without a session
  now,         \* the time
  lastChunks,  \* of the timer: the count it saw last, or NoCount
  lastProgressAt,
  outcome,     \* what the promise "finished" holds: "pending", "complete" or "null"
  failed, stalled,
  managing,    \* the manager runs
  exit,        \* the exit code, or None
  saved,       \* ghost: the file is in its place
  gainedAt,    \* ghost: when the last chunk came
  unseeded     \* ghost: the file was saved and could not be opened to seed it

fetchVars == <<query, offers, stage, manifest, have, now, lastChunks, lastProgressAt, outcome,
               failed, stalled, managing, exit, saved, gainedAt, unseeded>>

\* Before connect; looking for the offer; waiting for the promise; seeding
\* for others; and at its end.
Stages == {"joining", "looking", "waiting", "seeding", "ended"}

None == 99           \* no exit code
NoCount == Chunks + 1  \* what the timer has seen at first

FetchInit ==
  /\ query \in Queries
  /\ offers = {} /\ stage = "joining" /\ manifest = {}
  /\ have = 0 /\ now = 0 /\ lastChunks = NoCount /\ lastProgressAt = 0
  /\ outcome = "pending" /\ failed = FALSE /\ stalled = FALSE
  /\ managing = FALSE /\ exit = None /\ saved = FALSE /\ gainedAt = 0 /\ unseeded = FALSE

\* resolveOffer: a full id, else a name that one offer has, else a prefix of
\* the id of one offer.  An ambiguous query names nothing.
Resolved(text, known) ==
  LET exact == {f \in known : f.id = text}
      byName == {f \in known : f.name = text}
      byPrefix == {f \in known : f.prefix = text}
  IN IF exact # {} THEN exact
     ELSE IF Cardinality(byName) = 1 THEN byName
     ELSE IF Cardinality(byPrefix) = 1 THEN byPrefix
     ELSE {}

\* manager.stop, disconnect and the return of the command with a code
Ends(code) == stage' = "ended" /\ managing' = FALSE /\ exit' = code

-----------------------------------------------------------------------------
(* The command.                                                            *)

Joined ==
  /\ stage = "joining"
  /\ stage' = "looking" /\ managing' = TRUE
  /\ UNCHANGED <<query, offers, manifest, have, now, lastChunks, lastProgressAt, outcome,
                 failed, stalled, exit, saved, gainedAt, unseeded>>

\* The timers start with the download.
Watches == lastChunks' = NoCount /\ lastProgressAt' = now /\ gainedAt' = now

\* completeSession: the file is checked and moved to its place, and reported;
\* or one of these fails (onError); or the file is saved, but opening it to
\* seed it throws, and nobody is told.
completeSession ==
  \/ /\ have' = Chunks /\ saved' = TRUE /\ outcome' = "complete"
     /\ UNCHANGED <<failed, unseeded>>
  \/ /\ have' = 0 /\ outcome' = "null" /\ failed' = TRUE
     /\ UNCHANGED <<saved, unseeded>>
  \/ /\ have' = Chunks /\ saved' = TRUE /\ unseeded' = TRUE
     /\ UNCHANGED <<outcome, failed>>

\* An offer is found.  manager.fetch starts the session, takes up a part file
\* of an earlier run that has some chunks, waits for the list of hashes first,
\* or fails to start.  A part file that is whole is finished at once.
Found ==
  /\ stage = "looking" /\ Resolved(query, offers) # {}
  /\ manifest' = Resolved(query, offers)
  /\ \/ /\ stage' = "waiting" /\ Watches
        /\ \/ \E n \in 0 .. Chunks - 1 :
                have' = n /\ UNCHANGED <<outcome, saved, failed, unseeded>>
           \/ completeSession
        /\ UNCHANGED <<managing, exit>>
     \/ /\ Ends(1) /\ failed' = TRUE /\ outcome' = "null"
        /\ UNCHANGED <<have, saved, lastChunks, lastProgressAt, gainedAt, unseeded>>
  /\ UNCHANGED <<query, offers, now, stalled>>

\* The deadline of the look for an offer, at most a minute.
NotFound ==
  /\ stage = "looking" /\ Resolved(query, offers) = {}
  /\ Timeout > 0 /\ now >= Timeout
  /\ Ends(1)
  /\ UNCHANGED <<query, offers, manifest, have, now, lastChunks, lastProgressAt, outcome,
                 failed, stalled, saved, gainedAt, unseeded>>

\* The promise is settled: the command goes on at once, and either reports
\* what went wrong or ends in success, seeding for others if it was asked to.
Finished ==
  /\ stage = "waiting" /\ outcome # "pending"
  /\ \/ outcome = "null" /\ Ends(1)
     \/ outcome = "complete" /\ Ends(0)
     \/ outcome = "complete" /\ stage' = "seeding" /\ UNCHANGED <<managing, exit>>
  /\ UNCHANGED <<query, offers, manifest, have, now, lastChunks, lastProgressAt, outcome,
                 failed, stalled, saved, gainedAt, unseeded>>

\* Ctrl+C while seeding; earlier it ends the process.
Interrupted ==
  /\ stage \in {"joining", "looking", "waiting", "seeding"}
  /\ Ends(IF stage = "seeding" THEN 0 ELSE 130)
  /\ UNCHANGED <<query, offers, manifest, have, now, lastChunks, lastProgressAt, outcome,
                 failed, stalled, saved, gainedAt, unseeded>>

-----------------------------------------------------------------------------
(* What goes on meanwhile.  The continuation of a settled promise comes    *)
(* before any other event.                                                 *)

Waits == ~(stage = "waiting" /\ outcome # "pending")

OfferComesOrGoes(f) ==
  /\ managing /\ Waits
  /\ offers' = IF f \in offers THEN offers \ {f} ELSE offers \cup {f}
  /\ UNCHANGED <<query, stage, manifest, have, now, lastChunks, lastProgressAt, outcome, failed,
                 stalled, managing, exit, saved, gainedAt, unseeded>>

Downloading == stage = "waiting" /\ outcome = "pending"

\* A chunk is verified; the last one completes the session.
ChunkVerified ==
  /\ Downloading /\ have < Chunks
  /\ gainedAt' = now
  /\ \/ /\ have + 1 < Chunks /\ have' = have + 1
        /\ UNCHANGED <<outcome, failed, saved, unseeded>>
     \/ have + 1 = Chunks /\ completeSession
  /\ UNCHANGED <<query, offers, stage, manifest, now, lastChunks, lastProgressAt, stalled,
                 managing, exit>>

\* startDownload fails once the list of hashes has come: onError.
StartFails ==
  /\ Downloading /\ have = 0
  /\ outcome' = "null" /\ failed' = TRUE
  /\ UNCHANGED <<query, offers, stage, manifest, have, now, lastChunks, lastProgressAt, stalled,
                 managing, exit, saved, gainedAt, unseeded>>

\* A variant: the timer does not remember when the count changed.
StallTimerForgetful ==
  /\ Downloading /\ Timeout > 0
  /\ \/ /\ have # lastChunks /\ lastChunks' = have
        /\ UNCHANGED <<lastProgressAt, outcome, stalled>>
     \/ /\ have = lastChunks /\ now + 1 - lastProgressAt >= Timeout
        /\ stalled' = TRUE /\ outcome' = "null"
        /\ UNCHANGED <<lastChunks, lastProgressAt>>
     \/ /\ have = lastChunks /\ now + 1 - lastProgressAt < Timeout
        /\ UNCHANGED <<lastChunks, lastProgressAt, outcome, stalled>>

\* The timer that watches for a stall, at the end of an interval.
StallTimer ==
  /\ Downloading /\ Timeout > 0
  /\ \/ /\ have # lastChunks /\ lastChunks' = have /\ lastProgressAt' = now + 1
        /\ UNCHANGED <<outcome, stalled>>
     \/ /\ have = lastChunks /\ now + 1 - lastProgressAt >= Timeout
        /\ stalled' = TRUE /\ outcome' = "null"
        /\ UNCHANGED <<lastChunks, lastProgressAt>>
     \/ /\ have = lastChunks /\ now + 1 - lastProgressAt < Timeout
        /\ UNCHANGED <<lastChunks, lastProgressAt, outcome, stalled>>

Time ==
  /\ Waits /\ stage \in {"looking", "waiting"} /\ now < MaxTime
  /\ now' = now + 1
  /\ \/ StallTimer
     \/ /\ ~(Downloading /\ Timeout > 0)
        /\ UNCHANGED <<lastChunks, lastProgressAt, outcome, stalled>>
  /\ UNCHANGED <<query, offers, stage, manifest, have, failed, managing, exit, saved, gainedAt,
                 unseeded>>

FetchNext ==
  \/ Joined \/ Found \/ NotFound \/ Finished \/ Interrupted \/ ChunkVerified
  \/ StartFails \/ Time
  \/ \E f \in Files : OfferComesOrGoes(f)

-----------------------------------------------------------------------------
(* Correctness.                                                            *)

\* A script that goes on after fetch is told the truth: success means that
\* the file was saved, and failure that it was not, unless it was saved and
\* could not be opened again.
ExitTellsTheTruth ==
  /\ exit = 0 => saved
  /\ exit = 1 => ~saved \/ unseeded

\* "--timeout limits how long the download may go without a new verified
\* chunk, so a large but steady transfer is never cut off part way."
SteadyNeverCut == stalled => now - gainedAt >= Timeout

\* What is fetched is one file, the one the query named.
OneFileFetched ==
  stage \in {"waiting", "seeding"} =>
    \E f \in Files : manifest = {f} /\ query \in {f.id, f.name, f.prefix}

\* What a user of fetch can rely on: resolveOffer, the promise that the
\* first of completion, error and stall settles, and the timers of runFetch.
FetchTruthful == ExitTellsTheTruth /\ SteadyNeverCut /\ OneFileFetched
=============================================================================
