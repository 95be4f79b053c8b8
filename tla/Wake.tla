-------------------------------- MODULE Wake --------------------------------
(***************************************************************************)
(* WakeRunner (wake.ts): runs a command when mail arrives, one at a time,  *)
(* after a fixed delay, and at most Limit times in a window of time.       *)
(*                                                                         *)
(* Time passes in ticks.  A timer holds the ticks until it is due; it may  *)
(* fire any time later.  Runs are kept by their age, which is no longer    *)
(* counted when it is out of the window.  The clock never goes back.       *)
(***************************************************************************)
EXTENDS Integers, Sequences, FiniteSets, Lists

CONSTANTS
  Items,       \* messages
  Debounce,    \* ticks from the first message to the wake
  Window,      \* ticks of the rate window (a minute)
  Limit        \* runs allowed in a window, 0 for any number

ASSUME WakeAssumption ==
  Debounce \in Nat /\ Window \in Nat \ {0} /\ Limit \in Nat

VARIABLES
  pending,     \* messages for the next run
  timer,       \* ticks until the timer is due, Off if there is none
  running,     \* whether the command of this runner has not ended
  rerun,       \* rerunRequested
  recent,      \* recentRuns, by age
  disposed,
  ran,         \* the ages of all runs started in the window, to state the limit
  forgotten    \* messages that no later run will be started for

wakeVars == <<pending, timer, running, rerun, recent, disposed, ran, forgotten>>

Off == -1
Older(ages) == [i \in 1 .. Len(ages) |-> IF ages[i] < Window THEN ages[i] + 1 ELSE Window]
InWindow(ages) == Only(ages, 0 .. Window - 1)

WakeInit ==
  /\ pending = {} /\ forgotten = {} /\ timer = Off
  /\ running = FALSE /\ rerun = FALSE /\ disposed = FALSE
  /\ recent = <<>> /\ ran = <<>>

\* schedule: the timer after a request for d more ticks
Scheduled(d) == IF disposed \/ timer # Off THEN timer ELSE d

\* A variant: what arrives during a run is taken for seen.
NotifyIfIdle(m) ==
  /\ IF disposed \/ running
       THEN UNCHANGED <<pending, timer, forgotten>>
       ELSE /\ pending' = pending \cup {m}
            /\ timer' = Scheduled(Debounce)
            /\ forgotten' = forgotten \ {m}
  /\ UNCHANGED <<running, rerun, recent, disposed, ran>>

\* notify
Notify(m) ==
  /\ IF disposed
       THEN UNCHANGED <<pending, timer>> /\ forgotten' = forgotten \cup {m}
       ELSE /\ pending' = pending \cup {m}
            /\ timer' = Scheduled(Debounce)
            /\ forgotten' = forgotten \ {m}
  /\ UNCHANGED <<running, rerun, recent, disposed, ran>>

\* dispose
Dispose ==
  /\ ~disposed
  /\ disposed' = TRUE /\ timer' = Off /\ pending' = {}
  /\ forgotten' = forgotten \cup pending
  /\ UNCHANGED <<running, rerun, recent, ran>>

\* A variant: one run too many.
WaitFromNext ==
  IF Limit = 0 \/ Len(InWindow(recent)) <= Limit THEN 0
  ELSE Window - InWindow(recent)[1] + 1

\* throttleDelayMs
Wait ==
  IF Limit = 0 \/ Len(InWindow(recent)) < Limit THEN 0
  ELSE Window - InWindow(recent)[1] + 1

(***************************************************************************)
(* The timer fires.                                                        *)
(***************************************************************************)
Due == timer = 0
MayRunAgain == Due /\ pending # {} /\ Wait = 0  \* a variant
MayRun == Due /\ pending # {} /\ ~running /\ Wait = 0

\* Nothing to do, or busy.
FireInVain ==
  /\ Due /\ (pending = {} \/ running)
  /\ timer' = Off
  /\ rerun' = (rerun \/ pending # {})
  /\ UNCHANGED <<pending, running, recent, disposed, ran, forgotten>>

FireTooEarly ==
  /\ Due /\ pending # {} /\ ~running /\ Wait > 0
  /\ timer' = Wait
  /\ recent' = InWindow(recent)
  /\ UNCHANGED <<pending, running, rerun, disposed, ran, forgotten>>

\* What run records before it starts the command.
Recorded ==
  /\ pending' = {}
  /\ recent' = IF Limit > 0 THEN Append(InWindow(recent), 0) ELSE recent
  /\ ran' = IF Limit > 0 THEN Append(InWindow(ran), 0) ELSE ran

\* fire, run: the command starts.
Run ==
  /\ MayRun /\ Recorded
  /\ timer' = Off /\ running' = TRUE
  /\ UNCHANGED <<rerun, disposed, forgotten>>

\* spawn throws: settle finds nothing to run, and the batch is gone.
RunFails ==
  /\ MayRun /\ Recorded
  /\ timer' = IF rerun THEN Debounce ELSE Off
  /\ rerun' = FALSE
  /\ forgotten' = forgotten \cup pending
  /\ UNCHANGED <<running, disposed>>

\* A variant: a run that ends does not look at what has arrived.
SettledForGood == UNCHANGED <<timer, rerun>>

\* settle
Settled ==
  IF disposed \/ ~(rerun \/ pending # {}) THEN UNCHANGED <<timer, rerun>>
  ELSE timer' = Scheduled(Debounce) /\ rerun' = FALSE

\* exit or error of the command
CommandEnds ==
  /\ running
  /\ running' = FALSE
  /\ Settled
  /\ UNCHANGED <<pending, recent, disposed, ran, forgotten>>

SoonerAnyway(d) == d - 1  \* a variant
Sooner(d) == IF d > 0 THEN d - 1 ELSE d

Pass ==
  /\ timer' = Sooner(timer)
  /\ recent' = Older(recent)
  /\ ran' = InWindow(Older(ran))
  /\ UNCHANGED <<pending, running, rerun, disposed, forgotten>>

(***************************************************************************)
(* Properties                                                              *)
(***************************************************************************)
\* Whatever the delays, failed starts and messages that arrive while it
\* waits, one runner starts no more than Limit commands in any window.  Its
\* history is kept in memory, so the runner of a restarted sidecar counts anew.
RateLimited == Limit > 0 => Len(ran) <= Limit

\* A message that waits for a run has a timer or a running command to bring
\* it about: no sequence of calls leaves one waiting for the next message.
SomethingBringsARun == pending # {} => timer # Off \/ running
=============================================================================
