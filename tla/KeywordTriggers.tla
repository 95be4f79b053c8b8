-------------------------- MODULE KeywordTriggers --------------------------
(***************************************************************************)
(* The keyword triggers of the message bus (src/src/message-bus.ts):       *)
(* onKeyword, removeTrigger and checkTriggers.  A handler may itself       *)
(* register and remove triggers, and throw, while they are being gone      *)
(* through.  A word stands for a text and for the pattern that matches it. *)
(*                                                                         *)
(* Bounds: MaxTriggers registrations, MaxTexts messages with a text.       *)
(***************************************************************************)
EXTENDS Naturals, FiniteSets

CONSTANTS Words, MaxTriggers, MaxTexts

Nothing == "nothing"

ASSUME TriggersAssumption == MaxTriggers \in Nat /\ MaxTexts \in Nat /\ Nothing \notin Words

VARIABLES
  triggers,    \* the registered triggers: [id, word]
  lastId,      \* nextTriggerId - 1
  said,        \* the word of the message being checked, or Nothing
  texts,       \* messages checked so far, this one included
  ids,         \* the ids that checkTriggers has still to look at
  before,      \* ghost: the triggers when the message came
  spared,      \* ghost: those removed since then, before their handler was called
  ran          \* ghost: the ids whose handler was called for this message, with how often

triggersVars == <<triggers, lastId, said, texts, ids, before, spared, ran>>

IdsOf(set) == {t.id : t \in set}

TriggersInit ==
  /\ triggers = {} /\ lastId = 0 /\ said = Nothing /\ texts = 0
  /\ ids = {} /\ before = {} /\ spared = {} /\ ran = [id \in 1..MaxTriggers |-> 0]

\* onKeyword and removeTrigger (clear removes all), called for old and new triggers.
Edited(gone, new) ==
  /\ lastId + Cardinality(new) <= MaxTriggers
  /\ triggers' = (triggers \ gone) \cup {[id |-> lastId + 1, word |-> w] : w \in new}
  /\ lastId' = lastId + Cardinality(new)
  /\ spared' = spared \cup {t \in gone : ran'[t.id] = 0}

\* One edit between two messages: an id is used once.
OnKeyword(w) ==
  /\ said = Nothing /\ UNCHANGED <<said, texts, ids, before, ran>>
  /\ Edited({}, {w})

RemoveTrigger(t) ==
  /\ said = Nothing /\ UNCHANGED <<said, texts, ids, before, ran>>
  /\ Edited({t}, {})

\* handleIncoming of a chat message with a text: a copy of the ids is gone through.
MessageComes(w) ==
  /\ said = Nothing /\ texts < MaxTexts
  /\ said' = w /\ texts' = texts + 1
  /\ ids' = IdsOf(triggers) /\ before' = triggers /\ spared' = {}
  /\ ran' = [id \in 1..MaxTriggers |-> 0]
  /\ UNCHANGED <<triggers, lastId>>

\* A variant: the triggers themselves were copied when the message came.
DueInCopy(id) == [id |-> id, word |-> said] \in before

\* The trigger is still there, and its pattern matches.
Due(id) == [id |-> id, word |-> said] \in triggers

\* One turn of checkTriggers: a trigger that is due is called; its handler edits
\* the triggers, and whether it throws makes no difference to the rest.
CheckNext ==
  /\ \E id \in ids :
       /\ \A j \in ids : id <= j
       /\ IF Due(id)
          THEN /\ ran' = [ran EXCEPT ![id] = @ + 1]
               /\ \E gone \in SUBSET triggers, new \in {{}} \cup {{w} : w \in Words} :
                    Edited(gone, new)
          ELSE UNCHANGED <<triggers, lastId, spared, ran>>
       /\ ids' = ids \ {id}
  /\ UNCHANGED <<said, texts, before>>

CheckDone ==
  /\ said # Nothing /\ ids = {}
  /\ said' = Nothing
  /\ UNCHANGED <<triggers, lastId, texts, ids, before, spared, ran>>

TriggersNext ==
  \/ \E w \in Words : OnKeyword(w) \/ MessageComes(w)
  \/ \E t \in triggers : RemoveTrigger(t)
  \/ CheckNext \/ CheckDone

-----------------------------------------------------------------------------
(* Correctness.                                                            *)

\* "New registrations belong to the next message; removals still take effect
\* immediately" (checkTriggers): for one message a trigger is called at most
\* once, and none that was registered while it was handled (a handler that
\* registers itself again would run forever), nor one that an earlier handler had
\* removed by then, which may serve what is gone.  When the message is done, each
\* other trigger that matched was called.
TriggersRunOnce ==
  said # Nothing =>
    /\ \A id \in 1..MaxTriggers : ran[id] <= 1 /\ (ran[id] = 1 => id \in IdsOf(before \ spared))
    /\ ids = {} => \A t \in before \ spared : t.word = said => ran[t.id] = 1
=============================================================================
