----------------------------- MODULE Exchanges -----------------------------
(***************************************************************************)
(* Exchanges with others over a network that fails: letters through the    *)
(* HTTP relay, the offers and the list of hashes of a swarm download, the  *)
(* command that waits for such a download, a mailbox of the mailbox        *)
(* service, the messages of a room and their history, the bridge to a live *)
(* chat, the requests for chunks that a swarm peer answers, what an agent  *)
(* is told of its peers, and the triggers that a message sets off.  They   *)
(* share no state, so a behaviour is one of one of them.                   *)
(***************************************************************************)
EXTENDS Relay, SwarmOffers, FetchCommand, MailStore, Conversation, SocialStream,
        ChunkServing, PeerNotices, KeywordTriggers

CONSTANT Themes  \* of the nine below

VARIABLE scene

vars == <<scene, relayVars, offersVars, fetchVars, mailStoreVars, conversationVars, socialVars,
          servingVars, noticesVars, triggersVars>>

\* What is chosen at the start is chosen in the scene it matters to.
Init ==
  /\ scene \in Themes
  /\ RelayInit /\ OffersInit /\ FetchInit /\ MailStoreInit /\ ConversationInit /\ SocialInit
  /\ ServingInit /\ NoticesInit /\ TriggersInit
  /\ scene # "offers" => nature = [p \in Peers |-> "sound"]
  /\ scene # "fetch" => query = CHOOSE text \in Queries : TRUE
  /\ scene # "conversation" => subscriptions = [n \in Nodes |-> {}]
  /\ scene # "social" => readOnly = FALSE
  /\ scene # "serving" => binaryLane = FALSE
  /\ scene # "notices" => profile = CHOOSE v \in Profiles : TRUE

Next ==
  \/ /\ scene = "relay" /\ RelayNext
     /\ UNCHANGED <<scene, offersVars, fetchVars, mailStoreVars, conversationVars,
                    socialVars, servingVars, noticesVars, triggersVars>>
  \/ /\ scene = "offers" /\ OffersNext
     /\ UNCHANGED <<scene, relayVars, fetchVars, mailStoreVars, conversationVars,
                    socialVars, servingVars, noticesVars, triggersVars>>
  \/ /\ scene = "fetch" /\ FetchNext
     /\ UNCHANGED <<scene, relayVars, offersVars, mailStoreVars, conversationVars,
                    socialVars, servingVars, noticesVars, triggersVars>>
  \/ /\ scene = "mail" /\ MailStoreNext
     /\ UNCHANGED <<scene, relayVars, offersVars, fetchVars, conversationVars,
                    socialVars, servingVars, noticesVars, triggersVars>>
  \/ /\ scene = "conversation" /\ ConversationNext
     /\ UNCHANGED <<scene, relayVars, offersVars, fetchVars, mailStoreVars,
                    socialVars, servingVars, noticesVars, triggersVars>>
  \/ /\ scene = "social" /\ SocialNext
     /\ UNCHANGED <<scene, relayVars, offersVars, fetchVars, mailStoreVars,
                    conversationVars, servingVars, noticesVars, triggersVars>>
  \/ /\ scene = "serving" /\ ServingNext
     /\ UNCHANGED <<scene, relayVars, offersVars, fetchVars, mailStoreVars,
                    conversationVars, socialVars, noticesVars, triggersVars>>
  \/ /\ scene = "notices" /\ NoticesNext
     /\ UNCHANGED <<scene, relayVars, offersVars, fetchVars, mailStoreVars,
                    conversationVars, socialVars, servingVars, triggersVars>>
  \/ /\ scene = "triggers" /\ TriggersNext
     /\ UNCHANGED <<scene, relayVars, offersVars, fetchVars, mailStoreVars,
                    conversationVars, socialVars, servingVars, noticesVars>>

Spec == Init /\ [][Next]_vars
=============================================================================
