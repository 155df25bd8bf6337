----------------------------- MODULE MCServices -----------------------------
(***************************************************************************)
(* Small instances of the components around the Task aggregate for TLC.    *)
(*                                                                         *)
(* They share no state.  Every behaviour is one of one component, `part`,  *)
(* and the others stay as they are, so the states are those of all         *)
(* components, added and not multiplied.                                   *)
(***************************************************************************)
EXTENDS EventStream, TriggerDelivery, ProductTask, Interactions, Conversation, Delegation

VARIABLE part

mcvars == <<svars, tvars, pvars, ivars, cvars, dvars, part>>

\* The event whose payload does not fit into the goal.
SecondContent == {<<1, 2>>}

Part == {"stream", "feed", "trigger", "product", "question", "chat", "stop", "viewer",
         "delegation"}

ServicesTypeOK ==
    /\ StreamTypeOK /\ TriggerTypeOK /\ ProductTypeOK /\ InteractionTypeOK /\ ConversationTypeOK
    /\ DelegationTypeOK
    /\ part \in Part

\* Where a component begins is chosen only if it is the one that moves.
ServicesInit ==
    /\ part \in Part
    /\ StreamInit /\ TriggerInit /\ ProductInit /\ InteractionInit /\ ConversationInit
    /\ DelegationInit
    /\ part # "product" => repair.pc = "off"
    /\ part # "question" => asker.kind = "agent"
    /\ part # "viewer" <=> viewer.pc = "absent"

In(p, A) == part = p /\ A /\ UNCHANGED part
NotStream == <<tvars, pvars, ivars, cvars, dvars>>
NotTrigger == <<svars, pvars, ivars, cvars, dvars>>
NotProduct == <<svars, tvars, ivars, cvars, dvars>>
NotQuestion == <<svars, tvars, pvars, cvars, dvars>>
NotChat == <<svars, tvars, pvars, ivars, dvars>>
NotDelegation == <<svars, tvars, pvars, ivars, cvars>>

\* A watcher does not see what is not for the feed; the feed has no watcher.
Streaming == Writing({"feed", "final"}) \/ Watching \/ CoreRestarts
Feeding == Writing(EventKind) \/ FeedOpens \/ FeedStep \/ CoreRestarts

\* Two clients that answer; one and a Core that stops; none and a viewer.
Chatting == Conversing \/ \E c \in Approver : Replying(c)
Interrupting == Conversing \/ Stopping \/ Replying(CHOOSE c \in Approver : TRUE)

ServicesNext ==
    \/ In("stream", Streaming) /\ UNCHANGED NotStream
    \/ In("feed", Feeding) /\ UNCHANGED NotStream
    \/ In("trigger", TriggerNext) /\ UNCHANGED NotTrigger
    \/ In("product", ProductNext) /\ UNCHANGED NotProduct
    \/ In("question", InteractionNext) /\ UNCHANGED NotQuestion
    \/ In("chat", Chatting) /\ UNCHANGED NotChat
    \/ In("stop", Interrupting) /\ UNCHANGED NotChat
    \/ In("viewer", Conversing) /\ UNCHANGED NotChat
    \/ In("delegation", DelegationNext) /\ UNCHANGED NotDelegation

ServicesSpec ==
    /\ ServicesInit
    /\ [][ServicesNext]_mcvars
    /\ StreamFairness
    /\ TriggerFairness
    /\ ProductFairness
    /\ InteractionFairness
    /\ ConversationFairness

=============================================================================
