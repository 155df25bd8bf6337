---------------------------- MODULE MCDeliveries ----------------------------
(***************************************************************************)
(* Small instances of ScheduleDelivery, HubExchange, Configuration and     *)
(* AgentGenerations for TLC: what is delivered after retries, what is      *)
(* brought into force, and the turns it is brought into force under.       *)
(*                                                                         *)
(* They share no state: every behaviour is one of a schedule, of           *)
(* notifications, of webhooks, of the configuration or of turns, and the   *)
(* rest stays as it is.                                                    *)
(***************************************************************************)
EXTENDS ScheduleDelivery, HubExchange, Configuration, AgentGenerations

VARIABLE part

mcvars == <<dvars, hvars, gvars, avars, part>>

Part == {"schedule", "notice", "webhook", "configuration", "review", "child"}

\* The variables of the other parts stay as they began.
DeliveriesTypeOK ==
    /\ part \in Part
    /\ part = "schedule" => DeliveryTypeOK
    /\ part \in {"notice", "webhook"} => HubTypeOK
    /\ part = "configuration" => ConfigurationTypeOK
    /\ part \in {"review", "child"} => GenerationTypeOK

DeliveriesInit ==
    /\ part \in Part
    /\ DeliveryInit /\ HubInit /\ ConfigurationInit /\ GenerationInit
    /\ part \in {"notice", "webhook"} <=> node.pc # "off"

In(p, A) == part = p /\ A /\ UNCHANGED part

\* Core dies with one occurrence at most, and the schedule fires again while it lives.
OneOfBoth == crashes' = 0 \/ schedule'.fires <= 1

\* The Node's loop serves both directions; a failure in one ends its pass.
Exchanging(A) == A \/ NodeStep \/ NodeStepFails

\* One turn may wait, for a review or for a Child, and a configuration changes one of the two
\* Agents that are in use.
FirstTurn == CHOOSE t \in Turn : TRUE

ChangeOfOne(agents) ==
    {c \in Change : \E a \in agents : \A b \in Agent \ {a} : c[b] = "keep"}

Turns(what) ==
    \/ \E j \in Job : JobStep(j)
    \/ \E t \in Turn : WaitStep(t) \/ Publishing(t) \/ UserTurn(t)
    \/ Ask(FirstTurn, what)
    \/ Replacing(ChangeOfOne({"user", AgentFor[what]}))
    \/ \E g \in Agent \X Revision : Draining(g)

\* A turn that asked for no review may publish; a Child is there for one change.
Reviewing == Turns("review") \/ AskPublish(FirstTurn) \/ Apply(Operator)
Parenting == Turns("child") \/ (current = 0 /\ Apply(Operator))

NotTurns == <<dvars, hvars, gvars>>

DeliveriesNext ==
    \/ In("schedule", DeliveryNext) /\ OneOfBoth /\ UNCHANGED <<hvars, gvars, avars>>
    \/ In("notice", Exchanging(Notifying)) /\ UNCHANGED <<dvars, gvars, avars>>
    \/ In("webhook", Exchanging(Hooking)) /\ UNCHANGED <<dvars, gvars, avars>>
    \/ In("configuration", ConfigurationNext) /\ UNCHANGED <<dvars, hvars, avars>>
    \/ In("review", Reviewing) /\ UNCHANGED NotTurns
    \/ In("child", Parenting) /\ UNCHANGED NotTurns

DeliveriesSpec ==
    /\ DeliveriesInit
    /\ [][DeliveriesNext]_mcvars
    /\ DeliveryFairness
    /\ HubFairness
    /\ GenerationFairness

\* What is under way comes to its end, in each of the parts, the occurrences as promised.
DeliveriesEnd ==
    /\ OccurrenceSettles /\ DeliversAsPromised /\ [][OccurrenceIsAttended']_dvars
    /\ ExchangesArrive /\ TurnsServed

=============================================================================
