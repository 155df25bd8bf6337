----------------------------- MODULE HubExchange -----------------------------
(***************************************************************************)
(* What a Node and its Hub hand each other.                                *)
(*                                                                         *)
(* Notifications go from the Node to the devices: Core appends an intent   *)
(* in the transaction of a Task event; the Node's loop posts it to the     *)
(* Hub, which keeps it in an inbox with one delivery row per device; the   *)
(* Hub's loop, and every request that adds rows, push them.  Webhooks go   *)
(* the other way: the Hub keeps them in an outbox; the Node's loop pulls   *)
(* them, fires their triggers and acknowledges.                            *)
(*                                                                         *)
(* Requests and answers get lost, pushes are refused, both sides die.      *)
(***************************************************************************)
EXTENDS Integers, Sequences, FiniteSets, SequencesExt

CONSTANTS
    NumIntents,   \* bound: intents, numbered by source_sequence
    Device,       \* the App's installations
    MaxTokens,    \* bound: how often a device registers a push token
    Source,       \* the event sources: a webhook route and a trigger each
    NumHooks,     \* bound: webhook events of a source
    MaxPending,   \* max_pending of a route's outbox
    MaxHubFaults  \* bound: lost messages, refused pushes, deaths, failed commands

ASSUME HubAssumption ==
    /\ NumIntents \in Nat /\ MaxTokens \in Nat /\ NumHooks \in Nat
    /\ MaxPending \in Nat /\ MaxHubFaults \in Nat

Intent == 1..NumIntents
Row == Intent \X Device
Hook == Source \X (1..NumHooks)

VARIABLES
    intent,    \* notification_intents of Core
    late,      \* the intents whose expires_at has passed
    inbox,     \* notification_inbox of the Hub
    delivery,  \* notification_deliveries
    waiting,   \* the rows whose next_attempt_at has not come
    device,    \* push_installations
    flight,    \* the pushes under way, of each pass over the due rows
    pushed,    \* what the push provider has accepted
    node,      \* _publish_observations() of the Node
    source,    \* of every event source: its route at the Hub, its trigger in Core
    outbox,    \* webhook_ingress_outbox, in the order of ingress_id
    handed,    \* the webhooks that were pulled within the last 15 seconds
    acked,     \* the acknowledged ones
    received,  \* the ones that Core has as trigger events
    hubFaults  \* how many faults there have been

notices == <<intent, late, inbox, delivery, waiting, device, flight, pushed>>
hooks == <<source, outbox, handed, acked, received>>
hvars == <<notices, node, hooks, hubFaults>>

\* The loop of the Hub, and the requests that go on to deliver: the bound is one of a kind.
Pass == {"loop", "publish", "register"}
Push == [row : Row, token : 1..MaxTokens]

HubTypeOK ==
    /\ intent \in [Intent -> {"none", "pending", "projected", "expired"}]
    /\ late \subseteq Intent /\ inbox \subseteq Intent
    /\ delivery \in [Row -> {"none", "pending", "retry", "delivered"}]
    /\ waiting \subseteq Row /\ pushed \subseteq Row
    /\ device \in [Device -> [state : {"absent", "active", "disabled", "invalid"},
                              token : 0..MaxTokens]]
    /\ flight \in [Pass -> SUBSET Push]
    /\ node \in [pc : {"off", "idle", "posting", "marking", "firing", "acking"},
                 todo : SUBSET Intent, batch : SUBSET Hook, done : SUBSET Hook]
    /\ source \in [Source -> [route : {"absent", "active", "deleted"},
                              trigger : {"absent", "active", "paused", "deleted"}]]
    /\ outbox \in Seq(Hook)
    /\ handed \subseteq Hook /\ acked \subseteq Hook /\ received \subseteq Hook
    /\ hubFaults \in 0..MaxHubFaults

NodeIdle == [pc |-> "idle", todo |-> {}, batch |-> {}, done |-> {}]

\* A Node that is not enrolled runs no loop.
HubInit ==
    /\ intent = [i \in Intent |-> "none"] /\ late = {}
    /\ inbox = {} /\ delivery = [r \in Row |-> "none"] /\ waiting = {} /\ pushed = {}
    /\ device = [d \in Device |-> [state |-> "absent", token |-> 0]]
    /\ flight = [p \in Pass |-> {}]
    /\ node \in {NodeIdle, [NodeIdle EXCEPT !.pc = "off"]}
    /\ source = [s \in Source |-> [route |-> "absent", trigger |-> "absent"]]
    /\ outbox = <<>> /\ handed = {} /\ acked = {} /\ received = {}
    /\ hubFaults = 0

HubFault == hubFaults < MaxHubFaults /\ hubFaults' = hubFaults + 1
NodeAt(pc) == node.pc = pc
NodeOn == ~NodeAt("off")

-----------------------------------------------------------------------------
(* Core: the intents *)

\* _append_notification_intent(): in the transaction of the event.
AppendIntent(i) ==
    /\ NodeOn /\ intent[i] = "none" /\ \A j \in 1..(i - 1) : intent[j] # "none"
    /\ intent' = [intent EXCEPT ![i] = "pending"]
    /\ UNCHANGED <<late, inbox, delivery, waiting, device, flight, pushed, node, hooks, hubFaults>>

IntentExpires(i) ==
    /\ intent[i] # "none" /\ i \notin late
    /\ late' = late \cup {i}
    /\ UNCHANGED <<intent, inbox, delivery, waiting, device, flight, pushed, node, hooks, hubFaults>>

-----------------------------------------------------------------------------
(* The Hub: inbox and deliveries *)

Open(state) == state \in {"pending", "retry"}

\* pending_notification_deliveries(): what a pass reads, with the tokens of that moment.
DuePushes(rows, box, devices) ==
    {[row |-> r, token |-> devices[r[2]].token] :
        r \in {x \in Row \ waiting : /\ Open(rows[x]) /\ devices[x[2]].state = "active"
                                     /\ x[1] \in box \ late}}

\* INSERT OR IGNORE of delivery rows.
WithRows(rows) == [r \in Row |-> IF r \in rows /\ delivery[r] = "none" THEN "pending"
                                 ELSE delivery[r]]

\* put_push_installation(), Mutation: the rows of what is in the inbox are left out.
Backfilled_None(d) == delivery

\* put_push_installation(): a row for everything that is in the inbox.
Backfilled(d) == WithRows((inbox \ late) \X {d})

\* PUT push-token: a new token, the rows, and a pass over what is due.
RegisterToken(d) ==
    /\ NodeOn /\ device[d].token < MaxTokens /\ flight["register"] = {}
    /\ device' = [device EXCEPT ![d] = [state |-> "active", token |-> @.token + 1]]
    /\ delivery' = Backfilled(d)
    /\ flight' = [flight EXCEPT !["register"] = DuePushes(delivery', inbox, device')]
    /\ UNCHANGED <<intent, late, inbox, waiting, pushed, node, hooks, hubFaults>>

DisableToken(d) ==
    /\ device[d].state = "active"
    /\ device' = [device EXCEPT ![d].state = "disabled"]
    /\ UNCHANGED <<intent, late, inbox, delivery, waiting, flight, pushed, node, hooks, hubFaults>>

\* _push_delivery_loop(): expired rows go, then a pass.  It awaits all its pushes.  While the
\* inbox is empty a pass does nothing.
LoopPass ==
    /\ inbox # {} /\ flight["loop"] = {}
    /\ inbox' = inbox \ late
    /\ LET gone == (inbox \cap late) \X Device IN
       /\ delivery' = [r \in Row |-> IF r \in gone THEN "none" ELSE delivery[r]]
       /\ waiting' = waiting \ gone
    /\ flight' = [flight EXCEPT !["loop"] = DuePushes(delivery', inbox', device)]
    /\ UNCHANGED <<intent, late, device, pushed, node, hooks, hubFaults>>

\* record_notification_delivery(): whatever the row says by now; there may be none.
Recorded(r, state) ==
    /\ delivery' = [delivery EXCEPT ![r] = IF @ = "none" THEN @ ELSE state]
    /\ waiting' = IF state = "delivered" \/ delivery[r] = "none" THEN waiting \ {r}
                  ELSE waiting \cup {r}

PushIsAccepted(p, f) ==
    /\ f \in flight[p]
    /\ flight' = [flight EXCEPT ![p] = @ \ {f}]
    /\ pushed' = pushed \cup {f.row}
    /\ Recorded(f.row, "delivered")
    /\ UNCHANGED <<intent, late, inbox, device, node, hooks, hubFaults>>

\* A permanent failure invalidates the installation, though it be of an earlier token.
PushIsRefused(p, f, permanent) ==
    /\ f \in flight[p]
    /\ HubFault
    /\ flight' = [flight EXCEPT ![p] = @ \ {f}]
    /\ Recorded(f.row, "retry")
    /\ device' = IF permanent /\ delivery[f.row] # "none"
                 THEN [device EXCEPT ![f.row[2]].state = "invalid"] ELSE device
    /\ UNCHANGED <<intent, late, inbox, pushed, node, hooks>>

BackoffEnds(r) ==
    /\ r \in waiting
    /\ waiting' = waiting \ {r}
    /\ UNCHANGED <<intent, late, inbox, delivery, device, flight, pushed, node, hooks, hubFaults>>

\* The pushes under way are not recorded; a Node that waits for an answer gets none.
HubDies ==
    /\ NodeOn /\ HubFault
    /\ flight' = [p \in Pass |-> {}]
    /\ node' = IF NodeAt("marking") THEN NodeIdle ELSE node
    /\ UNCHANGED <<intent, late, inbox, delivery, waiting, device, pushed, hooks>>

-----------------------------------------------------------------------------
(* The Node's loop: intents, then webhooks *)

\* list_notification_intents() also marks what has expired.
NodeLists ==
    /\ NodeAt("idle")
    /\ intent' = [i \in Intent |-> IF i \in late /\ intent[i] \in {"pending", "projected"}
                                   THEN "expired" ELSE intent[i]]
    /\ node' = [NodeIdle EXCEPT !.pc = "posting", !.todo = {i \in Intent : intent'[i] = "pending"}]
    /\ UNCHANGED <<late, inbox, delivery, waiting, device, flight, pushed, hooks, hubFaults>>

FirstToDo(i) == i \in node.todo /\ \A j \in node.todo : i <= j

\* put_notification_intent(): the inbox, a row per active device, and a pass.
PostIntent(i) ==
    /\ NodeAt("posting") /\ FirstToDo(i) /\ flight["publish"] = {}
    /\ inbox' = inbox \cup {i}
    /\ delivery' = WithRows({i} \X {d \in Device : device[d].state = "active"})
    /\ flight' = [flight EXCEPT !["publish"] = DuePushes(delivery', inbox', device)]
    /\ node' = [node EXCEPT !.pc = "marking"]
    /\ UNCHANGED <<intent, late, waiting, device, pushed, hooks, hubFaults>>

\* The Hub answers when its pass is over.
MarkProjected(i) ==
    /\ NodeAt("marking") /\ FirstToDo(i) /\ flight["publish"] = {}
    /\ intent' = [intent EXCEPT ![i] = IF @ = "pending" THEN "projected" ELSE @]
    /\ node' = [node EXCEPT !.pc = "posting", !.todo = @ \ {i}]
    /\ UNCHANGED <<late, inbox, delivery, waiting, device, flight, pushed, hooks, hubFaults>>

Pullable(h) == source[h[1]].route = "active" /\ h \notin acked \cup handed

\* pull_webhook_events().
PullHooks ==
    /\ NodeAt("posting") /\ node.todo = {}
    /\ LET batch == {h \in ToSet(outbox) : Pullable(h)} IN
       /\ handed' = handed \cup batch
       /\ node' = IF batch = {} THEN NodeIdle ELSE [NodeIdle EXCEPT !.pc = "firing", !.batch = batch]
    /\ UNCHANGED <<notices, source, outbox, acked, received, hubFaults>>

\* They come in the order of their arrival.
Before(h, k) == \E i, j \in DOMAIN outbox : i < j /\ outbox[i] = h /\ outbox[j] = k
FirstPulled(h) == h \in node.batch /\ \A k \in node.batch : ~Before(k, h)

\* fire_trigger(): a trigger that is paused or gone raises, and ends the whole pass.
FireHook(h) ==
    /\ NodeAt("firing") /\ FirstPulled(h)
    /\ IF source[h[1]].trigger = "active"
       THEN /\ received' = received \cup {h}
            /\ node' = [node EXCEPT !.batch = @ \ {h}, !.done = @ \cup {h},
                                    !.pc = IF node.batch = {h} THEN "acking" ELSE "firing"]
       ELSE node' = NodeIdle /\ UNCHANGED received
    /\ UNCHANGED <<notices, source, outbox, handed, acked, hubFaults>>

AckHooks ==
    /\ NodeAt("acking")
    /\ acked' = acked \cup node.done
    /\ node' = NodeIdle
    /\ UNCHANGED <<notices, source, outbox, handed, received, hubFaults>>

HandedLongAgo(h) ==
    /\ h \in handed
    /\ handed' = handed \ {h}
    /\ UNCHANGED <<notices, node, source, outbox, acked, received, hubFaults>>

\* A request or its answer is lost, Core raises, or the Node dies: the pass is over.
NodeStepFails ==
    /\ node.pc \in {"posting", "marking", "firing", "acking"}
    /\ HubFault
    /\ node' = NodeIdle
    /\ UNCHANGED <<notices, hooks>>

-----------------------------------------------------------------------------
(* Event sources and their webhooks *)

\* A webhook the Hub accepts; a repeated one, or one too many, changes nothing.
Ingress(h) ==
    /\ source[h[1]].route = "active"
    /\ h \notin ToSet(outbox)
    /\ Cardinality({x \in ToSet(outbox) \ acked : x[1] = h[1]}) < MaxPending
    /\ outbox' = Append(outbox, h)
    /\ UNCHANGED <<notices, node, source, handed, acked, received, hubFaults>>

\* _create_event_source(): the Task with its trigger, then the route.
CreateSource(s) ==
    /\ NodeOn /\ source[s].route = "absent"
    /\ source' = [source EXCEPT ![s] = [route |-> "active", trigger |-> "active"]]
    /\ UNCHANGED <<notices, node, outbox, handed, acked, received, hubFaults>>

\* When something raises after the Hub made the route, only the Task is deleted again.
CreateSourceFails(s) ==
    /\ NodeOn /\ source[s].route = "absent"
    /\ HubFault
    /\ source' = [source EXCEPT ![s] = [route |-> "active", trigger |-> "deleted"]]
    /\ UNCHANGED <<notices, node, outbox, handed, acked, received>>

PauseSource(s) ==
    /\ source[s].trigger = "active"
    /\ source' = [source EXCEPT ![s].trigger = "paused"]
    /\ UNCHANGED <<notices, node, outbox, handed, acked, received, hubFaults>>

ResumeSource(s) ==
    /\ source[s].trigger = "paused"
    /\ source' = [source EXCEPT ![s].trigger = "active"]
    /\ UNCHANGED <<notices, node, outbox, handed, acked, received, hubFaults>>

\* _delete_event_source(): the route first, ...
DeleteRoute(s) ==
    /\ source[s].route = "active"
    /\ source' = [source EXCEPT ![s].route = "deleted"]
    /\ UNCHANGED <<notices, node, outbox, handed, acked, received, hubFaults>>

\* ... then the Task; a client that deletes the Task itself leaves the route.
DeleteTask(s) ==
    /\ source[s].trigger \in {"active", "paused"}
    /\ source' = [source EXCEPT ![s].trigger = "deleted"]
    /\ UNCHANGED <<notices, node, outbox, handed, acked, received, hubFaults>>

-----------------------------------------------------------------------------
NodeStep ==
    \/ NodeLists
    \/ \E i \in Intent : PostIntent(i) \/ MarkProjected(i)
    \/ \E h \in Hook : FireHook(h)
    \/ PullHooks \/ AckHooks

Notifying ==
    \/ \E i \in Intent : AppendIntent(i) \/ IntentExpires(i)
    \/ \E d \in Device : RegisterToken(d) \/ DisableToken(d)
    \/ LoopPass
    \/ \E p \in Pass : \E f \in flight[p] :
          PushIsAccepted(p, f) \/ \E permanent \in BOOLEAN : PushIsRefused(p, f, permanent)
    \/ \E r \in Row : BackoffEnds(r)
    \/ HubDies

Hooking ==
    \/ \E h \in Hook : Ingress(h) \/ HandedLongAgo(h)
    \/ \E s \in Source : \/ CreateSource(s) \/ CreateSourceFails(s) \/ PauseSource(s)
                         \/ ResumeSource(s) \/ DeleteRoute(s) \/ DeleteTask(s)

HubNext == NodeStep \/ NodeStepFails \/ Notifying \/ Hooking

\* The loops of both sides go on, pushes are answered, and waiting ends.
HubFairness ==
    /\ WF_hvars(NodeStep)
    /\ WF_hvars(LoopPass)
    /\ WF_hvars(\E p \in Pass : \E f \in flight[p] : PushIsAccepted(p, f))
    /\ WF_hvars(\E r \in Row : BackoffEnds(r))
    /\ WF_hvars(\E h \in Hook : HandedLongAgo(h))

HubSpec == HubInit /\ [][HubNext]_hvars /\ HubFairness

-----------------------------------------------------------------------------
(* Properties *)

\* Nothing falls between the tables of Core, the Node's loop and the Hub, whatever is lost
\* and whoever dies, until it expires: an intent that Core takes for projected is in the
\* inbox; what is there has a row for every active device, whichever came first; a row that
\* says delivered was pushed; and a webhook is acknowledged only when Core has it.
NothingFallsThrough ==
    /\ \A i \in Intent \ late : intent[i] = "projected" => i \in inbox
    /\ \A i \in inbox \ late, d \in Device :
          device[d].state = "active" => delivery[<<i, d>>] # "none"
    /\ \A r \in Row : delivery[r] = "delivered" => r \in pushed
    /\ acked \subseteq received

\* docs/knoa-product-backlog-solution-design-2026-08-23.md:158, pushes are delivered at
\* least once: every intent reaches every device that stays registered, unless it expires.
NotificationArrives ==
    \A i \in Intent, d \in Device :
        <>[](intent[i] # "none" /\ i \notin late /\ device[d].state = "active") =>
            <>[](delivery[<<i, d>>] = "delivered")

\* A webhook of a source whose trigger refuses it is pulled and raises in every pass.
Blocked ==
    \E h \in ToSet(outbox) \ acked : source[h[1]].route = "active" /\ source[h[1]].trigger # "active"

\* A webhook that the Hub has accepted becomes a trigger event of its source, if that
\* stays active, unless one of another source is in the way.
WebhookArrives ==
    \A h \in Hook :
        <>[](/\ h \in ToSet(outbox)
             /\ source[h[1]] = [route |-> "active", trigger |-> "active"]
             /\ ~Blocked)
            => <>[](h \in received)

\* What is accepted at one end arrives at the other, in both directions.
ExchangesArrive == NotificationArrives /\ WebhookArrives

=============================================================================
