-------------------------- MODULE TriggerDelivery --------------------------
(***************************************************************************)
(* An event trigger of knoa_platform/automation: how the content of MCP    *)
(* Resources becomes trigger events, and how these are delivered into      *)
(* executions of the product Task the trigger is bound to.                 *)
(*                                                                         *)
(* MCPResourceTaskBridge reads the inventory again and again and hands     *)
(* what it reads to TriggerRepository, which knows an event by the digest  *)
(* of its content; the TriggerDispatcher claims one event at a time and    *)
(* launches the Task with a request ID made of the event.  Every await is  *)
(* a point where the others, or a crash, come between.                     *)
(***************************************************************************)
EXTENDS Integers, FiniteSets

CONSTANTS
    NumUris,              \* the Resources that match the Task, in the order of their URIs
    NumContents,          \* the contents a Resource may have
    Spilled,              \* the events whose payload does not fit into a goal
    MaxDeliveryAttempts,  \* max_delivery_attempts
    MaxChanges,           \* bound: how often a Resource changes
    MaxMishaps            \* bound: crashes, failing reads, failing launches, lost records

Uri == 1..NumUris
Content == 1..NumContents

\* external_event_id: the digest of the URI and the content.
Event == Uri \X Content

ASSUME TriggerAssumption ==
    /\ NumUris \in Nat \ {0}
    /\ NumContents \in Nat \ {0}
    /\ Spilled \subseteq Event
    /\ MaxDeliveryAttempts \in Nat \ {0}
    /\ MaxChanges \in Nat
    /\ MaxMishaps \in Nat

VARIABLES
    resource, \* the content of each Resource, on the MCP server
    trigger,  \* the row of runtime_triggers; observed: last_event_at is not NULL
    event,    \* the rows of runtime_trigger_events
    runs,     \* the runtime Task of each event: how far it is, as a retry sees it
    links,    \* the events whose runtime Task has a row in task_executions
    manual,   \* does the product Task have an unfinished execution started by hand
    disp,     \* TriggerDispatcher.dispatch_once()
    bridge,   \* MCPResourceTaskBridge._reconcile_provider()
    changes,  \* how often a Resource has changed
    mishaps   \* how many faults there have been

tvars == <<resource, trigger, event, runs, links, manual, disp, bridge, changes, mishaps>>

TriggerState == {"absent", "active", "paused", "deleted"}
EventState == {"none", "baselined", "received", "claimed", "retry_wait", "task_created", "dead"}
Settled == {"baselined", "task_created", "dead"}
EventTimer == {"none", "running", "elapsed"}

\* fresh and done: unfinished and finished in the phase it was created with;
\* moved and stopped: the same in another phase.
RunPhase == {"absent", "fresh", "moved", "done", "stopped"}
DispPc == {"idle", "reading", "checking", "creating", "linking", "marking", "deferring",
           "failing"}
BridgePc == {"idle", "reading", "receiving", "baselining"}

NoEvent == [state |-> "none", attempts |-> 0, timer |-> "none", at |-> 0]
AnEvent == <<1, 1>>
DispIdle == [pc |-> "idle", event |-> AnEvent]
BridgeIdle == [pc |-> "idle", fresh |-> FALSE, next |-> 1, item |-> AnEvent, inventory |-> {}]

TriggerTypeOK ==
    /\ resource \in [Uri -> Content]
    /\ trigger \in [state : TriggerState, observed : BOOLEAN, count : 0..Cardinality(Event)]
    /\ event \in [Event -> [state : EventState, attempts : 0..MaxDeliveryAttempts,
                            timer : EventTimer, at : 0..Cardinality(Event)]]
    /\ runs \in [Event -> RunPhase]
    /\ links \subseteq Event
    /\ manual \in BOOLEAN
    /\ disp \in [pc : DispPc, event : Event]
    /\ bridge \in [pc : BridgePc, fresh : BOOLEAN, next : 1..NumUris + 1, item : Event,
                   inventory : SUBSET Event]
    /\ changes \in 0..MaxChanges
    /\ mishaps \in 0..MaxMishaps

TriggerInit ==
    /\ resource = [u \in Uri |-> 1]
    /\ trigger = [state |-> "absent", observed |-> FALSE, count |-> 0]
    /\ event = [e \in Event |-> NoEvent]
    /\ runs = [e \in Event |-> "absent"]
    /\ links = {}
    /\ manual = FALSE
    /\ disp = DispIdle
    /\ bridge = BridgeIdle
    /\ changes = 0
    /\ mishaps = 0

Mishap == mishaps < MaxMishaps /\ mishaps' = mishaps + 1

-----------------------------------------------------------------------------
(* MCPResourceTaskBridge._reconcile_provider() *)

\* _trigger_needs_baseline()
NeedsBaseline == ~trigger.observed

\* The trigger is read once per pass: a new one only takes note of the inventory.
\* A deleted one ends the pass.
BridgeStarts ==
    /\ bridge.pc = "idle"
    /\ trigger.state \in {"active", "paused"}
    /\ bridge' = [BridgeIdle EXCEPT !.pc = "reading", !.fresh = NeedsBaseline]
    /\ UNCHANGED <<resource, trigger, event, runs, links, manual, disp, changes, mishaps>>

\* read_resource() of the next URI.
BridgeReads ==
    /\ bridge.pc = "reading" /\ bridge.next \in Uri
    /\ LET item == <<bridge.next, resource[bridge.next]>> IN
       bridge' = IF bridge.fresh
                 THEN [bridge EXCEPT !.next = @ + 1, !.inventory = @ \cup {item}]
                 ELSE [bridge EXCEPT !.pc = "receiving", !.item = item]
    /\ UNCHANGED <<resource, trigger, event, runs, links, manual, disp, changes, mishaps>>

\* A read that fails is left out of the baseline; otherwise it ends the pass.
BridgeReadFails ==
    /\ bridge.pc = "reading" /\ bridge.next \in Uri
    /\ Mishap
    /\ bridge' = IF bridge.fresh THEN [bridge EXCEPT !.next = @ + 1] ELSE BridgeIdle
    /\ UNCHANGED <<resource, trigger, event, runs, links, manual, disp, changes>>

BridgeHasRead ==
    /\ bridge.pc = "reading" /\ bridge.next \notin Uri
    /\ bridge' = IF bridge.fresh THEN [bridge EXCEPT !.pc = "baselining"] ELSE BridgeIdle
    /\ UNCHANGED <<resource, trigger, event, runs, links, manual, disp, changes, mishaps>>

Known(e) == event[e].state # "none"

\* receive(): a paused or deleted trigger raises, which ends the pass; an event that
\* is known already is left alone.
Receive ==
    /\ bridge.pc = "receiving"
    /\ IF trigger.state # "active"
       THEN bridge' = BridgeIdle /\ UNCHANGED <<trigger, event>>
       ELSE /\ bridge' = [bridge EXCEPT !.pc = "reading", !.next = @ + 1, !.item = AnEvent]
            /\ IF Known(bridge.item) THEN UNCHANGED <<trigger, event>>
               ELSE /\ trigger' = [trigger EXCEPT !.observed = TRUE, !.count = @ + 1]
                    /\ event' = [event EXCEPT ![bridge.item] =
                                    [NoEvent EXCEPT !.state = "received", !.at = trigger.count + 1]]
    /\ UNCHANGED <<resource, runs, links, manual, disp, changes, mishaps>>

\* baseline(): the inventory is known and never delivered; only for a trigger that
\* has seen nothing yet.  Its failure is only logged.
Baseline ==
    /\ bridge.pc = "baselining"
    /\ bridge' = BridgeIdle
    /\ IF trigger.state # "active" \/ trigger.observed THEN UNCHANGED <<trigger, event>>
       ELSE /\ trigger' = [trigger EXCEPT !.observed = TRUE]
            /\ event' = [e \in Event |-> IF e \in bridge.inventory /\ ~Known(e)
                                         THEN [NoEvent EXCEPT !.state = "baselined"]
                                         ELSE event[e]]
    /\ UNCHANGED <<resource, runs, links, manual, disp, changes, mishaps>>

-----------------------------------------------------------------------------
(* TriggerDispatcher.dispatch_once() *)

\* Mutation: a claim whose worker died is not taken over.
DueEvents_NoTakeover ==
    {e \in Event : event[e].state = "received"
                   \/ (event[e].state = "retry_wait" /\ event[e].timer = "elapsed")}

DueEvents ==
    {e \in Event : event[e].state = "received"
                   \/ (event[e].state \in {"retry_wait", "claimed"} /\ event[e].timer = "elapsed")}

\* ORDER BY received_at
OldestDue(e) == e \in DueEvents /\ \A f \in DueEvents : event[e].at <= event[f].at

Spent(e) == event[e].attempts >= MaxDeliveryAttempts

\* claim_next(): of an active trigger only; a lapsed claim that used up its attempts
\* is given up ...
GiveUpEvent(e) ==
    /\ disp.pc = "idle" /\ trigger.state = "active" /\ OldestDue(e)
    /\ event[e].state = "claimed" /\ Spent(e)
    /\ event' = [event EXCEPT ![e].state = "dead", ![e].timer = "none"]
    /\ UNCHANGED <<resource, trigger, runs, links, manual, disp, bridge, changes, mishaps>>

\* ... any other due event is claimed.
ClaimEvent(e) ==
    /\ disp.pc = "idle" /\ trigger.state = "active" /\ OldestDue(e)
    /\ ~(event[e].state = "claimed" /\ Spent(e))
    /\ event' = [event EXCEPT ![e].state = "claimed", ![e].timer = "running",
                              ![e].attempts = @ + 1]
    /\ disp' = [pc |-> "reading", event |-> e]
    /\ UNCHANGED <<resource, trigger, runs, links, manual, bridge, changes, mishaps>>

InHand == disp.event
DispAt(pc) == disp.pc = pc
DispGoto(pc) == disp' = [disp EXCEPT !.pc = pc]

ReadTrigger ==
    /\ DispAt("reading")
    /\ IF trigger.state = "deleted" THEN DispGoto("failing") ELSE DispGoto("checking")
    /\ UNCHANGED <<resource, trigger, event, runs, links, manual, bridge, changes, mishaps>>

Busy == manual \/ \E e \in links : runs[e] \in {"fresh", "moved"}

\* execute_bound_launch(): with the trigger the definition may be paused, or the binding
\* gone; an unfinished execution defers the event, the event's own one of an earlier
\* attempt included.
CheckTask ==
    /\ DispAt("checking")
    /\ \/ trigger.state # "active" /\ DispGoto("failing")
       \/ DispGoto(IF Busy THEN "deferring" ELSE "creating")
    /\ UNCHANGED <<resource, trigger, event, runs, links, manual, bridge, changes, mishaps>>

\* Any await of the launch may raise.
LaunchFails ==
    /\ disp.pc \in {"checking", "creating", "linking"}
    /\ Mishap
    /\ DispGoto("failing")
    /\ UNCHANGED <<resource, trigger, event, runs, links, manual, bridge, changes>>

\* TaskService.create(): the request ID names the event.  A retry finds its Task again
\* if goal and phase are still those it was created with; the goal of a spilled event
\* names an artifact that every attempt creates anew.
CreateExecution ==
    /\ DispAt("creating")
    /\ IF runs[InHand] = "absent"
       THEN runs' = [runs EXCEPT ![InHand] = "fresh"] /\ DispGoto("linking")
       ELSE /\ UNCHANGED runs
            /\ IF runs[InHand] \in {"fresh", "done"} /\ InHand \notin Spilled
               THEN DispGoto("linking") ELSE DispGoto("failing")
    /\ UNCHANGED <<resource, trigger, event, links, manual, bridge, changes, mishaps>>

\* Mutation: a Task that has moved on since is not linked.
Linked_FreshOnly == IF runs[InHand] = "fresh" THEN links \cup {InHand} ELSE links

\* The row of task_executions, whatever has become of the runtime Task.
Linked == links \cup {InHand}

LinkExecution ==
    /\ DispAt("linking")
    /\ links' = Linked
    /\ DispGoto("marking")
    /\ UNCHANGED <<resource, trigger, event, runs, manual, bridge, changes, mishaps>>

\* mark_task_created()
MarkCreated ==
    /\ DispAt("marking")
    /\ IF event[InHand].state \in {"claimed", "task_created"}
       THEN /\ event' = [event EXCEPT ![InHand].state = "task_created",
                                      ![InHand].timer = "none"]
            /\ disp' = DispIdle
       ELSE DispGoto("failing") /\ UNCHANGED event
    /\ UNCHANGED <<resource, trigger, runs, links, manual, bridge, changes, mishaps>>

\* defer_delivery(): the attempt does not count.
Deferred(e) == [event[e] EXCEPT !.state = "retry_wait", !.timer = "running",
                                !.attempts = IF @ > 0 THEN @ - 1 ELSE 0]

\* mark_delivery_failed(): attempts are spent, or the event waits and is tried again.
Failed(e) == [event[e] EXCEPT !.state = IF Spent(e) THEN "dead" ELSE "retry_wait",
                              !.timer = IF Spent(e) THEN "none" ELSE "running"]

\* The dispatcher records how the attempt ended; an event that is not claimed raises,
\* and that is only logged.
Record ==
    /\ disp.pc \in {"deferring", "failing"}
    /\ IF event[InHand].state = "claimed"
       THEN event' = [event EXCEPT ![InHand] = IF DispAt("deferring") THEN Deferred(InHand)
                                               ELSE Failed(InHand)]
       ELSE UNCHANGED event
    /\ disp' = DispIdle
    /\ UNCHANGED <<resource, trigger, runs, links, manual, bridge, changes, mishaps>>

\* The record itself fails: the claim is left to lapse.
RecordLost ==
    /\ disp.pc \in {"deferring", "failing"}
    /\ Mishap
    /\ disp' = DispIdle
    /\ UNCHANGED <<resource, trigger, event, runs, links, manual, bridge, changes>>

-----------------------------------------------------------------------------
(* The owner of the Task, its executions, the clock *)

\* create()
CreateTrigger ==
    /\ trigger.state = "absent"
    /\ trigger' = [trigger EXCEPT !.state = "active"]
    /\ UNCHANGED <<resource, event, runs, links, manual, disp, bridge, changes, mishaps>>

\* TriggerService.set_paused()
SetPaused(paused) ==
    /\ trigger.state = IF paused THEN "active" ELSE "paused"
    /\ trigger' = [trigger EXCEPT !.state = IF paused THEN "paused" ELSE "active"]
    /\ UNCHANGED <<resource, event, runs, links, manual, disp, bridge, changes, mishaps>>

\* delete(): the events go with the trigger (ON DELETE CASCADE).
DeleteTrigger ==
    /\ trigger.state \in {"active", "paused"}
    /\ trigger' = [trigger EXCEPT !.state = "deleted"]
    /\ event' = [e \in Event |-> NoEvent]
    /\ UNCHANGED <<resource, runs, links, manual, disp, bridge, changes, mishaps>>

ManualRun ==
    /\ manual' = ~manual
    /\ (manual \/ ~Busy)
    /\ UNCHANGED <<resource, trigger, event, runs, links, disp, bridge, changes, mishaps>>

ResourceChanges(u, c) ==
    /\ changes < MaxChanges /\ resource[u] # c
    /\ changes' = changes + 1
    /\ resource' = [resource EXCEPT ![u] = c]
    /\ UNCHANGED <<trigger, event, runs, links, manual, disp, bridge, mishaps>>

\* The runtime Task is paused or recovered, resumed, or ends (DurableTask).
RunGoes(e, to) ==
    /\ <<runs[e], to>> \in {<<"fresh", "moved">>, <<"moved", "fresh">>,
                            <<"fresh", "done">>, <<"moved", "stopped">>}
    /\ runs' = [runs EXCEPT ![e] = to]
    /\ UNCHANGED <<resource, trigger, event, links, manual, disp, bridge, changes, mishaps>>

\* A lease or a backoff runs out.
TimerRunsOut(e) ==
    /\ event[e].timer = "running"
    /\ event' = [event EXCEPT ![e].timer = "elapsed"]
    /\ UNCHANGED <<resource, trigger, runs, links, manual, disp, bridge, changes, mishaps>>

\* Core dies: the dispatcher and the bridge start anew.
TriggerCrash ==
    /\ Mishap
    /\ disp' = DispIdle
    /\ bridge' = BridgeIdle
    /\ UNCHANGED <<resource, trigger, event, runs, links, manual, changes>>

BridgeStep == BridgeStarts \/ BridgeReads \/ BridgeHasRead \/ Receive \/ Baseline

DispatchStep ==
    \/ \E e \in Event : GiveUpEvent(e) \/ ClaimEvent(e)
    \/ ReadTrigger
    \/ CheckTask
    \/ CreateExecution
    \/ LinkExecution
    \/ MarkCreated
    \/ Record

TriggerNext ==
    \/ BridgeStep
    \/ BridgeReadFails
    \/ DispatchStep
    \/ LaunchFails
    \/ RecordLost
    \/ CreateTrigger
    \/ \E paused \in BOOLEAN : SetPaused(paused)
    \/ DeleteTrigger
    \/ ManualRun
    \/ \E u \in Uri, c \in Content : ResourceChanges(u, c)
    \/ \E e \in Event, to \in RunPhase : RunGoes(e, to)
    \/ \E e \in Event : TimerRunsOut(e)
    \/ TriggerCrash

\* The bridge and the dispatcher are woken or look again after an interval; leases
\* and backoffs are finite.  Nothing says that an execution ends.
TriggerFairness ==
    /\ WF_tvars(BridgeStep)
    /\ WF_tvars(DispatchStep)
    /\ \A e \in Event : WF_tvars(TimerRunsOut(e))

TriggerSpec == TriggerInit /\ [][TriggerNext]_tvars /\ TriggerFairness

-----------------------------------------------------------------------------
(* Properties *)

\* baseline(), receive() and dispatch_once(): what was there when the trigger first
\* looked is never delivered, nor is anything before it is claimed, and what was delivered
\* is not taken for news when a later pass reads it again; and an event that says its
\* Task was created has a linked execution.
DeliveredOnlyNews ==
    \A e \in Event :
        /\ runs[e] # "absent" /\ trigger.state # "deleted"
              => event[e].state \notin {"none", "baselined", "received"}
        /\ event[e].state = "task_created" => e \in links

\* dispatch_once() gives an event up only after all its attempts: neither a running
\* execution, which defers it, nor a late answer to a lapsed claim uses up more, and an
\* event that is settled stays as it is until the trigger goes.
SettledStays ==
    [][\A e \in Event :
          /\ event[e].state \in Settled /\ trigger'.state # "deleted"
                => event'[e].state = event[e].state
          /\ event'[e].state = "dead" /\ event[e].state # "dead"
                => Spent(e) /\ ~DispAt("deferring")]_tvars

\* The dispatcher settles every event in the end, whatever attempt dies where, unless
\* the trigger is paused or deleted or the Task stays busy.
EventIsSettled ==
    <>[](trigger.state = "active" /\ ~Busy) =>
        <>[](\A e \in Event : event[e].state \in Settled \cup {"none"})

\* The bridge hands over what the Resources have come to hold, once they stay as they
\* are, if the trigger is active.
NewsIsReceived ==
    <>[](trigger.state = "active") =>
        <>[](\A u \in Uri : event[<<u, resource[u]>>].state # "none")

\* The repository and the dispatcher deliver events as BoundedDelivery promises: an event of
\* the baseline is never executed, any other one only while it is claimed, after at most
\* max_delivery_attempts claims that count, and it is task_created or dead for good.
EventStages == [none |-> "unknown", baselined |-> "ignored", received |-> "waiting",
                claimed |-> "claimed", retry_wait |-> "waiting", task_created |-> "delivered",
                dead |-> "given_up"]

Promise == INSTANCE BoundedDelivery WITH
    Item <- Event,
    stage <- [e \in Event |-> EventStages[event[e].state]],
    tries <- [e \in Event |-> event[e].attempts],
    started <- links,
    withdrawn <- trigger.state = "deleted"

EventsAsPromised == Promise!PromiseSpec

\* claim_next(): whoever dies with an event in hand, whatever record is lost, an event that is
\* not settled is due, or its lease or its backoff runs.
EventIsAttended ==
    \A e \in Event : event[e].state \notin Settled \cup {"none"} =>
                        e \in DueEvents \/ event[e].timer = "running"

\* News is received, and every event settled, in the end, for good and as promised.
EventsSettle ==
    /\ NewsIsReceived /\ EventIsSettled
    /\ SettledStays /\ EventsAsPromised /\ [][EventIsAttended']_tvars

=============================================================================
