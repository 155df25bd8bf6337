---------------------------- MODULE EventStream ----------------------------
(***************************************************************************)
(* How the events of a Task reach a client of Core.                        *)
(*                                                                         *)
(* The journal (runtime_task_events) is the truth.  A coroutine that has   *)
(* committed an event publishes it to the TaskEventHub afterwards, in a    *)
(* step of its own; TaskService.events() follows one Task by replaying the *)
(* journal and then reading its bounded queue of the hub, and              *)
(* principal_events() follows everything a principal may see by polling    *)
(* the journal whenever the hub's version moves.  CoreServer sends what    *)
(* events() yields into the bounded buffer of a CoreClient.                *)
(***************************************************************************)
EXTENDS Integers, Sequences, FiniteSets

CONSTANTS
    Capacity,       \* subscriber_capacity of the hub
    ClientCapacity, \* max_buffered_task_events of the client
    PageLimit,      \* the limit of one list_events() of the replay
    MaxEvents,      \* bound: length of the journal
    MaxOpens,       \* bound: how often the client subscribes
    MaxStreamFaults \* bound: publications lost, connections dropped, restarts of Core

ASSUME StreamAssumption ==
    /\ Capacity \in Nat \ {0}
    /\ ClientCapacity \in Nat \ {0}
    /\ PageLimit \in Nat \ {0}
    /\ MaxEvents \in Nat
    /\ MaxOpens \in Nat
    /\ MaxStreamFaults \in Nat

VARIABLES
    journal,     \* the events of the Task, event_seq being the position
    unpublished, \* the event_seqs whose coroutine has committed and not published
    hub,         \* the subscription of the stream: is it registered, and its queue
    version,     \* _feed_version
    stream,      \* the events() generator and the _stream_task() that drives it
    client,      \* CoreClient.task_events()
    feed,        \* the principal_events() generator
    opens,       \* how often the client has subscribed
    faults       \* how many faults there have been

svars == <<journal, unpublished, hub, version, stream, client, feed, opens, faults>>

\* An event of the principal's feed, one that is not, and the terminal one.
EventKind == {"feed", "private", "final"}

\* TaskSubscriptionOverflowError in a queue of the hub; any error in the buffer
\* of the client.  No event has this event_seq.
Error == 0

StreamPc == {"off", "subscribing", "replaying", "checking", "live", "sending"}
ClientState == {"idle", "watching", "returned", "failed"}
FeedPc == {"off", "listing", "yielding", "waiting"}

\* upto: the last event of the page being sent; then: where the stream goes after it.
StreamTypeOK ==
    /\ journal \in Seq(EventKind) /\ Len(journal) <= MaxEvents
    /\ unpublished \subseteq DOMAIN journal
    /\ hub \in [open : BOOLEAN, queue : Seq(0..MaxEvents)]
    /\ Len(hub.queue) <= Capacity
    /\ version \in 0..MaxEvents
    /\ stream \in [pc : StreamPc, last : 0..MaxEvents, upto : 0..MaxEvents, then : StreamPc]
    /\ client \in [state : ClientState, buffer : Seq(0..MaxEvents), seen : 0..MaxEvents]
    /\ Len(client.buffer) <= ClientCapacity
    /\ feed \in [pc : FeedPc, cursor : 0..MaxEvents, upto : 0..MaxEvents,
                 version : 0..MaxEvents]
    /\ opens \in 0..MaxOpens
    /\ faults \in 0..MaxStreamFaults

Closed == [open |-> FALSE, queue |-> <<>>]
StreamOff == [pc |-> "off", last |-> 0, upto |-> 0, then |-> "off"]
FeedOff(cursor) == [pc |-> "off", cursor |-> cursor, upto |-> 0, version |-> 0]

StreamInit ==
    /\ journal = <<>>
    /\ unpublished = {}
    /\ hub = Closed
    /\ version = 0
    /\ stream = StreamOff
    /\ client = [state |-> "idle", buffer |-> <<>>, seen |-> 0]
    /\ feed = FeedOff(0)
    /\ opens = 0
    /\ faults = 0

AtMost(a, b) == IF a <= b THEN a ELSE b
Finished == journal # <<>> /\ journal[Len(journal)] = "final"

-----------------------------------------------------------------------------
(* The journal and the hub *)

\* A transaction of the Task repository; a finished Task accepts no event.
Commit(kind) ==
    /\ Len(journal) < MaxEvents
    /\ ~Finished
    /\ journal' = Append(journal, kind)
    /\ unpublished' = unpublished \cup {Len(journal) + 1}
    /\ UNCHANGED <<hub, version, stream, client, feed, opens, faults>>

\* Mutation: an event that finds the queue full is dropped, the subscription kept.
Fanned_DropWhenFull(e) ==
    IF ~hub.open \/ Len(hub.queue) = Capacity THEN hub
    ELSE [hub EXCEPT !.queue = Append(@, e)]

\* Mutation: the queue has no limit.
Fanned_Unbounded(e) == IF ~hub.open THEN hub ELSE [hub EXCEPT !.queue = Append(@, e)]

\* A queue that is full is emptied, its reader told, and the subscription ended.
Fanned(e) ==
    IF ~hub.open THEN hub
    ELSE IF Len(hub.queue) < Capacity THEN [hub EXCEPT !.queue = Append(@, e)]
    ELSE [open |-> FALSE, queue |-> <<Error>>]

\* The coroutines that commit are several, so events are published in any order.
Publish(e) ==
    /\ e \in unpublished
    /\ unpublished' = unpublished \ {e}
    /\ hub' = Fanned(e)
    /\ version' = version + 1
    /\ UNCHANGED <<journal, stream, client, feed, opens, faults>>

\* A turn that is cancelled while its transaction runs in another thread leaves
\* the event committed and never publishes it.  The terminal event is published
\* by coroutines that nothing cancels.
LosePublication(e) ==
    /\ e \in unpublished
    /\ journal[e] # "final"
    /\ faults < MaxStreamFaults
    /\ faults' = faults + 1
    /\ unpublished' = unpublished \ {e}
    /\ UNCHANGED <<journal, hub, version, stream, client, feed, opens>>

-----------------------------------------------------------------------------
(* CoreClient.task_events() and the connection *)

\* The connection is gone: the server cancels the stream, which unsubscribes, and
\* the reader of the client replaces what it has buffered by an error.
Disconnected ==
    /\ hub' = Closed
    /\ stream' = StreamOff
    /\ client' = IF client.state = "watching" THEN [client EXCEPT !.buffer = <<Error>>]
                 ELSE client

\* subscribe_task(after_seq): a client that comes back names the last event it saw.
ClientSubscribes ==
    /\ client.state \in {"idle", "failed"}
    /\ opens < MaxOpens
    /\ opens' = opens + 1
    /\ client' = [client EXCEPT !.state = "watching", !.buffer = <<>>]
    /\ stream' = [StreamOff EXCEPT !.pc = "subscribing", !.last = client.seen]
    /\ UNCHANGED <<journal, unpublished, hub, version, feed, faults>>

ClientReceives ==
    /\ client.state = "watching"
    /\ client.buffer # <<>>
    /\ LET item == Head(client.buffer) IN
       client' = IF item = Error
                 THEN [client EXCEPT !.state = "failed", !.buffer = <<>>]
                 ELSE [state |-> IF journal[item] = "final" THEN "returned" ELSE "watching",
                       buffer |-> Tail(client.buffer), seen |-> item]
    /\ UNCHANGED <<journal, unpublished, hub, version, stream, feed, opens, faults>>

ConnectionDrops ==
    /\ client.state = "watching"
    /\ faults < MaxStreamFaults
    /\ faults' = faults + 1
    /\ Disconnected
    /\ UNCHANGED <<journal, unpublished, version, feed, opens>>

\* Core dies: the hub starts anew, and what was committed and not published is
\* never published.
CoreRestarts ==
    /\ faults < MaxStreamFaults
    /\ faults' = faults + 1
    /\ unpublished' = {}
    /\ version' = 0
    /\ Disconnected
    /\ feed' = FeedOff(feed.cursor)
    /\ UNCHANGED <<journal, opens>>

-----------------------------------------------------------------------------
(* TaskService.events() *)

StreamSubscribes ==
    /\ stream.pc = "subscribing"
    /\ stream' = [stream EXCEPT !.pc = "replaying"]
    /\ hub' = [open |-> TRUE, queue |-> <<>>]
    /\ UNCHANGED <<journal, unpublished, version, client, feed, opens, faults>>

\* One page of list_events(); a short one is the last.
StreamReplays ==
    /\ stream.pc = "replaying"
    /\ LET upto == AtMost(stream.last + PageLimit, Len(journal)) IN
       stream' = IF upto <= stream.last THEN [stream EXCEPT !.pc = "checking"]
                 ELSE [stream EXCEPT !.pc = "sending", !.upto = upto,
                          !.then = IF upto = stream.last + PageLimit THEN "replaying"
                                   ELSE "checking"]
    /\ UNCHANGED <<journal, unpublished, hub, version, client, feed, opens, faults>>

\* get(): a Task that has finished since has nothing more to tell.
StreamChecks ==
    /\ stream.pc = "checking"
    /\ IF Finished THEN stream' = StreamOff /\ hub' = Closed
       ELSE stream' = [stream EXCEPT !.pc = "live"] /\ UNCHANGED hub
    /\ UNCHANGED <<journal, unpublished, version, client, feed, opens, faults>>

\* Mutation: a gap is not filled from the journal.
FillFrom_Skip(event) == event - 1

\* after_seq of the list_events() that fills the gap before an event.
FillFrom(event) == stream.last

\* subscription.receive(): an old event is skipped; one that is ahead is sent with
\* the persisted ones before it; the overflow error ends the stream, and reaches
\* the client as an error.
StreamReceives ==
    /\ stream.pc = "live"
    /\ hub.queue # <<>>
    /\ LET event == Head(hub.queue) IN
       \/ /\ event = Error
          /\ stream' = StreamOff
          /\ hub' = Closed
          /\ client' = [client EXCEPT !.buffer = IF Len(@) < ClientCapacity
                                                 THEN Append(@, Error) ELSE <<Error>>]
       \/ /\ event # Error
          /\ hub' = [hub EXCEPT !.queue = Tail(@)]
          /\ stream' = IF event <= stream.last THEN stream
                       ELSE [pc |-> "sending", last |-> FillFrom(event), upto |-> event,
                             then |-> "live"]
          /\ UNCHANGED client
    /\ UNCHANGED <<journal, unpublished, version, feed, opens, faults>>

\* One event is yielded and sent; the terminal one is the last.  A client whose
\* buffer is full closes the connection.
StreamSends ==
    /\ stream.pc = "sending"
    /\ LET event == stream.last + 1 IN
       IF Len(client.buffer) = ClientCapacity
       THEN Disconnected
       ELSE /\ client' = [client EXCEPT !.buffer = Append(@, event)]
            /\ IF journal[event] = "final" THEN stream' = StreamOff /\ hub' = Closed
               ELSE /\ stream' = IF event < stream.upto THEN [stream EXCEPT !.last = event]
                                 ELSE [StreamOff EXCEPT !.pc = stream.then, !.last = event]
                    /\ UNCHANGED hub
    /\ UNCHANGED <<journal, unpublished, version, feed, opens, faults>>

-----------------------------------------------------------------------------
(* TaskService.principal_events() *)

\* The rows of runtime_principal_task_events; feed_event_id is the position.
FeedLength == Cardinality({e \in DOMAIN journal : journal[e] # "private"})

FeedOpens ==
    /\ feed.pc = "off"
    /\ feed' = [feed EXCEPT !.pc = "listing", !.version = version]
    /\ UNCHANGED <<journal, unpublished, hub, version, stream, client, opens, faults>>

FeedLists ==
    /\ feed.pc = "listing"
    /\ feed' = IF FeedLength <= feed.cursor THEN [feed EXCEPT !.pc = "waiting"]
               ELSE [feed EXCEPT !.pc = "yielding",
                                 !.upto = AtMost(feed.cursor + PageLimit, FeedLength)]
    /\ UNCHANGED <<journal, unpublished, hub, version, stream, client, opens, faults>>

FeedYields ==
    /\ feed.pc = "yielding"
    /\ feed' = [feed EXCEPT !.cursor = @ + 1,
                            !.pc = IF feed.cursor + 1 = feed.upto THEN "listing" ELSE @]
    /\ UNCHANGED <<journal, unpublished, hub, version, stream, client, opens, faults>>

\* wait_for_feed_change(): the version has moved, or the reconciliation interval
\* is over.
FeedWakes ==
    /\ feed.pc = "waiting"
    /\ feed' = [feed EXCEPT !.pc = "listing", !.version = version]
    /\ UNCHANGED <<journal, unpublished, hub, version, stream, client, opens, faults>>

-----------------------------------------------------------------------------
StreamStep == StreamSubscribes \/ StreamReplays \/ StreamChecks \/ StreamReceives \/ StreamSends
FeedStep == FeedLists \/ FeedYields \/ FeedWakes

Writing(kinds) ==
    \/ \E kind \in kinds : Commit(kind)
    \/ \E e \in 1..MaxEvents : Publish(e) \/ LosePublication(e)

Watching ==
    \/ ClientSubscribes
    \/ ClientReceives
    \/ ConnectionDrops
    \/ StreamStep

StreamNext == Writing(EventKind) \/ Watching \/ FeedOpens \/ FeedStep \/ CoreRestarts

\* A coroutine of Core that can run is run: asyncio is first come, first served.
\* Nobody is bound to commit, to subscribe or to fail.
StreamFairness ==
    /\ WF_svars(\E e \in 1..MaxEvents : Publish(e))
    /\ WF_svars(ClientReceives)
    /\ WF_svars(StreamStep)
    /\ WF_svars(FeedStep)

StreamSpec == StreamInit /\ [][StreamNext]_svars /\ StreamFairness

-----------------------------------------------------------------------------
(* Properties *)

\* What TaskService.events() and the client's buffer promise: whatever is published
\* late, twice as old, out of order or never, and however often a queue overflows,
\* the connection drops or Core restarts, a client sees the journal one event after
\* the other, none left out and none again.
SeenInOrder == [][client'.seen \in {client.seen, client.seen + 1}]_svars

\* events() returns once its Task has finished: the stream does not hold its
\* subscription for ever, though the terminal event may meet a full queue.
StreamEnds == Finished ~> (stream.pc = "off")

\* principal_events() yields every event of the feed in the end to a reader that stays,
\* those whose publication was lost included: the wait for the hub is bounded.
FeedDelivers == (feed.pc # "off") ~> (feed.pc = "off" \/ feed.cursor = FeedLength)

\* receive(): a stream that waits at an empty queue, while its Task has finished, is still to
\* be told, because nothing that was published has passed it by: the hub closes a queue that
\* is full and says so in it, and a subscription lasts no longer than its reader.
EndIsHeard ==
    /\ stream.pc = "live" /\ hub.queue = <<>> /\ Finished => Len(journal) \in unpublished
    /\ hub.open => stream.pc \notin {"off", "subscribing"}

\* Neither reader waits for ever for what is in the journal.
StreamsSettle == StreamEnds /\ FeedDelivers /\ [][EndIsHeard']_svars

=============================================================================
