------------------------------ MODULE McpClient ------------------------------
(***************************************************************************)
(* The client of one MCP server (extensions/mcp.py), which the tool calls  *)
(* of all agents share with the Resource bridge.                           *)
(*                                                                         *)
(* A coroutine, the owner, holds the connection from its start to its end. *)
(* call_tool() takes a readers-writer lock, restarts a dead owner, sends,  *)
(* and after a transport error restarts the owner and sends once more.     *)
(* The bridge restarts a dead owner too, without the lock.  Any of them    *)
(* may be cancelled at an await, and the extension manager closes the      *)
(* client whenever it likes.  One action is the code between two awaits.   *)
(***************************************************************************)
EXTENDS Integers, FiniteSets, Sequences, SequencesExt

CONSTANTS
    Call,         \* the calls of tools
    ReadOnly,     \* those of a tool whose effect is READ_ONLY
    Bridge,       \* the Resource bridge, when it reads a Resource
    MaxOwners,    \* bound: owners that are started
    MaxTroubles   \* bound: servers that die or do not start, cancellations

ASSUME McpAssumption ==
    /\ IsFiniteSet(Call)
    /\ ReadOnly \subseteq Call
    /\ Bridge \notin Call
    /\ MaxOwners \in Nat \ {0}
    /\ MaxTroubles \in Nat

Actor == Call \cup {Bridge}
Owner == 1..MaxOwners

VARIABLES
    actor,    \* where every call, and the bridge, is
    rwlock,   \* _tool_rw_lock
    owner,    \* _owner_task, 0: None
    life,     \* of every owner: how far its coroutine is
    told,     \* the owners whose _owner_stop is set
    pipe,     \* of every owner: the connection it has made
    session,  \* the owner whose session is _session, 0: None
    stack,    \* the owner whose connection is on _stack, 0: None
    watch,    \* is the URI in _resource_subscriptions, is there a _listen_task
    manager,  \* MCPServerProvider.start() and stop()
    ran,      \* history: how often the server has run each call
    late,     \* history: the calls that have timed out
    dropped,  \* history: was a call cancelled
    troubles  \* how many faults there have been

mvars == <<actor, rwlock, owner, life, told, pipe, session, stack, watch, manager, ran, late,
           dropped, troubles>>

ActorPc == {"idle", "locking", "checking", "stopping", "starting", "stuck", "flying", "served",
            "done"}
Life == {"none", "starting", "failed", "up", "draining", "unlinking", "closed"}
ManagerPc == {"off", "starting", "running", "closing", "gone"}

\* want: the lock that is asked for or held; owner: the one that is waited for or used;
\* again: is this the second attempt, after a transport error.
ActorRow == [pc : ActorPc, want : {"none", "read", "write"}, owner : 0..MaxOwners, again : BOOLEAN]

\* waiting: the calls that _waiting_writers counts; asleep and queue: those in _read_ok and
\* _write_ok.wait() that have not been notified.
LockRow == [readers : SUBSET Call, writer : SUBSET Call, waiting : SUBSET Call,
            asleep : SUBSET Call, queue : Seq(Call)]

McpTypeOK ==
    /\ actor \in [Actor -> ActorRow]
    /\ rwlock \in LockRow
    /\ owner \in 0..MaxOwners
    /\ life \in [Owner -> Life]
    /\ told \subseteq Owner
    /\ pipe \in [Owner -> {"none", "open", "dead", "closed"}]
    /\ session \in 0..MaxOwners
    /\ stack \in 0..MaxOwners
    /\ watch \in [uri : BOOLEAN, task : BOOLEAN]
    /\ manager \in [pc : ManagerPc, owner : 0..MaxOwners]
    /\ ran \in [Call -> 0..2]
    /\ late \subseteq Call
    /\ dropped \in BOOLEAN
    /\ troubles \in 0..MaxTroubles

Absent == [pc |-> "idle", want |-> "none", owner |-> 0, again |-> FALSE]
Unwatched == [uri |-> FALSE, task |-> FALSE]
Unlocked == [readers |-> {}, writer |-> {}, waiting |-> {}, asleep |-> {}, queue |-> <<>>]

McpInit ==
    /\ actor = [a \in Actor |-> Absent]
    /\ rwlock = Unlocked
    /\ owner = 0 /\ session = 0 /\ stack = 0
    /\ life = [g \in Owner |-> "none"]
    /\ told = {}
    /\ pipe = [g \in Owner |-> "none"]
    /\ watch = Unwatched
    /\ manager = [pc |-> "off", owner |-> 0]
    /\ ran = [c \in Call |-> 0]
    /\ late = {} /\ dropped = FALSE /\ troubles = 0

ActorAt(a, pc) == actor[a].pc = pc
InFlight(c) == actor[c].pc \in {"flying", "served"}
Trouble == troubles < MaxTroubles /\ troubles' = troubles + 1

-----------------------------------------------------------------------------
(* AsyncRWLock *)

\* acquire_read(): on arrival, and again after every notification.
AskRead(l, c) ==
    IF l.writer # {} \/ l.waiting # {}
    THEN [l EXCEPT !.asleep = @ \cup {c}]
    ELSE [l EXCEPT !.readers = @ \cup {c}]

\* Mutation: the writer does not wait for readers.
AskWrite_BesideReaders(l, c) ==
    IF l.writer # {}
    THEN [l EXCEPT !.waiting = @ \cup {c}, !.queue = Append(@, c)]
    ELSE [l EXCEPT !.waiting = @ \ {c}, !.writer = {c}]

\* acquire_write()
AskWrite(l, c) ==
    IF l.writer # {} \/ l.readers # {}
    THEN [l EXCEPT !.waiting = @ \cup {c}, !.queue = Append(@, c)]
    ELSE [l EXCEPT !.waiting = @ \ {c}, !.writer = {c}]

\* notify(1): the one that has waited longest.
NotifyWriter(l) == [l EXCEPT !.queue = IF @ = <<>> THEN @ ELSE Tail(@)]

EndRead(l, c) ==
    LET left == [l EXCEPT !.readers = @ \ {c}]
    IN  IF left.readers = {} THEN NotifyWriter(left) ELSE left

\* Readers are only woken when no writer is waiting.
EndWrite(l, c) ==
    LET left == [l EXCEPT !.writer = {}]
    IN  IF left.waiting # {} THEN NotifyWriter(left) ELSE [left EXCEPT !.asleep = {}]

Freed(l, c) ==
    IF c \in l.readers THEN EndRead(l, c)
    ELSE IF c \in l.writer THEN EndWrite(l, c)
    ELSE l

Asked(l, c, want) == IF want = "read" THEN AskRead(l, c) ELSE AskWrite(l, c)
Holds(l, c) == c \in l.readers \cup l.writer
Sleeps(l, c) == c \in l.asleep \/ c \in Range(l.queue)

\* wait() takes its own place out of the queue.
Without(queue, c) ==
    IF c \in Range(queue) THEN RemoveAt(queue, CHOOSE k \in DOMAIN queue : queue[k] = c)
                          ELSE queue

\* wait() is cancelled.  From Python 3.13 on it passes a notification on.
GivesUp(l, c, passes) ==
    LET gone == [l EXCEPT !.waiting = @ \ {c}, !.asleep = @ \ {c}, !.queue = Without(@, c)]
    IN  IF passes /\ c \in l.waiting THEN NotifyWriter(gone) ELSE gone

-----------------------------------------------------------------------------
(* The owner: _owner_loop(), _start_owned(), _close_owned() *)

\* The connection is made and its session negotiated, then ready is set.
OwnerStarts(g) ==
    /\ life[g] = "starting"
    /\ life' = [life EXCEPT ![g] = "up"]
    /\ pipe' = [pipe EXCEPT ![g] = "open"]
    /\ session' = g /\ stack' = g
    /\ UNCHANGED <<actor, rwlock, owner, told, watch, manager, ran, late, dropped, troubles>>

\* The connection is closed again, the client is cleared, ready gets the exception.
OwnerFails(g) ==
    /\ life[g] = "starting"
    /\ Trouble
    /\ life' = [life EXCEPT ![g] = "failed"]
    /\ session' = 0 /\ stack' = 0
    /\ pipe' = IF stack = 0 THEN pipe ELSE [pipe EXCEPT ![stack] = "closed"]
    /\ watch' = Unwatched
    /\ UNCHANGED <<actor, rwlock, owner, told, manager, ran, late, dropped>>

\* _stop_listener() waits for a listener that it has cancelled.
OwnerDrains(g) ==
    /\ life[g] = "up" /\ g \in told /\ watch.task
    /\ life' = [life EXCEPT ![g] = "draining"]
    /\ watch' = [watch EXCEPT !.task = FALSE]
    /\ UNCHANGED <<actor, rwlock, owner, told, pipe, session, stack, manager, ran, late,
                   dropped, troubles>>

\* Whatever is on the stack by now is taken and closed.
OwnerUnlinks(g) ==
    /\ \/ life[g] = "draining"
       \/ life[g] = "up" /\ g \in told /\ ~watch.task
    /\ life' = [life EXCEPT ![g] = IF stack = 0 THEN "closed" ELSE "unlinking"]
    /\ pipe' = IF stack = 0 THEN pipe ELSE [pipe EXCEPT ![stack] = "closed"]
    /\ session' = 0 /\ stack' = 0
    /\ watch' = Unwatched
    /\ UNCHANGED <<actor, rwlock, owner, told, manager, ran, late, dropped, troubles>>

OwnerCloses(g) ==
    /\ life[g] = "unlinking"
    /\ life' = [life EXCEPT ![g] = "closed"]
    /\ UNCHANGED <<actor, rwlock, owner, told, pipe, session, stack, watch, manager, ran, late,
                   dropped, troubles>>

ServerDies(g) ==
    /\ pipe[g] = "open"
    /\ Trouble
    /\ pipe' = [pipe EXCEPT ![g] = "dead"]
    /\ UNCHANGED <<actor, rwlock, owner, life, told, session, stack, watch, manager, ran, late,
                   dropped>>

-----------------------------------------------------------------------------
(* Restarting the owner: _start_owner(), _stop_owner(), _ensure_alive() *)

Ended(g) == life[g] \in {"failed", "closed"}

Dead == Ended(owner) \/ session = 0 \/ pipe[session] # "open"

NextOwner == Cardinality({g \in Owner : life[g] # "none"}) + 1

Leaves(a) ==
    /\ actor' = [actor EXCEPT ![a] = [Absent EXCEPT !.pc = "done"]]
    /\ rwlock' = Freed(rwlock, a)

\* _require_session(): without one the call raises.
Sends(a) ==
    IF session = 0
    THEN Leaves(a)
    ELSE /\ actor' = [actor EXCEPT ![a].pc = "flying", ![a].owner = session]
         /\ UNCHANGED rwlock

StopsOwner(a) ==
    /\ actor' = [actor EXCEPT ![a].pc = "stopping", ![a].owner = owner]
    /\ told' = told \cup {owner}
    /\ owner' = 0
    /\ UNCHANGED <<rwlock, life>>

StartsOwner(a) ==
    /\ owner = 0 /\ NextOwner \in Owner
    /\ actor' = [actor EXCEPT ![a].pc = "starting", ![a].owner = NextOwner]
    /\ life' = [life EXCEPT ![NextOwner] = "starting"]
    /\ owner' = NextOwner
    /\ UNCHANGED <<rwlock, told>>

\* _ensure_alive(): also finds dead the owner that another call has only just started.
Check(a) ==
    /\ ActorAt(a, "checking") /\ ~actor[a].again
    /\ IF owner # 0 /\ Dead
       THEN StopsOwner(a)
       ELSE Sends(a) /\ UNCHANGED <<owner, told, life>>
    /\ UNCHANGED <<pipe, session, stack, watch, manager, ran, late, dropped, troubles>>

\* _restart_owner() after a transport error, with the lock taken to write.
Reconnect(a) ==
    /\ ActorAt(a, "checking") /\ actor[a].again
    /\ IF owner # 0 THEN StopsOwner(a) ELSE StartsOwner(a)
    /\ UNCHANGED <<pipe, session, stack, watch, manager, ran, late, dropped, troubles>>

\* Another call may have started an owner in the meantime; then this one raises.
OwnerHasStopped(a) ==
    /\ ActorAt(a, "stopping") /\ Ended(actor[a].owner)
    /\ \/ StartsOwner(a)
       \/ owner # 0 /\ Leaves(a) /\ UNCHANGED <<owner, told, life>>
    /\ UNCHANGED <<pipe, session, stack, watch, manager, ran, late, dropped, troubles>>

\* The subscriptions are listened to again if there are any left.
OwnerHasStarted(a) ==
    /\ ActorAt(a, "starting")
    /\ life[actor[a].owner] \notin {"starting", "failed"}
    /\ Sends(a)
    /\ watch' = [watch EXCEPT !.task = @ \/ (watch.uri /\ session # 0)]
    /\ UNCHANGED <<owner, life, told, pipe, session, stack, manager, ran, late, dropped, troubles>>

\* Whatever _owner_task is by now, it is forgotten.
OwnerHasFailed(a) ==
    /\ \/ ActorAt(a, "starting") /\ life[actor[a].owner] = "failed"
       \/ ActorAt(a, "stuck") /\ Ended(actor[a].owner)
    /\ owner' = 0
    /\ Leaves(a)
    /\ UNCHANGED <<life, told, pipe, session, stack, watch, manager, ran, late, dropped, troubles>>

-----------------------------------------------------------------------------
(* call_tool() *)

\* Locked to go on, or asleep.
Waits(c, want, again, l) ==
    LET asked == Asked(l, c, want)
    IN  /\ rwlock' = asked
        /\ actor' = [actor EXCEPT ![c] =
              [pc |-> IF Holds(asked, c) THEN "checking" ELSE "locking",
               want |-> want, owner |-> 0, again |-> again]]

Enter(c) ==
    /\ ActorAt(c, "idle") /\ manager.pc = "running"
    /\ Waits(c, IF c \in ReadOnly THEN "read" ELSE "write", FALSE, rwlock)
    /\ UNCHANGED <<owner, life, told, pipe, session, stack, watch, manager, ran, late, dropped,
                   troubles>>

WakesUp(c) ==
    /\ ActorAt(c, "locking") /\ ~Sleeps(rwlock, c)
    /\ Waits(c, actor[c].want, actor[c].again, rwlock)
    /\ UNCHANGED <<owner, life, told, pipe, session, stack, watch, manager, ran, late, dropped,
                   troubles>>

ServerRuns(c) ==
    /\ ActorAt(c, "flying") /\ pipe[actor[c].owner] = "open"
    /\ actor' = [actor EXCEPT ![c].pc = "served"]
    /\ ran' = [ran EXCEPT ![c] = @ + 1]
    /\ UNCHANGED <<rwlock, owner, life, told, pipe, session, stack, watch, manager, late, dropped,
                   troubles>>

CallReturns(c) ==
    /\ ActorAt(c, "served") /\ pipe[actor[c].owner] = "open"
    /\ Leaves(c)
    /\ UNCHANGED <<owner, life, told, pipe, session, stack, watch, manager, ran, late, dropped,
                   troubles>>

\* A TimeoutError is an OSError, but it is looked at before.
IsTransportError(e) == e = "broken"

\* After a transport error the call releases its lock, whichever it is, and takes it to
\* write; it does not know whether the server has run the tool.
CallFails(c, e) ==
    /\ InFlight(c)
    /\ e = "broken" => pipe[actor[c].owner] # "open"
    /\ e = "refused" => pipe[actor[c].owner] = "open" /\ ActorAt(c, "flying")
    /\ IF IsTransportError(e) /\ ~actor[c].again
       THEN Waits(c, "write", TRUE, Freed(rwlock, c))
       ELSE Leaves(c)
    /\ late' = IF e = "timeout" /\ ~actor[c].again THEN late \cup {c} ELSE late
    /\ UNCHANGED <<owner, life, told, pipe, session, stack, watch, manager, ran, dropped, troubles>>

\* The agent's turn is cancelled.  _start_owner() then waits for the end of the owner that
\* it has started, and keeps the lock.
CallIsCancelled(c, passes) ==
    /\ actor[c].pc \in {"locking", "stopping", "starting", "flying", "served"}
    /\ Trouble
    /\ dropped' = TRUE
    /\ IF ActorAt(c, "starting")
       THEN actor' = [actor EXCEPT ![c].pc = "stuck"] /\ UNCHANGED rwlock
       ELSE /\ actor' = [actor EXCEPT ![c] = [Absent EXCEPT !.pc = "done"]]
            /\ rwlock' = Freed(GivesUp(rwlock, c, passes), c)
    /\ UNCHANGED <<owner, life, told, pipe, session, stack, watch, manager, ran, late>>

-----------------------------------------------------------------------------
(* The Resource bridge: read_resource() takes no lock, nor do the subscriptions *)

ReadResource ==
    /\ ActorAt(Bridge, "idle") /\ manager.pc = "running"
    /\ actor' = [actor EXCEPT ![Bridge].pc = "checking"]
    /\ UNCHANGED <<rwlock, owner, life, told, pipe, session, stack, watch, manager, ran, late,
                   dropped, troubles>>

ReadEnds ==
    /\ ActorAt(Bridge, "flying")
    /\ Leaves(Bridge)
    /\ UNCHANGED <<owner, life, told, pipe, session, stack, watch, manager, ran, late, dropped,
                   troubles>>

\* subscribe_resource() and unsubscribe_resource() both make a new listener.
SetSubscribed(on) ==
    /\ manager.pc = "running" /\ watch.uri # on
    /\ watch' = [uri |-> on, task |-> session # 0]
    /\ UNCHANGED <<actor, rwlock, owner, life, told, pipe, session, stack, manager, ran, late,
                   dropped, troubles>>

-----------------------------------------------------------------------------
(* MCPServerProvider.start() and stop() *)

ManagerGoes(pc, g) == manager' = [pc |-> pc, owner |-> g]

ProviderStarts ==
    /\ manager.pc = "off"
    /\ life' = [life EXCEPT ![NextOwner] = "starting"]
    /\ owner' = NextOwner
    /\ ManagerGoes("starting", NextOwner)
    /\ UNCHANGED <<actor, rwlock, told, pipe, session, stack, watch, ran, late, dropped, troubles>>

ProviderHasStarted ==
    /\ manager.pc = "starting" /\ life[manager.owner] = "up"
    /\ ManagerGoes("running", 0)
    /\ UNCHANGED <<actor, rwlock, owner, life, told, pipe, session, stack, watch, ran, late,
                   dropped, troubles>>

ProviderFails ==
    /\ manager.pc = "starting" /\ life[manager.owner] = "failed"
    /\ owner' = 0
    /\ ManagerGoes("gone", 0)
    /\ UNCHANGED <<actor, rwlock, life, told, pipe, session, stack, watch, ran, late, dropped,
                   troubles>>

\* Also when an inventory is not what was reviewed.  Without an owner there is nothing to
\* stop: not even the one that a restart will start.
ProviderStops ==
    /\ manager.pc = "running"
    /\ ManagerGoes(IF owner = 0 THEN "gone" ELSE "closing", owner)
    /\ told' = told \cup ({owner} \ {0})
    /\ owner' = 0
    /\ UNCHANGED <<actor, rwlock, life, pipe, session, stack, watch, ran, late, dropped, troubles>>

ProviderHasStopped ==
    /\ manager.pc = "closing" /\ Ended(manager.owner)
    /\ ManagerGoes("gone", 0)
    /\ UNCHANGED <<actor, rwlock, owner, life, told, pipe, session, stack, watch, ran, late,
                   dropped, troubles>>

-----------------------------------------------------------------------------

OwnerStep(g) == OwnerStarts(g) \/ OwnerDrains(g) \/ OwnerUnlinks(g) \/ OwnerCloses(g)
Restarting(a) ==
    Check(a) \/ Reconnect(a) \/ OwnerHasStopped(a) \/ OwnerHasStarted(a) \/ OwnerHasFailed(a)
Flying(c) ==
    CallReturns(c) \/ \E e \in {"refused", "timeout", "broken"} : CallFails(c, e)
Providing ==
    ProviderStarts \/ ProviderHasStarted \/ ProviderFails \/ ProviderStops \/ ProviderHasStopped

Serving == Providing \/ \E g \in Owner : OwnerStep(g) \/ OwnerFails(g) \/ ServerDies(g)
CallNext(c) ==
    \/ Enter(c) \/ WakesUp(c) \/ Restarting(c) \/ ServerRuns(c) \/ Flying(c)
    \/ \E passes \in BOOLEAN : CallIsCancelled(c, passes)
BridgeNext == ReadResource \/ Restarting(Bridge) \/ ReadEnds \/ \E on \in BOOLEAN : SetSubscribed(on)

McpNext == Serving \/ BridgeNext \/ \E c \in Call : CallNext(c)

\* Coroutines go on when they can; a request is answered or times out.
McpFairness ==
    /\ \A g \in Owner : WF_mvars(OwnerStep(g))
    /\ \A a \in Actor : WF_mvars(Restarting(a))
    /\ \A c \in Call : WF_mvars(WakesUp(c)) /\ WF_mvars(Flying(c))

McpSpec == McpInit /\ [][McpNext]_mvars /\ McpFairness

-----------------------------------------------------------------------------

\* AsyncRWLock: a call of a tool with an effect, and any second attempt, is under way alone.
WritersAlone ==
    \A c, d \in Call :
        c # d /\ InFlight(c) /\ InFlight(d)
          => /\ {c, d} \subseteq ReadOnly
             /\ ~actor[c].again /\ ~actor[d].again

\* AsyncRWLock: who sleeps has somebody left to wake him up, as long as nobody was cancelled:
\* a writer who gives up does not wake the readers that wait because of him.
NobodyStranded ==
    ~dropped =>
        /\ rwlock.asleep # {} => rwlock.writer # {} \/ rwlock.waiting # {}
        /\ rwlock.queue # <<>> =>
              \/ rwlock.writer # {} \/ rwlock.readers # {}
              \/ rwlock.waiting \ Range(rwlock.queue) # {}

\* _owner_loop(): an owner that nobody has told to stop is the one in _owner_task, so that
\* close() reaches it, whoever has restarted it; unless a start has failed or was cancelled,
\* after which _start_owner() forgets the owner that another call may have started.
OwnerIsKnown ==
    \/ dropped \/ \E g \in Owner : life[g] = "failed"
    \/ \A g \in Owner : life[g] \in {"starting", "up"} /\ g \notin told => owner = g

\* _close_owned(): no call is handed a session whose connection an owner has closed.
SessionIsUsable == session # 0 => pipe[session] # "closed"

\* call_tool(): a call that timed out, and which the server may still run, is not repeated.
TimeoutIsFinal == \A c \in late : ran[c] <= 1

McpSound == WritersAlone /\ NobodyStranded /\ OwnerIsKnown /\ SessionIsUsable /\ TimeoutIsFinal

\* call_tool(): a call that is not cancelled ends, with a result or an error, as long as no
\* other is cancelled, whatever servers die and whoever restarts them.
CallEnds == \A c \in Call : ~ActorAt(c, "idle") ~> ActorAt(c, "done") \/ dropped

=============================================================================
