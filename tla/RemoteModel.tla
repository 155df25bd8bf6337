----------------------------- MODULE RemoteModel -----------------------------
(***************************************************************************)
(* A model of another Node of the workspace (remote_models.py).            *)
(*                                                                         *)
(* The caller posts one invocation, under one identifier, directly, then   *)
(* over P2P, then over the Relay, until one of them answers in time.  A    *)
(* request that was given up may still arrive, in any order.  The target   *)
(* admits an invocation once, streams the provider's chunks into a durable *)
(* log and answers every request with that log.                            *)
(***************************************************************************)
EXTENDS Integers, FiniteSets, Sequences, SequencesExt

CONSTANTS
    Invocation,      \* the calls of the model, by their invocation_id
    MaxConcurrency,  \* max_remote_concurrency of the deployment
    MaxParts,        \* bound: chunks of a stream before the terminal one
    MaxOutages       \* bound: restarts of the target, failures of its database and
                     \* changes of its configuration

ASSUME RemoteAssumption ==
    /\ IsFiniteSet(Invocation)
    /\ MaxConcurrency \in Nat \ {0}
    /\ MaxParts \in Nat
    /\ MaxOutages \in Nat

Transport == {"direct", "p2p", "relay"}

VARIABLES
    caller,   \* of every invocation: the transport in use, the chunks that were yielded
    cooling,  \* is the clock before _p2p_retry_after
    post,     \* of every invocation and transport: the request and its answer
    row,      \* remote_model_invocations.state, "none": no row
    log,      \* remote_model_invocation_events
    work,     \* of every invocation: how far _execute() is, "none": not in _tasks
    free,     \* the value of the deployment's semaphore
    stops,    \* the invocations whose cancellation event is set
    shared,   \* is the deployment shared, with the material the tickets name
    called,   \* history: how often the provider was called for each invocation
    torn,     \* history: the invocations whose end could not be written
    outages   \* how many outages there have been

rvars == <<caller, cooling, post, row, log, work, free, stops, shared, called, torn, outages>>

Chunk == {"part", "stop", "failed", "cancelled", "unknown"}
Final == Chunk \ {"part"}
RowState == {"none", "running", "completed", "provider_failed", "cancelled", "outcome_unknown"}
Unsent == [at |-> "none", chunks |-> <<>>]

RemoteTypeOK ==
    /\ caller \in [Invocation -> [pc : {"idle", "over"} \cup Transport, got : Seq(Chunk)]]
    /\ cooling \in BOOLEAN /\ shared \in BOOLEAN
    /\ post \in [Invocation -> [Transport ->
          [at : {"none", "sent", "held", "answered", "refused"}, chunks : Seq(Chunk)]]]
    /\ row \in [Invocation -> RowState]
    /\ log \in [Invocation -> Seq(Chunk)]
    /\ work \in [Invocation -> {"none", "queued", "calling", "emitted"}]
    /\ free \in 0..MaxConcurrency
    /\ stops \subseteq Invocation /\ torn \subseteq Invocation
    /\ called \in [Invocation -> Nat]
    /\ outages \in 0..MaxOutages

RemoteInit ==
    /\ caller = [i \in Invocation |-> [pc |-> "idle", got |-> <<>>]]
    /\ cooling = FALSE /\ shared = TRUE
    /\ post = [i \in Invocation |-> [t \in Transport |-> Unsent]]
    /\ row = [i \in Invocation |-> "none"]
    /\ log = [i \in Invocation |-> <<>>]
    /\ work = [i \in Invocation |-> "none"]
    /\ free = MaxConcurrency
    /\ stops = {} /\ torn = {}
    /\ called = [i \in Invocation |-> 0]
    /\ outages = 0

Outage == outages < MaxOutages /\ outages' = outages + 1

-----------------------------------------------------------------------------
(* The caller: RemoteModelProvider._stream() *)

AfterDirect == IF cooling THEN "relay" ELSE "p2p"

\* Nobody listens to an answer any more; a request that is under way is not called back.
Abandoned(request) == IF request.at = "sent" THEN request ELSE Unsent

CallerLeaves(i) ==
    /\ caller' = [caller EXCEPT ![i].pc = "over"]
    /\ post' = [post EXCEPT ![i] = [t \in Transport |-> Abandoned(@[t])]]

Posts(i, t) ==
    /\ caller' = [caller EXCEPT ![i].pc = t]
    /\ post' = [post EXCEPT ![i] = [u \in Transport |->
          IF u = t THEN [Unsent EXCEPT !.at = "sent"] ELSE Abandoned(@[u])]]

\* _issue_ticket(), and whether there is an address to reach the target directly.
Begin(i, t) ==
    /\ caller[i].pc = "idle" /\ t \in {"direct", AfterDirect}
    /\ Posts(i, t)
    /\ UNCHANGED <<cooling, row, log, work, free, stops, shared, called, torn, outages>>

\* The next transport, or the end.  P2P is left alone for a while after it has failed.
FallsBack(i) ==
    LET t == caller[i].pc
    IN  /\ \/ t = "direct" /\ Posts(i, AfterDirect)
           \/ t = "p2p" /\ Posts(i, "relay")
           \/ t = "relay" /\ CallerLeaves(i)
        /\ cooling' = (cooling \/ t = "p2p")
        /\ UNCHANGED <<row, log, work, free, stops, shared, called, torn, outages>>

IsRefused(i) ==
    /\ caller[i].pc \in Transport /\ post[i][caller[i].pc].at = "refused"
    /\ FallsBack(i)

\* The request may be anywhere.  There is no timeout on the Relay.
TimesOut(i) == caller[i].pc \in {"direct", "p2p"} /\ FallsBack(i)

RelayBreaks(i) == caller[i].pc = "relay" /\ FallsBack(i)

\* The chunks are yielded; without any it is an error.
Receive(i) ==
    LET t == caller[i].pc
    IN  /\ t \in Transport /\ post[i][t].at = "answered"
        /\ caller' = [caller EXCEPT ![i] = [pc |-> "over", got |-> post[i][t].chunks]]
        /\ post' = [post EXCEPT ![i][t] = Unsent]
        /\ cooling' = (cooling /\ t # "p2p")
        /\ UNCHANGED <<row, log, work, free, stops, shared, called, torn, outages>>

\* The agent's turn is cancelled: nothing is sent to the target.
CallerIsCancelled(i) ==
    /\ caller[i].pc \in Transport
    /\ CallerLeaves(i)
    /\ UNCHANGED <<cooling, row, log, work, free, stops, shared, called, torn, outages>>

\* Sixty seconds have passed.
CooledDown ==
    /\ cooling /\ cooling' = FALSE
    /\ UNCHANGED <<caller, post, row, log, work, free, stops, shared, called, torn, outages>>

-----------------------------------------------------------------------------
(* RemoteModelInvocationRepository *)

StateOf(chunk) ==
    CASE chunk = "stop" -> "completed"
      [] chunk = "failed" -> "provider_failed"
      [] chunk = "cancelled" -> "cancelled"
      [] chunk = "unknown" -> "outcome_unknown"
      [] OTHER -> "running"

\* append(): nothing follows the terminal chunk.
AppendChunk(i, chunk) ==
    IF row[i] = "running"
    THEN /\ log' = [log EXCEPT ![i] = Append(@, chunk)]
         /\ row' = [row EXCEPT ![i] = StateOf(chunk)]
    ELSE UNCHANGED <<log, row>>

\* Mutation: an invocation that was written off is executed again.
Admits_Unknown(i) == row[i] \in {"none", "outcome_unknown"}

\* admit(): is the invocation created, or is it there.
Admits(i) == row[i] = "none"

-----------------------------------------------------------------------------
(* RemoteModelEndpoint.invoke(), and the route that answers *)

\* The route's answer, if the caller still waits for this request.
Replies(i, t, at, chunks) ==
    post' = [post EXCEPT ![i][t] =
        IF caller[i].pc = t THEN [at |-> at, chunks |-> chunks] ELSE Unsent]

Refused(i, t) ==
    /\ Replies(i, t, "refused", <<>>)
    /\ UNCHANGED <<row, work, stops>>

Created(i, t) ==
    /\ row' = [row EXCEPT ![i] = "running"]
    /\ work' = [work EXCEPT ![i] = "queued"]
    /\ stops' = stops \ {i}
    /\ Replies(i, t, "held", <<>>)

\* A request for an invocation that runs waits for its end, shielded; one whose end was not
\* written is answered with the chunks there are.
Found(i, t) ==
    /\ IF work[i] = "none" THEN Replies(i, t, "answered", log[i])
                           ELSE Replies(i, t, "held", <<>>)
    /\ UNCHANGED <<row, work, stops>>

Invoke(i, t) ==
    /\ post[i][t].at = "sent"
    /\ \/ ~shared /\ Refused(i, t)
       \/ shared /\ Admits(i) /\ Created(i, t)
       \/ shared /\ ~Admits(i) /\ Found(i, t)
    /\ UNCHANGED <<caller, cooling, log, free, shared, called, torn, outages>>

Answer(i, t) ==
    /\ post[i][t].at = "held" /\ work[i] = "none"
    /\ IF i \in torn THEN Replies(i, t, "refused", <<>>)
                     ELSE Replies(i, t, "answered", log[i])
    /\ UNCHANGED <<caller, cooling, row, log, work, free, stops, shared, called, torn, outages>>

\* cancel(): the holder of a ticket asks for it.
Cancel(i) ==
    /\ work[i] # "none" /\ i \notin stops
    /\ stops' = stops \cup {i}
    /\ UNCHANGED <<caller, cooling, post, row, log, work, free, shared, called, torn, outages>>

-----------------------------------------------------------------------------
(* _execute() *)

\* The end of the coroutine: the semaphore is released, the entry removed.
Ends(i, slots) ==
    /\ work' = [work EXCEPT ![i] = "none"]
    /\ stops' = stops \ {i}
    /\ free' = slots

\* Mutation: the slot of a cancelled invocation is lost.
Take_Kept(i) ==
    IF i \in stops
    THEN AppendChunk(i, "cancelled") /\ Ends(i, free - 1) /\ UNCHANGED called
    ELSE /\ work' = [work EXCEPT ![i] = "calling"]
         /\ free' = free - 1
         /\ called' = [called EXCEPT ![i] = @ + 1]
         /\ UNCHANGED <<row, log, stops>>

\* Mutation: the slot of a cancelled invocation is given back twice.
Take_Released(i) ==
    IF i \in stops
    THEN AppendChunk(i, "cancelled") /\ Ends(i, free + 1) /\ UNCHANGED called
    ELSE /\ work' = [work EXCEPT ![i] = "calling"]
         /\ free' = free - 1
         /\ called' = [called EXCEPT ![i] = @ + 1]
         /\ UNCHANGED <<row, log, stops>>

\* One that was cancelled while it waited does not reach the provider.
Take(i) ==
    IF i \in stops
    THEN AppendChunk(i, "cancelled") /\ Ends(i, free) /\ UNCHANGED called
    ELSE /\ work' = [work EXCEPT ![i] = "calling"]
         /\ free' = free - 1
         /\ called' = [called EXCEPT ![i] = @ + 1]
         /\ UNCHANGED <<row, log, stops>>

Acquire(i) ==
    /\ work[i] = "queued" /\ free > 0
    /\ Take(i)
    /\ UNCHANGED <<caller, cooling, post, shared, torn, outages>>

Emit(i, chunk) ==
    /\ work[i] = "calling"
    /\ chunk = "part" => Len(log[i]) < MaxParts
    /\ AppendChunk(i, chunk)
    /\ work' = [work EXCEPT ![i] = IF chunk = "part" THEN @ ELSE "emitted"]
    /\ UNCHANGED <<caller, cooling, post, free, stops, shared, called, torn, outages>>

\* The stream ends.  If it had no terminal chunk one is written.
StreamEnds(i) ==
    /\ \/ work[i] = "emitted" /\ UNCHANGED <<row, log>>
       \/ work[i] = "calling" /\ AppendChunk(i, IF i \in stops THEN "cancelled" ELSE "failed")
    /\ Ends(i, free + 1)
    /\ UNCHANGED <<caller, cooling, post, shared, called, torn, outages>>

\* The provider raises, before or after its terminal chunk.
StreamFails(i) ==
    /\ work[i] \in {"calling", "emitted"}
    /\ AppendChunk(i, "failed")
    /\ Ends(i, free + 1)
    /\ UNCHANGED <<caller, cooling, post, shared, called, torn, outages>>

\* The database fails at a chunk, and again at the one that reports it: the row stays as it
\* is, and whoever waits gets the exception.
StoreFails(i) ==
    /\ work[i] = "calling"
    /\ Outage
    /\ torn' = torn \cup {i}
    /\ Ends(i, free + 1)
    /\ UNCHANGED <<caller, cooling, post, row, log, shared, called>>

\* A stop or a crash: what runs is written off, by its coroutine or by the next start.
TargetRestarts ==
    /\ Outage
    /\ LET lost == {i \in Invocation : row[i] = "running"}
       IN  /\ row' = [i \in Invocation |-> IF i \in lost THEN "outcome_unknown" ELSE row[i]]
           /\ log' = [i \in Invocation |-> IF i \in lost THEN Append(log[i], "unknown")
                                                         ELSE log[i]]
    /\ work' = [i \in Invocation |-> "none"]
    /\ post' = [i \in Invocation |-> [t \in Transport |->
          IF post[i][t].at = "held" THEN [Unsent EXCEPT !.at = "refused"] ELSE post[i][t]]]
    /\ free' = MaxConcurrency
    /\ stops' = {}
    /\ UNCHANGED <<caller, cooling, shared, called, torn>>

\* The deployment is no longer shared, or its material has changed, or is as it was.
Reconfigure ==
    /\ Outage
    /\ shared' = ~shared
    /\ UNCHANGED <<caller, cooling, post, row, log, work, free, stops, called, torn>>

-----------------------------------------------------------------------------

Calling(i) == IsRefused(i) \/ TimesOut(i) \/ Receive(i)
Executing(i) ==
    \/ Acquire(i) \/ StreamEnds(i) \/ StreamFails(i)
    \/ \E chunk \in {"part", "stop", "failed"} : Emit(i, chunk)

InvocationNext(i) ==
    \/ Calling(i) \/ RelayBreaks(i) \/ CallerIsCancelled(i)
    \/ Executing(i) \/ Cancel(i) \/ StoreFails(i)
    \/ \E t \in Transport : Begin(i, t) \/ Invoke(i, t) \/ Answer(i, t)

RemoteNext ==
    \/ \E i \in Invocation : InvocationNext(i)
    \/ CooledDown
    \/ TargetRestarts
    \/ Reconfigure

\* A direct or P2P request has a timeout, and so has the stream of a provider; a Relay that
\* does not break delivers.
RemoteFairness ==
    \A i \in Invocation :
        /\ WF_rvars(Calling(i)) /\ WF_rvars(Executing(i))
        /\ WF_rvars(Invoke(i, "relay")) /\ WF_rvars(Answer(i, "relay"))

RemoteSpec == RemoteInit /\ [][RemoteNext]_rvars /\ RemoteFairness

-----------------------------------------------------------------------------

\* docs/knoa-workspace-resource-fabric-design.md: the same invocation is not executed twice
\* when the transport changes; nor by a request that arrives late or after a restart.
CalledOnce == \A i \in Invocation : called[i] <= 1

\* append() and the pass at start-up: exactly the rows that no longer run have a terminal
\* chunk, one, at the end.
LogSound ==
    \A i \in Invocation :
        /\ row[i] \in {"none", "running"} <=> Range(log[i]) \subseteq {"part"}
        /\ log[i] # <<>> => Range(Front(log[i])) \subseteq {"part"}

\* invoke(): what the caller yields is the whole record of the one execution, with its end,
\* whichever request it came by; or what there is, if the end could not be written.
RecordIsTold ==
    \A i \in Invocation :
        caller[i].got # <<>> =>
            /\ IsPrefix(caller[i].got, log[i])
            /\ (i \in torn \/ (caller[i].got = log[i] /\ Last(log[i]) \in Final))

RemoteSound == CalledOnce /\ LogSound /\ RecordIsTold

Unsettled(i) == caller[i].pc \in Transport \/ (row[i] = "running" /\ i \notin torn)

\* _execute() and _stream(): an invocation that was admitted gets its end, unless it could not
\* be written, whatever others hold, and its caller stops waiting.
InvocationSettles == \A i \in Invocation : Unsettled(i) ~> ~Unsettled(i)

=============================================================================
