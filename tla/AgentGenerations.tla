--------------------------- MODULE AgentGenerations ---------------------------
(***************************************************************************)
(* Turns of Agents while the configuration changes: AgentExecutionService  *)
(* leases a generation of an Agent for a turn, AgentManager replaces the   *)
(* generations and drains the old ones.                                    *)
(*                                                                         *)
(* A turn prepares and waits for a place in its generation while it holds  *)
(* `_generation_barrier`, and waits for one before to create the session   *)
(* it runs in; a new configuration is put in force under the same barrier, *)
(* also when a tool of a running turn publishes it.  A running turn can    *)
(* wait for another: a review of its tool call, or a Child it has          *)
(* delegated to.                                                           *)
(*                                                                         *)
(* A generation stands for the configuration digest of its Agent: none     *)
(* returns to an earlier one.                                              *)
(***************************************************************************)
EXTENDS Integers, Sequences, SequencesExt

CONSTANTS
    Turn,        \* the turns of users, each of a session of its own
    Places,      \* max_concurrency of a generation
    MaxApplies   \* bound: configurations that are put in force

ASSUME GenerationAssumption ==
    Places \in Nat \ {0} /\ MaxApplies \in Nat

\* One Agent of every visibility: for turns of users, for Children, and for the review of tool
\* calls, which calls no tool itself.
Agent == {"user", "delegate", "system"}
AgentFor == [child |-> "delegate", review |-> "system"]

\* A turn of a user and the turn that it may wait for.
Own(t) == <<t, "own">>
Helper(t) == <<t, "helper">>
Helpers == {Helper(t) : t \in Turn}
Job == {Own(t) : t \in Turn} \cup Helpers

\* A generation is built for the revision that changes its Agent.
Revision == 0..MaxApplies
Absent == -1
Operator == "operator"
Applier == <<"apply", "apply">>

VARIABLES
    barrier,  \* _generation_barrier: who waits for it, the first one has it
    job,      \* execute_turn() of every turn
    wait,     \* what the turn of a user waits for, in a call of a tool
    gen,      \* _Generation and its runtime, by Agent and revision
    managed,  \* AgentManager._agents
    applier,  \* whose publish() is being applied
    current,  \* the configuration in force
    removed   \* Agents that a configuration has removed

avars == <<barrier, job, wait, gen, managed, applier, current, removed>>

JobPc == {"idle", "queued", "binding", "joining", "creating", "seeking", "waiting", "leased",
          "running", "cleaning", "deleting", "erasing", "over"}
Waits == {"never", "nothing", "review", "child", "publish", "applying", "done"}

GenerationTypeOK ==
    /\ barrier \in Seq(Job \cup {Applier})
    /\ job \in [Job -> [pc : JobPc, agent : Agent, policy : Revision \cup {Absent},
                        gen : Revision \cup {Absent}]]
    /\ wait \in [Turn -> Waits]
    /\ gen \in [Agent \X Revision ->
                   [accepting : BOOLEAN, places : Seq(Job),
                    drain : {"none", "asked", "draining", "drained"}]]
    /\ managed \in [Agent -> [active : Revision \cup {Absent}, draining : Revision \cup {Absent}]]
    /\ applier \in Turn \cup {Operator, "nobody"}
    /\ current \in Revision
    /\ removed \subseteq Agent

NoJob == [pc |-> "idle", agent |-> "user", policy |-> Absent, gen |-> Absent]
JobOver == [NoJob EXCEPT !.pc = "over"]

GenerationInit ==
    /\ barrier = <<>>
    /\ job = [j \in Job |-> NoJob]
    /\ wait = [t \in Turn |-> "never"]
    /\ gen = [g \in Agent \X Revision |->
                 [accepting |-> TRUE, places |-> <<>>, drain |-> "none"]]
    /\ managed = [a \in Agent |-> [active |-> 0, draining |-> Absent]]
    /\ applier = "nobody"
    /\ current = 0
    /\ removed = {}

JobAt(j, pc) == job[j].pc = pc
GenOf(j) == <<job[j].agent, job[j].gen>>

HoldsBarrier(x) == barrier # <<>> /\ Head(barrier) = x

\* Nobody is in a queue twice.
Leave(queue, x) ==
    IF \E i \in 1..Len(queue) : queue[i] = x
    THEN RemoveAt(queue, CHOOSE i \in 1..Len(queue) : queue[i] = x) ELSE queue

\* asyncio.Semaphore: the first ones have a place.
HasPlace(j) == \E i \in 1..Places : i <= Len(gen[GenOf(j)].places)
                                     /\ gen[GenOf(j)].places[i] = j
PlacesLeft(j) == [gen EXCEPT ![GenOf(j)].places = Leave(@, j)]

\* active_leases: a waiting turn that has got a place has not yet taken it.
Leasing == {"creating", "leased", "running", "erasing"}
Leases(g) == {j \in Job : job[j].pc \in Leasing /\ GenOf(j) = g}

-----------------------------------------------------------------------------
(* AgentExecutionService._execute_turn_locked() *)

Queue(j, agent, policy) ==
    /\ job' = [job EXCEPT ![j] = [pc |-> "queued", agent |-> agent, policy |-> policy,
                                  gen |-> Absent]]
    /\ barrier' = Append(barrier, j)

UserTurn(t) ==
    /\ JobAt(Own(t), "idle")
    /\ Queue(Own(t), "user", Absent)
    /\ UNCHANGED <<wait, gen, managed, applier, current, removed>>

\* A Child has the policy that was resolved when it was delegated to.
Prepared(j) ==
    LET active == managed[job[j].agent].active
    IN  active # Absent /\ job[j].policy \in {Absent, active}

\* _ensure_binding(): the session of a helping turn is new; that of a user may be bound.
AfterPolicy(j) == {"binding"} \cup (IF j \in Helpers THEN {} ELSE {"seeking"})

\* _prepare_execution(): the Agent has to be there, as it was for a Child.
Prepare(j) ==
    /\ JobAt(j, "queued") /\ HoldsBarrier(j)
    /\ IF Prepared(j)
       THEN /\ \E next \in AfterPolicy(j) :
                  job' = [job EXCEPT ![j].pc = next, ![j].policy = managed[job[j].agent].active]
            /\ UNCHANGED barrier
       ELSE /\ job' = [job EXCEPT ![j] = JobOver]
            /\ barrier' = Leave(barrier, j)
    /\ UNCHANGED <<wait, gen, managed, applier, current, removed>>

\* Mutation: the barrier is released before the generation is leased.
KeepsBarrier_Not(j) == Leave(barrier, j)

\* What is left of the barrier while a turn waits for a place.
KeepsBarrier(j) == barrier

\* A generation is leased to create a session, to run the turn and to delete the session: who
\* asks for a place, waits for it and has it.
WaitsFor == [binding |-> "joining", seeking |-> "waiting", cleaning |-> "deleting"]
Gets == [joining |-> "creating", waiting |-> "leased", deleting |-> "erasing"]
AsksAgain == [joining |-> "binding", waiting |-> "seeking", deleting |-> "cleaning"]

\* _lease_resolved(): the generation that is active now, and a place in it.
SeekPlace(j) ==
    /\ job[j].pc \in DOMAIN WaitsFor
    /\ LET g == <<job[j].agent, managed[job[j].agent].active>>
       IN  /\ g[2] # Absent
           /\ gen' = [gen EXCEPT ![g].places = Append(@, j)]
           /\ job' = [job EXCEPT ![j].gen = g[2], ![j].pc = WaitsFor[@]]
    /\ barrier' = KeepsBarrier(j)
    /\ UNCHANGED <<wait, managed, applier, current, removed>>

\* The Agent of a session that is to be deleted is gone.
SeekFails(j) ==
    /\ JobAt(j, "cleaning") /\ managed[job[j].agent].active = Absent
    /\ job' = [job EXCEPT ![j] = JobOver]
    /\ UNCHANGED <<barrier, wait, gen, managed, applier, current, removed>>

\* Mutation: a generation is leased though it has been replaced meanwhile.
StillActive_Assumed(j) == TRUE

StillActive(j) == managed[job[j].agent].active = job[j].gen /\ gen[GenOf(j)].accepting

\* Only who creates a session keeps the barrier.
TakePlace(j) ==
    /\ job[j].pc \in DOMAIN Gets /\ HasPlace(j)
    /\ IF StillActive(j)
       THEN /\ job' = [job EXCEPT ![j].pc = Gets[@]]
            /\ barrier' = IF JobAt(j, "joining") THEN barrier ELSE Leave(barrier, j)
            /\ UNCHANGED gen
       ELSE /\ job' = [job EXCEPT ![j].gen = Absent, ![j].pc = AsksAgain[@]]
            /\ gen' = PlacesLeft(j)
            /\ UNCHANGED barrier
    /\ UNCHANGED <<wait, managed, applier, current, removed>>

\* create_session(): its generation is given back and leased anew.
SessionCreated(j) ==
    /\ JobAt(j, "creating")
    /\ job' = [job EXCEPT ![j].gen = Absent, ![j].pc = "seeking"]
    /\ gen' = PlacesLeft(j)
    /\ UNCHANGED <<barrier, wait, managed, applier, current, removed>>

\* A review deletes its session when its turn is over.
AfterTurn(j) ==
    IF \E t \in Turn : j = Helper(t) /\ wait[t] = "review"
    THEN [job[j] EXCEPT !.pc = "cleaning", !.gen = Absent] ELSE JobOver

\* start_turn(): "agent_unavailable" once the runtime drains.
StartTurn(j) ==
    /\ JobAt(j, "leased")
    /\ IF gen[GenOf(j)].drain \in {"none", "asked"}
       THEN /\ job' = [job EXCEPT ![j].pc = "running"]
            /\ UNCHANGED gen
       ELSE /\ job' = [job EXCEPT ![j] = AfterTurn(j)]
            /\ gen' = PlacesLeft(j)
    /\ UNCHANGED <<barrier, wait, managed, applier, current, removed>>

Free(j) == \A t \in Turn : j = Own(t) => wait[t] \in {"never", "nothing", "done"}

\* The turn ends, or its deadline or a cancellation interrupts it.
TurnOver(j) ==
    /\ JobAt(j, "running") /\ Free(j)
    /\ job' = [job EXCEPT ![j] = AfterTurn(j)]
    /\ gen' = PlacesLeft(j)
    /\ UNCHANGED <<barrier, wait, managed, applier, current, removed>>

SessionDeleted(j) ==
    /\ JobAt(j, "erasing")
    /\ job' = [job EXCEPT ![j] = JobOver]
    /\ gen' = PlacesLeft(j)
    /\ UNCHANGED <<barrier, wait, managed, applier, current, removed>>

-----------------------------------------------------------------------------
(* What a running turn waits for *)

\* KnoaReviewerAgent.review() and DelegationService.spawn(), which resolves the policy.
Ask(t, what) ==
    /\ JobAt(Own(t), "running") /\ wait[t] = "never"
    /\ wait' = [wait EXCEPT ![t] = what]
    /\ what = "child" => managed["delegate"].active # Absent
    /\ Queue(Helper(t), AgentFor[what],
             IF what = "child" THEN managed["delegate"].active ELSE Absent)
    /\ UNCHANGED <<gen, managed, applier, current, removed>>

HelpArrived(t) ==
    /\ wait[t] \in {"review", "child"} /\ JobAt(Helper(t), "over")
    /\ wait' = [wait EXCEPT ![t] = "done"]
    /\ UNCHANGED <<barrier, job, gen, managed, applier, current, removed>>

\* A review that is cut off while its session is created may have to delete it.
AfterCut(j) ==
    CASE job[j].pc \in {"queued", "binding", "joining"} -> {JobOver}
      [] JobAt(j, "creating") -> {JobOver, AfterTurn(j)}
      [] OTHER -> {AfterTurn(j)}

\* wait_for() cancels the review wherever it is, and waits until it has cleaned up.
ReviewCut(t) ==
    LET j == Helper(t)
    IN  /\ wait[t] = "review"
        /\ job[j].pc \notin {"idle", "cleaning", "deleting", "erasing", "over"}
        /\ barrier' = Leave(barrier, j)
        /\ gen' = IF job[j].gen = Absent THEN gen ELSE PlacesLeft(j)
        /\ \E after \in AfterCut(j) : job' = [job EXCEPT ![j] = after]
        /\ UNCHANGED <<wait, managed, applier, current, removed>>

\* The deadline of the parent: SubagentTool stops to wait and cancels the Child, which sees it
\* when it runs.
AwaitCut(t) ==
    /\ wait[t] = "child"
    /\ wait' = [wait EXCEPT ![t] = "done"]
    /\ UNCHANGED <<barrier, job, gen, managed, applier, current, removed>>

-----------------------------------------------------------------------------
(* apply_configuration() and AgentManager.replace_generations() *)

\* ConfigurationTool: the turn waits for publish(), which no deadline ends.
AskPublish(t) ==
    /\ JobAt(Own(t), "running") /\ wait[t] = "never"
    /\ wait' = [wait EXCEPT ![t] = "publish"]
    /\ UNCHANGED <<barrier, job, gen, managed, applier, current, removed>>

Apply(by) ==
    /\ applier = "nobody" /\ current < MaxApplies
    /\ applier' = by
    /\ barrier' = Append(barrier, Applier)
    /\ wait' = IF by = Operator THEN wait ELSE [wait EXCEPT ![by] = "applying"]
    /\ UNCHANGED <<job, gen, managed, current, removed>>

\* A publish beyond the bound comes to nothing.
PublishRefused(t) ==
    /\ wait[t] = "publish" /\ current = MaxApplies /\ applier = "nobody"
    /\ wait' = [wait EXCEPT ![t] = "done"]
    /\ UNCHANGED <<barrier, job, gen, managed, applier, current, removed>>

AppliedTo(by) == IF by = Operator THEN wait ELSE [wait EXCEPT ![by] = "done"]

\* Mutation: the generation that drains may still be in use.
StillDraining_Ignored(a) == FALSE

StillDraining(a) ==
    managed[a].draining # Absent /\ Leases(<<a, managed[a].draining>>) # {}

\* What a configuration does to the Agents; the one of the user is the default.
Change ==
    {c \in [Agent -> {"keep", "new", "drop"}] :
        /\ c["user"] # "drop"
        /\ \A a \in Agent : c[a] = "drop" => managed[a].active # Absent}

\* No candidate is healthy, or an Agent still drains.
ApplyFails ==
    /\ barrier' = Tail(barrier)
    /\ wait' = AppliedTo(applier)
    /\ applier' = "nobody"
    /\ current' = current + 1
    /\ UNCHANGED <<job, gen, managed, removed>>

Replace(change) ==
    LET r == current + 1
        replaced == {a \in Agent : change[a] # "keep" /\ managed[a].active # Absent}
    IN  /\ \A a \in Agent : change[a] = "new" => ~StillDraining(a)
        /\ managed' = [a \in Agent |->
               CASE change[a] = "keep" -> managed[a]
                 [] change[a] = "new" -> [active |-> r, draining |-> managed[a].active]
                 [] OTHER -> [active |-> Absent, draining |-> Absent]]
        /\ gen' = [g \in Agent \X Revision |->
               IF g[1] \in replaced /\ g[2] = managed[g[1]].active
               THEN [gen[g] EXCEPT !.accepting = FALSE, !.drain = "asked"] ELSE gen[g]]
        /\ removed' = removed \cup {a \in Agent : change[a] = "drop"}
        /\ current' = r
        /\ barrier' = Tail(barrier)
        /\ wait' = AppliedTo(applier)
        /\ applier' = "nobody"
        /\ UNCHANGED job

\* _drain_generation(): runtime.drain() refuses new turns ...
DrainBegins(g) ==
    /\ gen[g].drain = "asked"
    /\ gen' = [gen EXCEPT ![g].drain = "draining"]
    /\ UNCHANGED <<barrier, job, wait, managed, applier, current, removed>>

\* ... and when the last lease is given back the generation is forgotten.
DrainEnds(g) ==
    /\ gen[g].drain = "draining" /\ Leases(g) = {}
    /\ gen' = [gen EXCEPT ![g].drain = "drained"]
    /\ managed' = [managed EXCEPT ![g[1]].draining = IF @ = g[2] THEN Absent ELSE @]
    /\ UNCHANGED <<barrier, job, wait, applier, current, removed>>

-----------------------------------------------------------------------------
JobStep(j) ==
    Prepare(j) \/ SeekPlace(j) \/ SeekFails(j) \/ TakePlace(j) \/ SessionCreated(j) \/ StartTurn(j)
    \/ TurnOver(j) \/ SessionDeleted(j)

WaitStep(t) == HelpArrived(t) \/ ReviewCut(t) \/ AwaitCut(t) \/ PublishRefused(t)
Publishing(t) == wait[t] = "publish" /\ Apply(t)
Replacing(changes) ==
    /\ applier # "nobody" /\ HoldsBarrier(Applier)
    /\ ApplyFails \/ \E change \in changes : Replace(change)
Draining(g) == DrainBegins(g) \/ DrainEnds(g)

GenerationNext ==
    \/ \E j \in Job : JobStep(j)
    \/ \E t \in Turn :
          \/ WaitStep(t) \/ AskPublish(t) \/ Publishing(t)
          \/ UserTurn(t)
          \/ \E what \in {"review", "child"} : Ask(t, what)
    \/ Apply(Operator) \/ Replacing(Change)
    \/ \E g \in Agent \X Revision : Draining(g)

\* Coroutines go on and deadlines pass; nobody has to start a turn, to ask or to publish.
Progress ==
    \/ \E j \in Job : JobStep(j)
    \/ \E t \in Turn : WaitStep(t) \/ Publishing(t)
    \/ Replacing(Change)
    \/ \E g \in Agent \X Revision : Draining(g)

GenerationFairness == WF_avars(Progress)

GenerationSpec == GenerationInit /\ [][GenerationNext]_avars /\ GenerationFairness

-----------------------------------------------------------------------------
(* Properties *)

\* _generation_barrier: a turn runs, in a session that was created, on the generation of the
\* very configuration that gave it its policy, and a Child on the one its parent delegated to,
\* whatever is applied meanwhile.
PolicyOfGeneration ==
    \A j \in Job : job[j].pc \in {"creating", "leased", "running"} => job[j].gen = job[j].policy

\* replace_generations(): an Agent has one active generation and at most one that drains, unless
\* it was removed and came back.
TwoGenerations ==
    \A a \in Agent \ removed :
        \A r \in Revision :
            Leases(<<a, r>>) # {} => r \in {managed[a].active, managed[a].draining}

\* _drain_generation(): what has drained is never used again.
DrainedIsIdle == \A g \in Agent \X Revision : gen[g].drain = "drained" => Leases(g) = {}

GenerationsSound == PolicyOfGeneration /\ TwoGenerations /\ DrainedIsIdle

\* A turn has the barrier and waits for a place, and the turns in the places wait for the
\* barrier, to publish.
Gridlock ==
    \E j \in Job :
        /\ job[j].pc \in {"joining", "waiting"} /\ HoldsBarrier(j) /\ ~HasPlace(j)
        /\ \E t \in Turn : wait[t] \in {"publish", "applying"} /\ GenOf(Own(t)) = GenOf(j)

\* execute_turn(): every turn comes to its turn and to its end, though turns wait for turns while
\* one has the barrier, because the waits have deadlines; publish() has none.
TurnsServed == []<>((\A j \in Job : job[j].pc \in {"idle", "over"}) \/ Gridlock)

=============================================================================
