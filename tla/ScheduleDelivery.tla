-------------------------- MODULE ScheduleDelivery --------------------------
(***************************************************************************)
(* A schedule of knoa_platform/automation, its occurrences, and their      *)
(* delivery into the executions of a product Task.                         *)
(*                                                                         *)
(* ScheduleRepository and the Task repository are two sets of tables; the  *)
(* dispatcher claims an occurrence in one, creates and links a runtime     *)
(* Task in the other and marks the occurrence in the first again, with a   *)
(* commit and an await at each of these points.  A client may start the    *)
(* same product Task by hand meanwhile.                                    *)
(***************************************************************************)
EXTENDS Integers, FiniteSets

CONSTANTS
    RunAt,               \* spec.run_at: the anchor of the recurrence
    Intervals,           \* the choices of spec.interval_seconds; 0 for a one-time schedule
    MaxDeliveryAttempts, \* max_delivery_attempts
    MaxTime,             \* bound: the clock stops here
    MaxFires,            \* bound: occurrences of the schedule
    MaxCrashes           \* bound: how often Core dies

ASSUME DeliveryAssumption ==
    /\ RunAt \in Nat
    /\ Intervals \subseteq Nat
    /\ MaxDeliveryAttempts \in Nat \ {0}
    /\ MaxTime \in Nat
    /\ MaxFires \in Nat
    /\ MaxCrashes \in Nat

VARIABLES
    now,      \* the clock
    schedule, \* the row of runtime_schedules
    occ,      \* runtime_schedule_occurrences by ordinal
    run,      \* the runtime Task of each request: how far it is, as a retry sees it
    linked,   \* the requests whose runtime Task has a row in task_executions
    call,     \* where the dispatcher and the client are in execute_definition()
    crashes   \* how often Core has died

dvars == <<now, schedule, occ, run, linked, call, crashes>>

Never == -1
Fire == 1..MaxFires

\* The client_request_ids: of the occurrences, and of a start by hand.
Manual == 0
Request == {Manual} \cup Fire
Caller == {"dispatcher", "client"}

ScheduleState == {"absent", "active", "paused", "completed", "deleted"}
OccurrenceState == {"none", "claimed", "retry_wait", "task_created", "dead"}

\* lease_expires_at of a claimed occurrence, next_attempt_at of a waiting one.
Timer == {"none", "running", "elapsed"}

\* fresh and done: unfinished and finished in the phase it was created with;
\* moved and stopped: the same in another phase.
RunState == {"absent", "fresh", "moved", "done", "stopped"}
CallPc == {"idle", "reading", "checking", "creating", "linking", "marking", "failing"}

DeliveryTypeOK ==
    /\ now \in 0..MaxTime
    /\ schedule \in [state : ScheduleState, interval : Intervals \cup {0}, next : Int,
                     last : Int, fires : 0..MaxFires]
    /\ occ \in [Fire -> [state : OccurrenceState, due : Int, attempts : Nat, timer : Timer]]
    /\ run \in [Request -> RunState]
    /\ linked \subseteq Request
    /\ call \in [Caller -> [pc : CallPc, request : Request]]
    /\ crashes \in 0..MaxCrashes

NoOccurrence == [state |-> "none", due |-> Never, attempts |-> 0, timer |-> "none"]
Idle == [pc |-> "idle", request |-> Manual]

DeliveryInit ==
    /\ now = 0
    /\ schedule = [state |-> "absent", interval |-> 0, next |-> Never, last |-> Never,
                   fires |-> 0]
    /\ occ = [o \in Fire |-> NoOccurrence]
    /\ run = [r \in Request |-> "absent"]
    /\ linked = {}
    /\ call = [c \in Caller |-> Idle]
    /\ crashes = 0

-----------------------------------------------------------------------------
(* recurrence.next_fire_at *)

\* Mutation: an instant that is just passing is returned again.
NextFireAt_NotAfter(interval, after) ==
    IF RunAt > after THEN RunAt
    ELSE IF interval = 0 THEN Never
    ELSE RunAt + ((after - RunAt) \div interval) * interval

NextFireAt(interval, after) ==
    IF RunAt > after THEN RunAt
    ELSE IF interval = 0 THEN Never
    ELSE RunAt + ((after - RunAt) \div interval + 1) * interval

-----------------------------------------------------------------------------
(* ScheduleRepository *)

\* What the schedule does after a claim or a resume: missed instants are skipped,
\* and a one-time schedule whose instant has passed is over.
Following == NextFireAt(schedule.interval, now)
FollowingState == IF Following = Never THEN "completed" ELSE "active"

CreateSchedule(interval) ==
    /\ schedule.state = "absent"
    /\ NextFireAt(interval, now) # Never
    /\ schedule' = [schedule EXCEPT !.state = "active", !.interval = interval,
                                    !.next = NextFireAt(interval, now)]
    /\ UNCHANGED <<now, occ, run, linked, call, crashes>>

PauseSchedule ==
    /\ schedule.state = "active"
    /\ schedule' = [schedule EXCEPT !.state = "paused"]
    /\ UNCHANGED <<now, occ, run, linked, call, crashes>>

ResumeSchedule ==
    /\ schedule.state = "paused"
    /\ schedule' = [schedule EXCEPT !.state = FollowingState, !.next = Following]
    /\ UNCHANGED <<now, occ, run, linked, call, crashes>>

\* delete(): the occurrences go with it (ON DELETE CASCADE).
DeleteSchedule ==
    /\ schedule.state \in {"active", "paused", "completed"}
    /\ schedule' = [schedule EXCEPT !.state = "deleted"]
    /\ occ' = [o \in Fire |-> NoOccurrence]
    /\ UNCHANGED <<now, run, linked, call, crashes>>

\* Mutation: a claim whose worker died is not taken over.
DueOccurrences_RetriesOnly ==
    {o \in Fire : occ[o].state = "retry_wait" /\ occ[o].timer = "elapsed"}

DueOccurrences ==
    {o \in Fire : occ[o].state \in {"retry_wait", "claimed"} /\ occ[o].timer = "elapsed"}

\* ORDER BY scheduled_for
FirstDue(o) == o \in DueOccurrences /\ \A p \in DueOccurrences : occ[o].due <= occ[p].due

Exhausted(o) == occ[o].attempts >= MaxDeliveryAttempts

\* claim_due(): an expired claim that used up its attempts is given up ...
GiveUp(o) ==
    /\ call["dispatcher"].pc = "idle"
    /\ FirstDue(o) /\ occ[o].state = "claimed" /\ Exhausted(o)
    /\ occ' = [occ EXCEPT ![o].state = "dead", ![o].timer = "none"]
    /\ UNCHANGED <<now, schedule, run, linked, call, crashes>>

Delivering(o) == [call EXCEPT !["dispatcher"] = [pc |-> "reading", request |-> o]]

\* ... any other due occurrence is claimed again ...
ClaimAgain(o) ==
    /\ call["dispatcher"].pc = "idle"
    /\ FirstDue(o) /\ ~(occ[o].state = "claimed" /\ Exhausted(o))
    /\ occ' = [occ EXCEPT ![o].state = "claimed", ![o].timer = "running",
                          ![o].attempts = @ + 1]
    /\ call' = Delivering(o)
    /\ UNCHANGED <<now, schedule, run, linked, crashes>>

NextOrdinal == schedule.fires + 1

\* Mutation: an occurrence is dated by its claim.
ScheduledFor_Claim == now

\* An occurrence is dated by the instant it stands for, however late its claim.
ScheduledFor == schedule.next

\* ... and only if none is due, the schedule fires: once, however late it is.
ClaimNew ==
    /\ call["dispatcher"].pc = "idle"
    /\ DueOccurrences = {}
    /\ schedule.state = "active" /\ schedule.next <= now
    /\ NextOrdinal \in Fire
    /\ schedule' = [schedule EXCEPT !.state = FollowingState, !.next = Following,
                                    !.last = schedule.next, !.fires = NextOrdinal]
    /\ occ' = [occ EXCEPT ![NextOrdinal] =
                  [state |-> "claimed", due |-> ScheduledFor, attempts |-> 1,
                   timer |-> "running"]]
    /\ call' = Delivering(NextOrdinal)
    /\ UNCHANGED <<now, run, linked, crashes>>

-----------------------------------------------------------------------------
(* TaskService.execute_definition, called by the dispatcher and by a client *)

At(c, pc) == call[c].pc = pc
Goto(c, pc) == call' = [call EXCEPT ![c].pc = pc]

\* An exception ends a client's call; the dispatcher records it.
Fails(c) == IF c = "dispatcher" THEN Goto(c, "failing") ELSE call' = [call EXCEPT ![c] = Idle]

Unfinished(r) == run[r] \in {"fresh", "moved"}

\* A client starts the product Task by hand.
StartByHand ==
    /\ At("client", "idle") /\ run[Manual] = "absent"
    /\ call' = [call EXCEPT !["client"] = [pc |-> "checking", request |-> Manual]]
    /\ UNCHANGED <<now, schedule, occ, run, linked, crashes>>

\* dispatch_once() reads the schedule first.
ReadSchedule ==
    /\ At("dispatcher", "reading")
    /\ IF schedule.state = "deleted" THEN Fails("dispatcher") ELSE Goto("dispatcher", "checking")
    /\ UNCHANGED <<now, schedule, occ, run, linked, crashes>>

\* Binding, definition and preflight may refuse; then the linked executions are read.
CheckActive(c, ready) ==
    /\ At(c, "checking")
    /\ IF ~ready \/ \E r \in linked : Unfinished(r)
       THEN Fails(c)
       ELSE Goto(c, "creating")
    /\ UNCHANGED <<now, schedule, occ, run, linked, crashes>>

\* TaskService.create(): a stored Task whose phase has changed is a conflict,
\* and a new one may exceed the capacity.
CreateRun(c, room) ==
    LET r == call[c].request IN
    /\ At(c, "creating")
    /\ IF run[r] = "absent"
       THEN IF room
            THEN run' = [run EXCEPT ![r] = "fresh"] /\ Goto(c, "linking")
            ELSE run' = run /\ Fails(c)
       ELSE /\ run' = run
            /\ IF run[r] \in {"fresh", "done"} THEN Goto(c, "linking") ELSE Fails(c)
    /\ UNCHANGED <<now, schedule, occ, linked, crashes>>

AfterLink(c) == IF c = "dispatcher" THEN [call[c] EXCEPT !.pc = "marking"] ELSE Idle

\* link_task_execution()
LinkRun(c) ==
    /\ At(c, "linking")
    /\ linked' = linked \cup {call[c].request}
    /\ call' = [call EXCEPT ![c] = AfterLink(c)]
    /\ UNCHANGED <<now, schedule, occ, run, crashes>>

Current == call["dispatcher"].request
Released == [call EXCEPT !["dispatcher"] = Idle]

\* mark_task_created(); a deleted occurrence raises.
MarkTaskCreated ==
    /\ At("dispatcher", "marking")
    /\ IF occ[Current].state \in {"claimed", "task_created"}
       THEN /\ occ' = [occ EXCEPT ![Current].state = "task_created",
                                  ![Current].timer = "none"]
            /\ call' = Released
       ELSE occ' = occ /\ Fails("dispatcher")
    /\ UNCHANGED <<now, schedule, run, linked, crashes>>

\* Mutation: the state is given a name nobody reads.
FailedState_Unknown(o) == IF Exhausted(o) THEN "dead" ELSE "failed"

FailedState(o) == IF Exhausted(o) THEN "dead" ELSE "retry_wait"

\* mark_delivery_failed(); its own failure is only logged.
MarkDeliveryFailed(recorded) ==
    /\ At("dispatcher", "failing")
    /\ IF recorded /\ occ[Current].state = "claimed"
       THEN occ' = [occ EXCEPT ![Current].state = FailedState(Current),
                      ![Current].timer = IF Exhausted(Current) THEN "none" ELSE "running"]
       ELSE occ' = occ
    /\ call' = Released
    /\ UNCHANGED <<now, schedule, run, linked, crashes>>

-----------------------------------------------------------------------------
(* Environment *)

Tick ==
    /\ now < MaxTime
    /\ now' = now + 1
    /\ UNCHANGED <<schedule, occ, run, linked, call, crashes>>

\* A lease or a backoff runs out.
TimerElapses(o) ==
    /\ occ[o].timer = "running"
    /\ occ' = [occ EXCEPT ![o].timer = "elapsed"]
    /\ UNCHANGED <<now, schedule, run, linked, call, crashes>>

\* The runtime Task is paused or recovered, resumed, or ends (DurableTask).
RunMoves(r, to) ==
    /\ <<run[r], to>> \in {<<"fresh", "moved">>, <<"moved", "fresh">>,
                           <<"fresh", "done">>, <<"moved", "stopped">>}
    /\ run' = [run EXCEPT ![r] = to]
    /\ UNCHANGED <<now, schedule, occ, linked, call, crashes>>

\* Core dies and is started again: both calls are lost where they are.
Crash ==
    /\ crashes < MaxCrashes
    /\ crashes' = crashes + 1
    /\ call' = [c \in Caller |-> Idle]
    /\ UNCHANGED <<now, schedule, occ, run, linked>>

Command ==
    \/ \E interval \in Intervals : CreateSchedule(interval)
    \/ PauseSchedule
    \/ ResumeSchedule
    \/ DeleteSchedule
    \/ StartByHand

Claim == ClaimNew \/ \E o \in Fire : GiveUp(o) \/ ClaimAgain(o)

Launch(c) ==
    \/ \E ready \in BOOLEAN : CheckActive(c, ready)
    \/ \E room \in BOOLEAN : CreateRun(c, room)
    \/ LinkRun(c)

Dispatch ==
    \/ Claim
    \/ ReadSchedule
    \/ Launch("dispatcher")
    \/ MarkTaskCreated
    \/ \E recorded \in BOOLEAN : MarkDeliveryFailed(recorded)

DeliveryNext ==
    \/ Command
    \/ Dispatch
    \/ Launch("client")
    \/ Tick
    \/ \E o \in Fire : TimerElapses(o)
    \/ \E r \in Request, to \in RunState : RunMoves(r, to)
    \/ Crash

\* The dispatcher loop goes on while Core is up (it waits at most for the
\* reconciliation interval), and leases and backoffs are finite.
DeliveryFairness ==
    /\ WF_dvars(Dispatch)
    /\ \A o \in Fire : WF_dvars(TimerElapses(o))

DeliverySpec == DeliveryInit /\ [][DeliveryNext]_dvars /\ DeliveryFairness

-----------------------------------------------------------------------------
(* Correctness properties *)

\* The instants of the recurrence, from its definition: the anchor and
\* whole intervals after it.
Instants(interval) == {RunAt + k * interval : k \in 0..(MaxTime + 1)}

\* Whenever a schedule is given a next fire time, by its creation, a claim or a
\* resume, it is the first instant of the recurrence that is still to come:
\* nothing fires twice, drifts, or catches up after downtime.
FiresOnSchedule ==
    [][(schedule'.next # schedule.next /\ schedule'.next # Never) =>
          /\ schedule'.next \in Instants(schedule'.interval)
          /\ schedule'.next > now
          /\ \A x \in Instants(schedule'.interval) : x > now => schedule'.next <= x]_dvars

\* Delivery is bounded: failures, lost failure records and crashes together
\* never claim an occurrence more often than max_delivery_attempts.
AttemptsBounded == \A o \in Fire : occ[o].attempts <= MaxDeliveryAttempts

\* An occurrence that says task_created has its runtime Task, and that Task is
\* listed as an execution of the product Task.
MarkedIsLinked ==
    \A o \in Fire : occ[o].state = "task_created" => run[o] # "absent" /\ o \in linked

\* Occurrences and schedule account for each other: the rows are exactly the
\* ordinals up to fire_count, each for a later instant than the one before and
\* none before its time, and the newest is the one last_fire_at names; and what a
\* row says of its own delivery is true.
OccurrencesAccounted ==
    /\ schedule.state # "deleted" =>
        /\ \A o \in Fire : occ[o].state # "none" <=> o <= schedule.fires
        /\ \A o \in Fire : o <= schedule.fires =>
              /\ occ[o].due \in Instants(schedule.interval) /\ occ[o].due <= now
              /\ \A p \in Fire : p < o => occ[p].due < occ[o].due
        /\ schedule.fires > 0 => schedule.last = occ[schedule.fires].due
    /\ AttemptsBounded
    /\ MarkedIsLinked

\* A product Task has at most one unfinished execution.
SingleActive == Cardinality({r \in linked : Unfinished(r)}) <= 1

\* No occurrence is left behind: in the end each one is delivered, given up, or deleted
\* with its schedule, and stays so.
OccurrenceSettles ==
    <>[](\A o \in Fire : occ[o].state \in {"task_created", "dead", "none"})

\* claim_due(): whoever dies with an occurrence in hand, whatever record is lost, one that is
\* neither delivered nor given up is due, or its lease or its backoff runs.
OccurrenceIsAttended ==
    \A o \in Fire : occ[o].state \notin {"task_created", "dead", "none"} =>
                       o \in DueOccurrences \/ occ[o].timer = "running"

\* The repository and the dispatcher deliver occurrences as BoundedDelivery promises: each is
\* claimed at most max_delivery_attempts times, executed only while it is claimed, and
\* task_created or dead for good, through lost records, lapsed leases, deletion and crashes.
Stages == [none |-> "unknown", claimed |-> "claimed", retry_wait |-> "waiting",
           task_created |-> "delivered", dead |-> "given_up"]

Promise == INSTANCE BoundedDelivery WITH
    Item <- Fire,
    stage <- [o \in Fire |-> Stages[occ[o].state]],
    tries <- [o \in Fire |-> occ[o].attempts],
    started <- linked \cap Fire,
    withdrawn <- schedule.state = "deleted"

DeliversAsPromised == Promise!PromiseSpec

=============================================================================
