---------------------------- MODULE DurableTask ----------------------------
(***************************************************************************)
(* The durable Task aggregate of knoa_platform/tasks: what one SQLite      *)
(* transaction of TaskRepository may do to a Task, its Attempts, its event *)
(* journal, its approvals and its tool steps.  Every repository method     *)
(* runs under BEGIN IMMEDIATE, so one method is one action.                *)
(*                                                                         *)
(* A Task is identified with the create request that makes it: the key     *)
(* (principal_id, client_request_id) is unique in runtime_tasks.           *)
(***************************************************************************)
EXTENDS Integers, FiniteSets

CONSTANTS
    Task,           \* create requests, one per possible Task row
    Session,        \* conversation sessions
    Principal,      \* authenticated owners
    Action,         \* tool actions (name + arguments) that approvals are keyed by
    Step,           \* tool steps (call id + action) that commits are keyed by
    SessionOf,      \* the session a Task runs in
    OwnerOf,        \* the principal that owns a Task
    Priority,       \* the Task's priority, 0..9
    Staged,         \* the Tasks a delegation creates with initial_phase='delegation_staged'
    MaxActive,      \* max_active_tasks
    MaxActivePerPrincipal,
    MaxAttempts,    \* bound: claims of one Task
    MaxEvents       \* bound: journal length up to which a Task may loop

ASSUME ConstantsAssumption ==
    /\ IsFiniteSet(Task)
    /\ SessionOf \in [Task -> Session]
    /\ OwnerOf \in [Task -> Principal]
    /\ Priority \in [Task -> 0..9]
    /\ Staged \subseteq Task
    /\ MaxActive \in Nat
    /\ MaxActivePerPrincipal \in Nat
    /\ MaxAttempts \in Nat
    /\ MaxEvents \in Nat

VARIABLES
    state,            \* runtime_tasks.state, "absent" before the row exists
    phase,            \* runtime_tasks.phase
    cancelRequested,  \* runtime_tasks.cancel_requested
    lease,            \* lease_owner / lease_expires_at, seen against the clock
    createdAt,        \* runtime_tasks.created_at, as a creation rank
    attemptCount,     \* runtime_tasks.attempt_count
    attempt,          \* runtime_task_attempts by (task, ordinal)
    nextSeq,          \* runtime_tasks.next_event_seq
    journal,          \* a summary of the Task's rows of runtime_task_events
    approval,         \* runtime_task_approvals by (task, action)
    toolStep          \* runtime_task_tool_steps by (task, step)

taskVars == <<state, phase, cancelRequested, lease, createdAt>>
attemptVars == <<attemptCount, attempt>>
journalVars == <<nextSeq, journal>>
vars == <<taskVars, attemptVars, journalVars, approval, toolStep>>

Terminal == {"completed", "failed", "cancelled"}
Live == {"queued", "running", "waiting_approval", "paused"}
TaskState == Terminal \cup Live \cup {"absent"}
Active == {"running", "waiting_approval"}

Phase == {"", "delegation_staged", "pause_requested", "manual_pause",
          "outcome_unknown", "lease_expired", "interrupted"}
LeaseState == {"none", "fresh", "expired"}
AttemptState == {"none", "running", "completed", "failed", "cancelled", "interrupted"}
ApprovalState == {"none", "pending", "approved", "denied", "cancelled"}
StepState == {"none", "committing", "completed", "failed", "outcome_unknown"}
Ordinal == 1..MaxAttempts

\* rows: how many events the Task has; last: the largest event_seq;
\* shown: the Task state the newest state-bearing event carries;
\* terminals: how many of them are completed, failed or cancelled events.
JournalSummary == [rows : Nat, last : Nat, shown : TaskState, terminals : Nat]

TypeOK ==
    /\ state \in [Task -> TaskState]
    /\ phase \in [Task -> Phase]
    /\ cancelRequested \in [Task -> BOOLEAN]
    /\ lease \in [Task -> LeaseState]
    /\ createdAt \in [Task -> Nat]
    /\ attemptCount \in [Task -> 0..MaxAttempts]
    /\ attempt \in [Task -> [Ordinal -> AttemptState]]
    /\ nextSeq \in [Task -> Nat]
    /\ journal \in [Task -> JournalSummary]
    /\ approval \in [Task -> [Action -> ApprovalState]]
    /\ toolStep \in [Task -> [Step -> StepState]]

Init ==
    /\ state = [t \in Task |-> "absent"]
    /\ phase = [t \in Task |-> ""]
    /\ cancelRequested = [t \in Task |-> FALSE]
    /\ lease = [t \in Task |-> "none"]
    /\ createdAt = [t \in Task |-> 0]
    /\ attemptCount = [t \in Task |-> 0]
    /\ attempt = [t \in Task |-> [k \in Ordinal |-> "none"]]
    /\ nextSeq = [t \in Task |-> 1]
    /\ journal = [t \in Task |->
                    [rows |-> 0, last |-> 0, shown |-> "absent", terminals |-> 0]]
    /\ approval = [t \in Task |-> [a \in Action |-> "none"]]
    /\ toolStep = [t \in Task |-> [s \in Step |-> "none"]]

-----------------------------------------------------------------------------
(* Pieces the transactions are made of. *)

\* _append_event and the next_event_seq update that follows it in every
\* caller.  after[t] is the state the event shows for each Task t of S.
AppendEvent(S, after) ==
    /\ journal' = [t \in Task |->
          IF t \in S
          THEN [rows |-> journal[t].rows + 1,
                last |-> nextSeq[t],
                shown |-> after[t],
                terminals |-> journal[t].terminals
                                + (IF after[t] \in Terminal THEN 1 ELSE 0)]
          ELSE journal[t]]
    /\ nextSeq' = [t \in Task |-> IF t \in S THEN nextSeq[t] + 1 ELSE nextSeq[t]]

\* _finish_active_attempt: every running attempt of the Tasks in S.
FinishActiveAttempt(S, result) ==
    attempt' = [t \in Task |->
        IF t \in S
        THEN [k \in Ordinal |-> IF attempt[t][k] = "running" THEN result[t]
                                                             ELSE attempt[t][k]]
        ELSE attempt[t]]

\* The approvals of t after its pending ones are set to `cancelled'.
CancelPending(t) ==
    [approval EXCEPT ![t] = [a \in Action |->
        IF approval[t][a] = "pending" THEN "cancelled" ELSE approval[t][a]]]

\* The steps of t after its unfinished commits are quarantined.
Quarantined(t) ==
    [s \in Step |-> IF toolStep[t][s] = "committing" THEN "outcome_unknown"
                                                     ELSE toolStep[t][s]]

Created(t) == state[t] # "absent"
CreationRank == Cardinality({t \in Task : Created(t)}) + 1
InitialPhase(t) == IF t \in Staged THEN "delegation_staged" ELSE ""
ActiveTasks == {t \in Task : state[t] \in Live}
ActiveTasksOf(p) == {t \in ActiveTasks : OwnerOf[t] = p}

\* One event for Task t alone, showing state s.
AppendOne(t, s) == AppendEvent({t}, [u \in Task |-> s])
FinishOne(t, result) == FinishActiveAttempt({t}, [u \in Task |-> result])

-----------------------------------------------------------------------------
(* TaskRuntimeRepository *)

\* Mutation: the limits are compared with > instead of >=.
CreateOutcome_OffByOne(t) ==
    IF Created(t)
    THEN IF phase[t] = InitialPhase(t) THEN "existing" ELSE "conflict"
    ELSE IF \/ Cardinality(ActiveTasks) > MaxActive
            \/ Cardinality(ActiveTasksOf(OwnerOf[t])) > MaxActivePerPrincipal
         THEN "capacity"
         ELSE "created"

\* What create() answers for request t: the stored row is compared with the
\* request field by field, phase included, before any capacity check.
CreateOutcome(t) ==
    IF Created(t)
    THEN IF phase[t] = InitialPhase(t) THEN "existing" ELSE "conflict"
    ELSE IF \/ Cardinality(ActiveTasks) >= MaxActive
            \/ Cardinality(ActiveTasksOf(OwnerOf[t])) >= MaxActivePerPrincipal
         THEN "capacity"
         ELSE "created"

\* create(): only the outcome "created" changes the database.
Create(t) ==
    /\ CreateOutcome(t) = "created"
    /\ state' = [state EXCEPT ![t] = "queued"]
    /\ phase' = [phase EXCEPT ![t] = InitialPhase(t)]
    /\ createdAt' = [createdAt EXCEPT ![t] = CreationRank]
    /\ AppendOne(t, "queued")
    /\ UNCHANGED <<cancelRequested, lease, attemptVars, approval, toolStep>>

\* append_event(): an artifact reference; it carries no state of its own.
AppendArtifact(t) ==
    /\ state[t] \in Live
    /\ nextSeq[t] <= MaxEvents
    /\ AppendOne(t, journal[t].shown)
    /\ UNCHANGED <<taskVars, attemptVars, approval, toolStep>>

\* request_cancel() of a Task that no executor owns: cancelled on the spot.
CancelIdle(t) ==
    /\ state[t] \in {"queued", "waiting_approval", "paused"}
    /\ IF state[t] = "waiting_approval"
       THEN /\ approval' = CancelPending(t)
            /\ FinishOne(t, "cancelled")
       ELSE UNCHANGED <<approval, attempt>>
    /\ AppendOne(t, "cancelled")
    /\ state' = [state EXCEPT ![t] = "cancelled"]
    /\ cancelRequested' = [cancelRequested EXCEPT ![t] = TRUE]
    /\ lease' = [lease EXCEPT ![t] = "none"]
    /\ UNCHANGED <<phase, createdAt, attemptCount, toolStep>>

\* request_cancel() of a running Task: the request is recorded once.
CancelRunning(t) ==
    /\ state[t] = "running"
    /\ ~cancelRequested[t]
    /\ AppendOne(t, "running")
    /\ cancelRequested' = [cancelRequested EXCEPT ![t] = TRUE]
    /\ UNCHANGED <<state, phase, lease, createdAt, attemptVars, approval, toolStep>>

RequestCancel(t) == CancelIdle(t) \/ CancelRunning(t)

\* Mutation: the attempt that waits for the approval is not finished.
PauseIdle_AttemptLeft(t) ==
    /\ state[t] \in {"queued", "waiting_approval"}
    /\ approval' = CancelPending(t)
    /\ AppendOne(t, "paused")
    /\ state' = [state EXCEPT ![t] = "paused"]
    /\ phase' = [phase EXCEPT ![t] = "manual_pause"]
    /\ lease' = [lease EXCEPT ![t] = "none"]
    /\ UNCHANGED <<cancelRequested, createdAt, attemptVars, toolStep>>

\* request_pause() of a queued or waiting Task: paused on the spot.
PauseIdle(t) ==
    /\ state[t] \in {"queued", "waiting_approval"}
    /\ IF state[t] = "waiting_approval"
       THEN /\ approval' = CancelPending(t)
            /\ FinishOne(t, "interrupted")
       ELSE UNCHANGED <<approval, attempt>>
    /\ AppendOne(t, "paused")
    /\ state' = [state EXCEPT ![t] = "paused"]
    /\ phase' = [phase EXCEPT ![t] = "manual_pause"]
    /\ lease' = [lease EXCEPT ![t] = "none"]
    /\ UNCHANGED <<cancelRequested, createdAt, attemptCount, toolStep>>

\* Mutation: the event announces the pause before it happened.
PauseRunning_Announced(t) ==
    /\ state[t] = "running"
    /\ phase[t] # "pause_requested"
    /\ AppendOne(t, "paused")
    /\ phase' = [phase EXCEPT ![t] = "pause_requested"]
    /\ UNCHANGED <<state, cancelRequested, lease, createdAt, attemptVars,
                   approval, toolStep>>

\* request_pause() of a running Task: the request is kept in its phase.
PauseRunning(t) ==
    /\ state[t] = "running"
    /\ phase[t] # "pause_requested"
    /\ AppendOne(t, "running")
    /\ phase' = [phase EXCEPT ![t] = "pause_requested"]
    /\ UNCHANGED <<state, cancelRequested, lease, createdAt, attemptVars,
                   approval, toolStep>>

RequestPause(t) == PauseIdle(t) \/ PauseRunning(t)

\* resume(): an unknown tool outcome has to be acknowledged.
Resume(t, acknowledged) ==
    /\ state[t] = "paused"
    /\ phase[t] = "outcome_unknown" => acknowledged
    /\ nextSeq[t] <= MaxEvents
    /\ AppendOne(t, "queued")
    /\ state' = [state EXCEPT ![t] = "queued"]
    /\ phase' = [phase EXCEPT ![t] = ""]
    /\ cancelRequested' = [cancelRequested EXCEPT ![t] = FALSE]
    /\ lease' = [lease EXCEPT ![t] = "none"]
    /\ UNCHANGED <<createdAt, attemptVars, approval, toolStep>>

\* _TRANSITIONS
Transitions ==
    [queued |-> {"running", "cancelled"},
     running |-> {"waiting_approval", "paused", "completed", "failed", "cancelled"},
     waiting_approval |-> {"running", "paused", "cancelled"},
     paused |-> {"queued", "failed", "cancelled"},
     completed |-> {}, failed |-> {}, cancelled |-> {}]

AttemptResult ==
    [completed |-> "completed", failed |-> "failed",
     cancelled |-> "cancelled", paused |-> "interrupted"]

\* The targets transition() is called with: TaskExecutor's four outcomes.
TransitionTarget == {"completed", "failed", "cancelled", "paused"}

\* Mutation: the table is not consulted.
CanTransition_Unchecked(t, target) == Created(t)

CanTransition(t, target) == Created(t) /\ target \in Transitions[state[t]]

\* transition(): newPhase = "" keeps the phase of the row.
Transition(t, target, newPhase) ==
    /\ CanTransition(t, target)
    /\ AppendOne(t, target)
    /\ FinishOne(t, AttemptResult[target])
    /\ state' = [state EXCEPT ![t] = target]
    /\ phase' = [phase EXCEPT ![t] = IF newPhase = "" THEN @ ELSE newPhase]
    /\ lease' = [lease EXCEPT ![t] = "none"]
    /\ UNCHANGED <<cancelRequested, createdAt, attemptCount, approval, toolStep>>

\* Mutation: a lease that ran out frees the session before it is recovered.
SessionBusy_FreshLease(x) ==
    \E t \in Task : SessionOf[t] = x /\ state[t] \in Active /\ lease[t] = "fresh"

SessionBusy(x) == \E t \in Task : SessionOf[t] = x /\ state[t] \in Active

Claimable(t) ==
    /\ state[t] = "queued"
    /\ phase[t] # "delegation_staged"
    /\ ~SessionBusy(SessionOf[t])

\* ORDER BY priority DESC, created_at
ClaimedBefore(t, u) ==
    \/ Priority[t] > Priority[u]
    \/ Priority[t] = Priority[u] /\ createdAt[t] < createdAt[u]

NextClaim(t) == Claimable(t) /\ \A u \in Task \ {t} : Claimable(u) => ClaimedBefore(t, u)

\* claim_next(): a new attempt and a lease; the phase is left as it is.
ClaimNext(t) ==
    /\ NextClaim(t)
    /\ attemptCount[t] < MaxAttempts
    /\ AppendOne(t, "running")
    /\ attemptCount' = [attemptCount EXCEPT ![t] = @ + 1]
    /\ attempt' = [attempt EXCEPT ![t] = [@ EXCEPT ![attemptCount[t] + 1] = "running"]]
    /\ state' = [state EXCEPT ![t] = "running"]
    /\ lease' = [lease EXCEPT ![t] = "fresh"]
    /\ UNCHANGED <<phase, cancelRequested, createdAt, approval, toolStep>>

\* activate_staged(): the only step that changes a Task without an event.
ActivateStaged(t) ==
    /\ state[t] = "queued"
    /\ phase[t] = "delegation_staged"
    /\ phase' = [phase EXCEPT ![t] = ""]
    /\ UNCHANGED <<state, cancelRequested, lease, createdAt, attemptVars,
                   journalVars, approval, toolStep>>

\* The clock passes lease_expires_at.
LeaseExpires(t) ==
    /\ lease[t] = "fresh"
    /\ lease' = [lease EXCEPT ![t] = "expired"]
    /\ UNCHANGED <<state, phase, cancelRequested, createdAt, attemptVars,
                   journalVars, approval, toolStep>>

CanRenew(t) == state[t] = "running" /\ lease[t] # "none"

\* renew_lease(): an expired lease that was not recovered yet is renewed too.
RenewLease(t) ==
    /\ CanRenew(t)
    /\ lease' = [lease EXCEPT ![t] = "fresh"]
    /\ UNCHANGED <<state, phase, cancelRequested, createdAt, attemptVars,
                   journalVars, approval, toolStep>>

ExpiredTasks == {t \in Task : state[t] = "running" /\ lease[t] = "expired"}

\* recover_expired_leases(): all of them in one transaction; their tool steps
\* are not touched.
RecoverExpiredLeases ==
    /\ ExpiredTasks # {}
    /\ FinishActiveAttempt(ExpiredTasks, [t \in Task |-> "interrupted"])
    /\ AppendEvent(ExpiredTasks, [t \in Task |-> "paused"])
    /\ state' = [t \in Task |-> IF t \in ExpiredTasks THEN "paused" ELSE state[t]]
    /\ phase' = [t \in Task |-> IF t \in ExpiredTasks THEN "lease_expired" ELSE phase[t]]
    /\ lease' = [t \in Task |-> IF t \in ExpiredTasks THEN "none" ELSE lease[t]]
    /\ UNCHANGED <<cancelRequested, createdAt, attemptCount, approval, toolStep>>

\* Mutation: the phase is given the name of a state.
RecoveredPhase_StateName(t) == "paused"

\* The phase a running Task is paused in when Core starts again; the steps are
\* read after the quarantine of the same transaction.
RecoveredPhase(t) ==
    IF \E s \in Step : Quarantined(t)[s] = "outcome_unknown" THEN "outcome_unknown"
    ELSE IF phase[t] = "pause_requested" THEN "manual_pause"
    ELSE "interrupted"

Interrupted == {t \in Task : state[t] \in Active}

\* recover_interrupted(): the startup pass over every Task.
RecoverInterrupted ==
    /\ \A t \in Interrupted : nextSeq[t] <= MaxEvents
    /\ toolStep' = [t \in Task |-> Quarantined(t)]
    /\ FinishActiveAttempt(Interrupted, [t \in Task |-> "interrupted"])
    /\ AppendEvent(Interrupted,
                   [t \in Task |-> IF state[t] = "running" THEN "paused" ELSE state[t]])
    /\ state' = [t \in Task |-> IF state[t] = "running" THEN "paused" ELSE state[t]]
    /\ phase' = [t \in Task |-> IF state[t] = "running" THEN RecoveredPhase(t) ELSE phase[t]]
    /\ lease' = [t \in Task |-> IF t \in Interrupted THEN "none" ELSE lease[t]]
    /\ UNCHANGED <<cancelRequested, createdAt, attemptCount, approval>>

-----------------------------------------------------------------------------
(* TaskToolRepository *)

\* Mutation: a step that is already recorded is begun again.
BeginToolStep_Again(t, s) ==
    /\ state[t] = "running"
    /\ toolStep[t][s] # "committing"
    /\ toolStep' = [toolStep EXCEPT ![t] = [@ EXCEPT ![s] = "committing"]]
    /\ UNCHANGED <<taskVars, attemptVars, journalVars, approval>>

\* begin_tool_step(): a new commit; a known step is only read.
BeginToolStep(t, s) ==
    /\ state[t] = "running"
    /\ toolStep[t][s] = "none"
    /\ toolStep' = [toolStep EXCEPT ![t] = [@ EXCEPT ![s] = "committing"]]
    /\ UNCHANGED <<taskVars, attemptVars, journalVars, approval>>

\* finish_tool_step(): whatever state the Task is in by now.
FinishToolStep(t, s, result) ==
    /\ toolStep[t][s] = "committing"
    /\ toolStep' = [toolStep EXCEPT ![t] = [@ EXCEPT ![s] = result]]
    /\ UNCHANGED <<taskVars, attemptVars, journalVars, approval>>

\* pause_for_unknown_tool_outcome()
PauseForUnknownToolOutcome(t) ==
    /\ state[t] = "running"
    /\ toolStep' = [toolStep EXCEPT ![t] = Quarantined(t)]
    /\ FinishOne(t, "interrupted")
    /\ AppendOne(t, "paused")
    /\ state' = [state EXCEPT ![t] = "paused"]
    /\ phase' = [phase EXCEPT ![t] = "outcome_unknown"]
    /\ lease' = [lease EXCEPT ![t] = "none"]
    /\ UNCHANGED <<cancelRequested, createdAt, attemptCount, approval>>

\* request_approval() for an action the Task has not asked about before.
RequestApproval(t, a) ==
    /\ approval[t][a] = "none"
    /\ state[t] = "running"
    /\ approval' = [approval EXCEPT ![t] = [@ EXCEPT ![a] = "pending"]]
    /\ AppendOne(t, "waiting_approval")
    /\ state' = [state EXCEPT ![t] = "waiting_approval"]
    /\ UNCHANGED <<phase, cancelRequested, lease, createdAt, attemptVars, toolStep>>

\* resolve_approval(): the Task goes on under its lease, or back to the queue.
ResolveApproval(t, a, decision, resumeState) ==
    /\ approval[t][a] = "pending"
    /\ state[t] = "waiting_approval"
    /\ approval' = [approval EXCEPT ![t] = [@ EXCEPT ![a] = decision]]
    /\ AppendOne(t, resumeState)
    /\ state' = [state EXCEPT ![t] = resumeState]
    /\ IF resumeState = "queued"
       THEN /\ lease' = [lease EXCEPT ![t] = "none"]
            /\ FinishOne(t, "interrupted")
       ELSE UNCHANGED <<lease, attempt>>
    /\ UNCHANGED <<phase, cancelRequested, createdAt, attemptCount, toolStep>>

\* DurableApprovalService resumes a Task in place only for a live waiter,
\* whose execution still holds the lease.
ResumeStates(t) == IF lease[t] = "none" THEN {"queued"} ELSE {"queued", "running"}

-----------------------------------------------------------------------------
ClientCommand(t) ==
    \/ Create(t)
    \/ RequestCancel(t)
    \/ RequestPause(t)
    \/ \E ack \in BOOLEAN : Resume(t, ack)
    \/ ActivateStaged(t)

ExecutorWrite(t) ==
    \/ ClaimNext(t)
    \/ AppendArtifact(t)
    \/ \E target \in TransitionTarget :
         Transition(t, target, IF target = "paused" THEN "manual_pause" ELSE "")
    \/ RenewLease(t)
    \/ PauseForUnknownToolOutcome(t)
    \/ \E s \in Step : BeginToolStep(t, s)
    \/ \E s \in Step, result \in {"completed", "failed"} : FinishToolStep(t, s, result)
    \/ \E a \in Action : RequestApproval(t, a)

Decision(t) ==
    \E a \in Action, decision \in {"approved", "denied"}, r \in ResumeStates(t) :
        ResolveApproval(t, a, decision, r)

Next ==
    \/ \E t \in Task : ClientCommand(t) \/ ExecutorWrite(t) \/ Decision(t) \/ LeaseExpires(t)
    \/ RecoverExpiredLeases
    \/ RecoverInterrupted

Spec == Init /\ [][Next]_vars

-----------------------------------------------------------------------------
(* Correctness properties of the aggregate. *)

HasRunningAttempt(t) == \E k \in Ordinal : attempt[t][k] = "running"

\* The journal alone tells a reconnecting client everything: event numbers
\* have no gap and no repetition, the newest event shows the state of the row,
\* and there is exactly one terminal event once the Task is terminal.  Every
\* repository method keeps next_event_seq, the event and the row together by
\* hand.
JournalMatchesTask ==
    \A t \in Task :
        /\ journal[t].rows = nextSeq[t] - 1
        /\ journal[t].last = nextSeq[t] - 1
        /\ journal[t].shown = state[t]
        /\ journal[t].terminals = IF state[t] \in Terminal THEN 1 ELSE 0

\* One executor at a time: a Task has at most one running attempt, it is the
\* newest one, and it exists exactly while the row carries a lease; a running
\* Task always has both, and a Task that is neither running nor waiting has
\* neither.  Eleven methods write these three tables.
LeaseFollowsAttempt ==
    \A t \in Task :
        /\ \A k \in Ordinal : attempt[t][k] = "running" => k = attemptCount[t]
        /\ lease[t] # "none" <=> HasRunningAttempt(t)
        /\ state[t] = "running" => lease[t] # "none"
        /\ lease[t] # "none" => state[t] \in Active

\* Tasks that share a session are executed one after the other, across
\* approvals, pauses, restarts and lease recovery.
SessionExclusive ==
    \A t, u \in Task :
        (state[t] \in Active /\ state[u] \in Active /\ SessionOf[t] = SessionOf[u]) => t = u

\* The number of unfinished Tasks never exceeds the global and the
\* per-principal limit: no path brings a finished Task back.
CapacityRespected ==
    /\ Cardinality(ActiveTasks) <= MaxActive
    /\ \A p \in Principal : Cardinality(ActiveTasksOf(p)) <= MaxActivePerPrincipal

\* A terminal Task is frozen: its row, journal, attempts and approvals never
\* change again, however late a client command, a heartbeat, an executor
\* result or a recovery pass arrives.
TerminalIsFinal ==
    [][\A t \in Task : state[t] \in Terminal =>
          /\ state'[t] = state[t]
          /\ phase'[t] = phase[t]
          /\ lease'[t] = lease[t]
          /\ journal'[t] = journal[t]
          /\ attempt'[t] = attempt[t]
          /\ approval'[t] = approval[t]]_vars

\* An approval is decided at most once, and a tool step is started and ended
\* at most once: a completed, failed or unknown step is never committed again.
DecidedOnce ==
    [][\A t \in Task :
          /\ \A a \in Action :
                approval[t][a] \notin {"none", "pending"} => approval'[t][a] = approval[t][a]
          /\ \A s \in Step :
                /\ toolStep[t][s] \notin {"none", "committing"} =>
                        toolStep'[t][s] = toolStep[t][s]
                /\ toolStep[t][s] = "committing" => toolStep'[t][s] # "none"]_vars

\* The repository implements the life cycle it promises: every transaction is
\* a legal move of one Task (or a recovery pass suspending several), and a
\* Task only starts when its session is free.
Life == INSTANCE TaskLifecycle WITH status <- state
ImplementsLifecycle == Life!LifeSpec

=============================================================================
