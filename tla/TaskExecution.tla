--------------------------- MODULE TaskExecution ---------------------------
(***************************************************************************)
(* The Core process around the durable Task aggregate: the worker loop and *)
(* the executions of TaskExecutor, DurableApprovalService with its waiters *)
(* and reviewer, the tool step boundary, the commands of TaskService, and  *)
(* crash, graceful stop and restart.                                       *)
(*                                                                         *)
(* The database is DurableTask; everything declared here lives in memory   *)
(* and is lost with the process.  One action is the code between two       *)
(* awaits, so that another coroutine or a database commit of another       *)
(* caller may come between any two of them.                                *)
(***************************************************************************)
EXTENDS DurableTask

CONSTANTS
    ActionOf,        \* the action a tool step performs
    NeedsApproval,   \* the actions whose policy requires confirmation
    Reviewer,        \* approval review mode: "off", "advisory" or "auto"
    MaxConcurrency,  \* max_concurrency
    Happens          \* what the environment does in this instance

\* pause, cancel: clients send these commands;
\* overlap: a client does not wait for an answer before its next command;
\* stop: the process may crash or be stopped;
\* slow_heartbeat: a lease may lapse while its heartbeat is alive;
\* turn_timeout: the idle or the hard deadline of a turn may pass;
\* checkpoint_failure: finish_tool_step() may fail in the database.
Events == {"pause", "cancel", "overlap", "stop", "slow_heartbeat", "turn_timeout",
           "checkpoint_failure"}

ASSUME ExecutionAssumption ==
    /\ ActionOf \in [Step -> Action]
    /\ NeedsApproval \subseteq Action
    /\ Reviewer \in {"off", "advisory", "auto"}
    /\ MaxConcurrency \in 1..32
    /\ Happens \subseteq Events
    /\ "no_step" \notin Step

VARIABLES
    mode,      \* the process: "up", "stopping" or "down"
    worker,    \* where the worker loop is
    wake,      \* TaskExecutor._wake
    exec,      \* the execution of each attempt: _execute() and the turn inside it
    active,    \* TaskExecutor._active: the attempt whose latch is registered, 0 if none
    waiter,    \* DurableApprovalService._waiters: the attempt that waits, 0 if none
    signal,    \* what a cancel or pause command still has to do after its commit
    reviewed,  \* approvals whose stored reason the reviewer has rewritten
    effects,   \* how often a tool step's registry commit was run (history)
    asked      \* the Tasks whose cancellation was ever asked for (history)

memory == <<mode, worker, wake, exec, active, waiter, signal>>
history == <<effects, asked>>
execVars == <<vars, memory, reviewed, history>>

\* Inside _session_turn_lease: the execution owns the session's turn.
TurnPc == {"turn", "confirming", "registering", "rejoining", "reviewing", "approving", "denying",
           "waiting", "beginning", "effect", "finishing"}
ClosingPc == {"ended", "pausing", "cancelling", "completing", "raised", "aborting",
              "failing", "unknown", "closing"}
LivePc == {"start"} \cup TurnPc \cup ClosingPc
Pc == {"none", "claimed", "over", "gone"} \cup LivePc
TurnStatus == {"none", "completed", "interrupted", "failed", "outcome_unknown"}
Answer == {"none", "yes", "no"}
Execution == [pc : Pc, step : Step \cup {"no_step"}, status : TurnStatus,
              latch : BOOLEAN, stop : BOOLEAN, beat : BOOLEAN, answer : Answer]

ExecTypeOK ==
    /\ mode \in {"up", "stopping", "down"}
    /\ worker \in {"asleep", "recovering", "claiming", "registering"}
    /\ wake \in BOOLEAN
    /\ exec \in [Task -> [Ordinal -> Execution]]
    /\ active \in [Task -> 0..MaxAttempts]
    /\ waiter \in [Task -> [Action -> 0..MaxAttempts]]
    /\ signal \in [Task -> {"none", "latch", "latch_waiters", "waiters"}]
    /\ reviewed \in [Task -> [Action -> BOOLEAN]]
    /\ effects \in [Task -> [Step -> Nat]]
    /\ asked \subseteq Task

NoExecution == [pc |-> "none", step |-> "no_step", status |-> "none", latch |-> FALSE,
                stop |-> FALSE, beat |-> FALSE, answer |-> "none"]
ForgetTasks == [t \in Task |-> [k \in Ordinal |-> NoExecution]]
NoWaiters == [t \in Task |-> [a \in Action |-> 0]]

ExecInit ==
    /\ Init
    /\ mode = "up"
    /\ worker = "asleep"
    /\ wake = TRUE
    /\ exec = ForgetTasks
    /\ active = [t \in Task |-> 0]
    /\ waiter = NoWaiters
    /\ signal = [t \in Task |-> "none"]
    /\ reviewed = [t \in Task |-> [a \in Action |-> FALSE]]
    /\ effects = [t \in Task |-> [s \in Step |-> 0]]
    /\ asked = {}

At(t, k, pc) == mode = "up" /\ exec[t][k].pc = pc
Goto(t, k, pc) == exec' = [exec EXCEPT ![t][k].pc = pc]
ActionAsked(t, k) == ActionOf[exec[t][k].step]

\* The turn is over for _execute(), which keeps only how it ended.
LeaveTurn(t, k, pc, status, latch) ==
    exec' = [exec EXCEPT ![t][k] =
                [NoExecution EXCEPT !.pc = pc, !.status = status, !.latch = latch,
                                    !.beat = exec[t][k].beat]]

-----------------------------------------------------------------------------
(* TaskExecutor._worker_loop *)

Slots == {x \in Task \X Ordinal : exec[x[1]][x[2]].pc \in LivePc \cup {"over"}}

\* _wake.clear(), and finished executions leave the set.
WorkerWakes ==
    /\ mode = "up" /\ worker = "asleep" /\ wake
    /\ wake' = FALSE
    /\ worker' = "recovering"
    /\ exec' = [t \in Task |-> [k \in Ordinal |->
                  IF exec[t][k].pc = "over" THEN [NoExecution EXCEPT !.pc = "gone"]
                                            ELSE exec[t][k]]]
    /\ UNCHANGED <<vars, mode, active, waiter, signal, reviewed, history>>

WorkerRecovers ==
    /\ mode = "up" /\ worker = "recovering"
    /\ IF ExpiredTasks = {} THEN UNCHANGED vars ELSE RecoverExpiredLeases
    /\ worker' = "claiming"
    /\ UNCHANGED <<mode, wake, exec, active, waiter, signal, reviewed, history>>

CanClaim(t) == NextClaim(t) /\ attemptCount[t] < MaxAttempts

\* claim_next() commits in a thread; the loop has not continued yet.
WorkerClaims(t) ==
    /\ mode = "up" /\ worker = "claiming"
    /\ Cardinality(Slots) < MaxConcurrency
    /\ CanClaim(t)
    /\ ClaimNext(t)
    /\ Goto(t, attemptCount[t] + 1, "claimed")
    /\ worker' = "registering"
    /\ UNCHANGED <<mode, wake, active, waiter, signal, reviewed, history>>

\* The latch is registered and _execute() is created in one go.
WorkerRegisters(t, k) ==
    /\ At(t, k, "claimed") /\ worker = "registering"
    /\ active' = [active EXCEPT ![t] = k]
    /\ exec' = [exec EXCEPT ![t][k].pc = "start", ![t][k].beat = TRUE]
    /\ worker' = "claiming"
    /\ UNCHANGED <<vars, mode, wake, waiter, signal, reviewed, history>>

WorkerSleeps ==
    /\ mode = "up" /\ worker = "claiming"
    /\ Cardinality(Slots) < MaxConcurrency => \A t \in Task : ~CanClaim(t)
    /\ worker' = "asleep"
    /\ UNCHANGED <<vars, mode, wake, exec, active, waiter, signal, reviewed, history>>

\* _heartbeat_loop: a renewal that finds the Task not running ends the loop.
Heartbeat(t, k) ==
    /\ mode = "up" /\ exec[t][k].beat
    /\ IF ~exec[t][k].latch /\ CanRenew(t)
       THEN RenewLease(t) /\ UNCHANGED exec
       ELSE exec' = [exec EXCEPT ![t][k].beat = FALSE] /\ UNCHANGED vars
    /\ UNCHANGED <<mode, worker, wake, active, waiter, signal, reviewed, history>>

\* Time passes; a waiting Task keeps its lease time too.
LeaseLapses(t) ==
    /\ mode = "up"
    /\ "slow_heartbeat" \notin Happens =>
          \A k \in Ordinal : ~exec[t][k].beat /\ exec[t][k].pc # "claimed"
    /\ LeaseExpires(t)
    /\ UNCHANGED <<memory, reviewed, history>>

-----------------------------------------------------------------------------
(* TaskExecutor._execute and AgentExecution.execute_turn *)

Quiet == UNCHANGED <<mode, worker, wake, active, waiter, signal, reviewed, history>>

SessionTurnFree(x) ==
    \A t \in Task, k \in Ordinal : SessionOf[t] = x => exec[t][k].pc \notin TurnPc

\* _session_turn_lease is acquired.
EnterTurn(t, k) ==
    /\ At(t, k, "start")
    /\ SessionTurnFree(SessionOf[t])
    /\ Goto(t, k, "turn")
    /\ UNCHANGED vars /\ Quiet

\* Preparing or running the turn raises.
TurnRaises(t, k) ==
    /\ At(t, k, "start") \/ At(t, k, "turn")
    /\ LeaveTurn(t, k, "raised", "none", exec[t][k].latch)
    /\ UNCHANGED vars /\ Quiet

\* _bridge_cancellation: the latch cancels the invocation ...
Bridge(t, k) ==
    /\ mode = "up" /\ exec[t][k].pc \in TurnPc
    /\ exec[t][k].latch /\ ~exec[t][k].stop
    /\ exec' = [exec EXCEPT ![t][k].stop = TRUE]
    /\ UNCHANGED vars /\ Quiet

\* ... and so does the idle timeout or the hard deadline, without the latch.
TurnTimesOut(t, k) ==
    /\ "turn_timeout" \in Happens
    /\ mode = "up" /\ exec[t][k].pc \in TurnPc
    /\ ~exec[t][k].stop
    /\ exec' = [exec EXCEPT ![t][k].stop = TRUE]
    /\ UNCHANGED vars /\ Quiet

StopRequested(t) ==
    state[t] \in Terminal \/ cancelRequested[t] \/ phase[t] = "pause_requested"

\* A turn event reaches the executor and the row says stop, or the latch does.
StopAtMilestone(t, k) ==
    /\ At(t, k, "turn")
    /\ exec[t][k].latch \/ StopRequested(t)
    /\ LeaveTurn(t, k, "ended", "none", TRUE)
    /\ UNCHANGED vars /\ Quiet

GoesOn(t, k) == At(t, k, "turn") /\ ~exec[t][k].latch /\ ~StopRequested(t)

\* ToolCallStarted passes the check; ToolStep.execute then runs up to its first
\* await.
ProposeTool(t, k, s) ==
    /\ GoesOn(t, k) /\ ~exec[t][k].stop
    /\ exec' = [exec EXCEPT
          ![t][k].step = s,
          ![t][k].pc = IF ActionOf[s] \in NeedsApproval THEN "confirming" ELSE "beginning"]
    /\ UNCHANGED vars /\ Quiet

\* TurnFinished passes the check.
FinishTurn(t, k, status) ==
    /\ GoesOn(t, k)
    /\ status = "interrupted" => exec[t][k].stop
    /\ LeaveTurn(t, k, "ended", status, FALSE)
    /\ UNCHANGED vars /\ Quiet

\* The artifacts of a completed tool call are journalled.
RecordArtifact(t, k) ==
    /\ GoesOn(t, k)
    /\ exec[t][k].step # "no_step" /\ toolStep[t][exec[t][k].step] = "completed"
    /\ AppendArtifact(t)
    /\ UNCHANGED exec /\ Quiet

\* What _execute() makes of the row it reads after the turn.
Verdict(t, k) ==
    IF state[t] \in Terminal \cup {"paused"} THEN "closing"
    ELSE IF cancelRequested[t] \/ exec[t][k].latch
    THEN IF phase[t] = "pause_requested" THEN "pausing" ELSE "cancelling"
    ELSE IF state[t] = "waiting_approval" THEN "closing"
    ELSE CASE exec[t][k].status \in {"none", "failed"} -> "raised"
           [] exec[t][k].status = "outcome_unknown" -> "unknown"
           [] OTHER -> "completing"

Decide(t, k) ==
    /\ At(t, k, "ended")
    /\ LeaveTurn(t, k, Verdict(t, k), "none", exec[t][k].latch)
    /\ UNCHANGED vars /\ Quiet

VerdictTarget == [pausing |-> "paused", cancelling |-> "cancelled",
                  completing |-> "completed", aborting |-> "cancelled",
                  failing |-> "failed"]

\* _transition() of a verdict; the row may have moved since it was read.
WriteVerdict(t, k) ==
    /\ mode = "up"
    /\ exec[t][k].pc \in {"pausing", "cancelling", "completing"}
    /\ LET target == VerdictTarget[exec[t][k].pc] IN
       IF CanTransition(t, target)
       THEN /\ Transition(t, target, IF target = "paused" THEN "manual_pause" ELSE "")
            /\ Goto(t, k, "closing")
       ELSE Goto(t, k, "raised") /\ UNCHANGED vars
    /\ Quiet

\* except Exception: the row is read again.
HandleFailure(t, k) ==
    /\ At(t, k, "raised")
    /\ Goto(t, k, IF state[t] \in Terminal THEN "closing"
                  ELSE IF cancelRequested[t] THEN "aborting"
                  ELSE IF state[t] = "waiting_approval" THEN "closing"
                  ELSE "failing")
    /\ UNCHANGED vars /\ Quiet

\* A transition the table refuses is only logged here.
WriteFailure(t, k) ==
    /\ mode = "up"
    /\ exec[t][k].pc \in {"aborting", "failing"}
    /\ LET target == VerdictTarget[exec[t][k].pc] IN
       IF CanTransition(t, target) THEN Transition(t, target, "") ELSE UNCHANGED vars
    /\ Goto(t, k, "closing")
    /\ Quiet

\* except ToolOutcomeUnknownError
WriteUnknown(t, k) ==
    /\ At(t, k, "unknown")
    /\ IF state[t] = "running" THEN PauseForUnknownToolOutcome(t) ELSE UNCHANGED vars
    /\ Goto(t, k, "closing")
    /\ Quiet

\* Mutation: nobody tells the worker loop that a slot is free.
Close_Silent(t, k) ==
    /\ At(t, k, "closing")
    /\ exec' = [exec EXCEPT ![t][k] = [NoExecution EXCEPT !.pc = "over"]]
    /\ active' = [active EXCEPT ![t] = IF @ = k THEN 0 ELSE @]
    /\ UNCHANGED <<vars, mode, worker, wake, waiter, signal, reviewed, history>>

\* finally: the heartbeat and the latch go, and the done callback wakes the loop.
Close(t, k) ==
    /\ At(t, k, "closing")
    /\ exec' = [exec EXCEPT ![t][k] = [NoExecution EXCEPT !.pc = "over"]]
    /\ active' = [active EXCEPT ![t] = IF @ = k THEN 0 ELSE @]
    /\ wake' = TRUE
    /\ UNCHANGED <<vars, mode, worker, waiter, signal, reviewed, history>>

-----------------------------------------------------------------------------
(* DurableApprovalService.confirm *)

\* Mutation: any answer lets the tool run.
AfterConfirm_AnyAnswer(t, k, approved, stale) ==
    IF ~stale /\ ~exec[t][k].stop THEN "beginning" ELSE "turn"

\* The part of ToolStep.execute between confirm() and the commit: nothing
\* awaits, so the answer, the cancellation and the re-validation of the tool
\* definition are read together.
AfterConfirm(t, k, approved, stale) ==
    IF approved /\ ~stale /\ ~exec[t][k].stop THEN "beginning" ELSE "turn"

\* A rewritten reason no longer equals the policy's reason, and the request is
\* refused as a conflict.
ConfirmOutcome(t, a) ==
    IF approval[t][a] = "none"
    THEN IF state[t] = "running" THEN "requested" ELSE "refused"
    ELSE IF reviewed[t][a] THEN "refused"
    ELSE IF approval[t][a] = "pending" THEN "pending"
    ELSE IF approval[t][a] = "approved" THEN "approved"
    ELSE "refused"

\* request_approval(); a decided approval is the answer.
AskApproval(t, k, stale) ==
    /\ At(t, k, "confirming")
    /\ LET outcome == ConfirmOutcome(t, ActionAsked(t, k)) IN
       /\ IF outcome = "requested" THEN RequestApproval(t, ActionAsked(t, k))
                                   ELSE UNCHANGED vars
       /\ Goto(t, k, CASE outcome = "requested" -> "registering"
                       [] outcome = "pending" -> "rejoining"
                       [] OTHER -> AfterConfirm(t, k, outcome = "approved", stale))
    /\ Quiet

\* The waiter is stored under the lock, after the request was committed; only
\* a new request is reviewed.
RegisterWaiter(t, k) ==
    /\ At(t, k, "registering") \/ At(t, k, "rejoining")
    /\ LET a == ActionAsked(t, k) IN
       IF waiter[t][a] # 0
       THEN Goto(t, k, "turn") /\ UNCHANGED waiter
       ELSE /\ waiter' = [waiter EXCEPT ![t][a] = k]
            /\ Goto(t, k, IF Reviewer # "off" /\ At(t, k, "registering")
                          THEN "reviewing" ELSE "waiting")
    /\ UNCHANGED <<vars, mode, worker, wake, active, signal, reviewed, history>>

\* The reviewer answers or fails; annotate_approval_review() rewrites the
\* reason of an approval that is still pending.  In auto mode a decision
\* within the risk limit is applied at once.
Review(t, k, opinion) ==
    /\ At(t, k, "reviewing")
    /\ LET a == ActionAsked(t, k) IN
       reviewed' = [reviewed EXCEPT ![t][a] =
                       @ \/ (opinion # "failed" /\ approval[t][a] = "pending")]
    /\ Goto(t, k, IF Reviewer = "auto" /\ opinion \in {"approving", "denying"}
                  THEN opinion ELSE "waiting")
    /\ UNCHANGED <<vars, mode, worker, wake, active, waiter, signal, history>>

\* Mutation: the Task always goes on in place.
ResumeStateFor_InPlace(t, a) == "running"

\* resolve(): the waiter decides whether the Task goes on in place; the lock
\* is held over the commit.
ResumeStateFor(t, a) == IF waiter[t][a] = 0 THEN "queued" ELSE "running"

\* Mutation: the future is given the stored word instead of a Boolean.
Reply_Raw(d) == d

Reply(d) == IF d = "approved" THEN "yes" ELSE "no"

\* exec after the future of the waiter of a was given its result, if any.
Answered(t, a, reply) ==
    [exec EXCEPT ![t] = [k \in Ordinal |->
        IF k = waiter[t][a] /\ exec[t][k].answer = "none"
        THEN [exec[t][k] EXCEPT !.answer = reply] ELSE exec[t][k]]]

\* confirm()'s finally: only the own waiter is dropped.
DropOwnWaiter(t, k, a) ==
    waiter' = [waiter EXCEPT ![t][a] = IF @ = k THEN 0 ELSE @]

\* The reviewer's decision through resolve(); confirm() returns the stored
\* decision, whoever made it, and raises if the Task no longer waits.
AutoResolve(t, k, stale) ==
    /\ exec[t][k].pc \in {"approving", "denying"} /\ mode = "up"
    /\ LET a == ActionAsked(t, k)
           decision == IF exec[t][k].pc = "approving" THEN "approved" ELSE "denied"
           open == approval[t][a] = "pending" /\ state[t] = "waiting_approval"
           final == IF open THEN decision ELSE approval[t][a]
       IN /\ IF open
             THEN ResolveApproval(t, a, decision, ResumeStateFor(t, a))
             ELSE UNCHANGED vars
          /\ exec' = [exec EXCEPT ![t][k].answer = "none",
                       ![t][k].pc = AfterConfirm(t, k, final = "approved", stale)]
          /\ DropOwnWaiter(t, k, a)
    /\ UNCHANGED <<mode, worker, wake, active, signal, reviewed, history>>

\* `return await future'
TakeAnswer(t, k, stale) ==
    /\ At(t, k, "waiting")
    /\ exec[t][k].answer # "none"
    /\ DropOwnWaiter(t, k, ActionAsked(t, k))
    /\ exec' = [exec EXCEPT ![t][k].answer = "none",
                 ![t][k].pc = AfterConfirm(t, k, exec[t][k].answer = "yes", stale)]
    /\ UNCHANGED <<vars, mode, worker, wake, active, signal, reviewed, history>>

-----------------------------------------------------------------------------
(* The commit boundary of ToolStep.execute: DurableToolCommitService *)

CanBegin(t, s) == state[t] = "running" /\ toolStep[t][s] = "none"

\* Mutation: the prior outcome of a known step is ignored.
BeginCommit_Replay(t, k) ==
    /\ At(t, k, "beginning")
    /\ LET s == exec[t][k].step IN
       /\ IF CanBegin(t, s) THEN BeginToolStep(t, s) ELSE UNCHANGED vars
       /\ Goto(t, k, IF state[t] = "running" THEN "effect" ELSE "turn")
    /\ Quiet

\* A known step answers from storage; a Task that is not running refuses.
BeginCommit(t, k) ==
    /\ At(t, k, "beginning")
    /\ LET s == exec[t][k].step IN
       IF CanBegin(t, s) THEN BeginToolStep(t, s) /\ Goto(t, k, "effect")
                         ELSE UNCHANGED vars /\ Goto(t, k, "turn")
    /\ Quiet

\* registry._commit runs.
RunTool(t, k) ==
    /\ At(t, k, "effect")
    /\ effects' = [effects EXCEPT ![t][exec[t][k].step] = @ + 1]
    /\ Goto(t, k, "finishing")
    /\ UNCHANGED <<vars, mode, worker, wake, active, waiter, signal, reviewed, asked>>

FinishCommit(t, k, result) ==
    /\ At(t, k, "finishing")
    /\ LET s == exec[t][k].step IN
       IF toolStep[t][s] = "committing" THEN FinishToolStep(t, s, result)
                                        ELSE UNCHANGED vars
    /\ Goto(t, k, "turn")
    /\ Quiet

\* ToolOutcomeUnknownError becomes a failed tool result of the agent's MCP
\* client, and the turn goes on.
CheckpointFails(t, k) ==
    /\ "checkpoint_failure" \in Happens
    /\ At(t, k, "finishing")
    /\ Goto(t, k, "turn")
    /\ UNCHANGED vars /\ Quiet

-----------------------------------------------------------------------------
(* TaskService *)

Idle == UNCHANGED <<mode, worker, exec, active, waiter, signal, reviewed, history>>

\* Mutation: a created Task does not wake the worker.
SubmitTask_NoWake(t) == mode = "up" /\ Create(t) /\ wake' = wake /\ Idle

\* A staged Task waits for its activation and does not wake the worker.
SubmitTask(t) == mode = "up" /\ Create(t) /\ wake' = (wake \/ t \notin Staged) /\ Idle
ActivateTask(t) == mode = "up" /\ ActivateStaged(t) /\ wake' = TRUE /\ Idle
ResumeTask(t, ack) ==
    /\ mode = "up"
    /\ "overlap" \notin Happens => signal[t] = "none"
    /\ Resume(t, ack)
    /\ wake' = TRUE
    /\ Idle

\* A repeated or late cancel changes no row and still signals; it is left out
\* where no execution of a finished Task is left to be signalled.
CancelTask(t) ==
    /\ "cancel" \in Happens
    /\ mode = "up" /\ signal[t] = "none"
    /\ \/ RequestCancel(t)
       \/ /\ \/ state[t] \in Terminal /\ active[t] # 0
             \/ state[t] = "running" /\ cancelRequested[t]
          /\ UNCHANGED vars
    /\ signal' = [signal EXCEPT ![t] = "latch_waiters"]
    /\ asked' = asked \cup {t}
    /\ UNCHANGED <<mode, worker, wake, exec, active, waiter, reviewed, effects>>

\* Waiters are cancelled only if the command itself paused the Task.
PauseTask(t) ==
    /\ "pause" \in Happens
    /\ mode = "up" /\ signal[t] = "none"
    /\ \/ RequestPause(t)
       \/ /\ state[t] = "paused" \/ (state[t] = "running" /\ phase[t] = "pause_requested")
          /\ UNCHANGED vars
    /\ signal' = [signal EXCEPT ![t] = IF state'[t] = "paused" THEN "latch_waiters"
                                                               ELSE "latch"]
    /\ UNCHANGED <<mode, worker, wake, exec, active, waiter, reviewed, history>>

\* signal_cancel(): the latch that is registered now, if any.
SignalLatch(t) ==
    /\ mode = "up" /\ signal[t] \in {"latch", "latch_waiters"}
    /\ exec' = [exec EXCEPT ![t] = [k \in Ordinal |->
                  IF k = active[t] THEN [exec[t][k] EXCEPT !.latch = TRUE] ELSE exec[t][k]]]
    /\ signal' = [signal EXCEPT ![t] = IF @ = "latch" THEN "none" ELSE "waiters"]
    /\ UNCHANGED <<vars, mode, worker, wake, active, waiter, reviewed, history>>

\* cancel_task(): the waiters that are registered now are refused.
CancelWaiters(t) ==
    /\ mode = "up" /\ signal[t] = "waiters"
    /\ exec' = [exec EXCEPT ![t] = [k \in Ordinal |->
                  IF exec[t][k].answer = "none" /\ \E a \in Action : waiter[t][a] = k
                  THEN [exec[t][k] EXCEPT !.answer = "no"] ELSE exec[t][k]]]
    /\ waiter' = [waiter EXCEPT ![t] = [a \in Action |-> 0]]
    /\ signal' = [signal EXCEPT ![t] = "none"]
    /\ UNCHANGED <<vars, mode, worker, wake, active, reviewed, history>>

\* resolve_approval(): the loop is woken only for a Task back in the queue.
ResolveTask(t, a, decision) ==
    /\ mode = "up"
    /\ ResolveApproval(t, a, decision, ResumeStateFor(t, a))
    /\ exec' = Answered(t, a, Reply(decision))
    /\ wake' = (wake \/ waiter[t][a] = 0)
    /\ UNCHANGED <<mode, worker, active, waiter, signal, reviewed, history>>

-----------------------------------------------------------------------------
(* The process *)

\* TaskService.stop(): the worker and the executions are cancelled.
Stop ==
    /\ "stop" \in Happens
    /\ mode = "up"
    /\ mode' = "stopping"
    /\ UNCHANGED <<vars, worker, wake, exec, active, waiter, signal, reviewed, history>>

\* The cancellation reaches confirm(), whose handler denies what is pending.
DenyOnStop(t, a) ==
    /\ mode = "stopping"
    /\ waiter[t][a] # 0
    /\ ResolveApproval(t, a, "denied", "running")
    /\ waiter' = [waiter EXCEPT ![t][a] = 0]
    /\ UNCHANGED <<mode, worker, wake, exec, active, signal, reviewed, history>>

\* A crash at any point, or the end of a graceful stop.
Halt ==
    /\ "stop" \in Happens
    /\ mode \in {"up", "stopping"}
    /\ mode' = "down"
    /\ worker' = "asleep"
    /\ wake' = FALSE
    /\ exec' = ForgetTasks
    /\ active' = [t \in Task |-> 0]
    /\ waiter' = NoWaiters
    /\ signal' = [t \in Task |-> "none"]
    /\ UNCHANGED <<vars, reviewed, history>>

\* TaskExecutor.start()
Restart ==
    /\ mode = "down"
    /\ RecoverInterrupted
    /\ mode' = "up"
    /\ wake' = TRUE
    /\ UNCHANGED <<worker, exec, active, waiter, signal, reviewed, history>>

-----------------------------------------------------------------------------
Worker ==
    \/ WorkerWakes
    \/ WorkerRecovers
    \/ \E t \in Task : WorkerClaims(t)
    \/ \E t \in Task, k \in Ordinal : WorkerRegisters(t, k)
    \/ WorkerSleeps

Confirmation(t, k) ==
    \/ \E stale \in BOOLEAN : AskApproval(t, k, stale) \/ TakeAnswer(t, k, stale)
                                \/ AutoResolve(t, k, stale)
    \/ RegisterWaiter(t, k)
    \/ \E opinion \in {"failed", "escalate", "approving", "denying"} : Review(t, k, opinion)

Commit(t, k) ==
    \/ BeginCommit(t, k)
    \/ RunTool(t, k)
    \/ \E result \in {"completed", "failed"} : FinishCommit(t, k, result)
    \/ CheckpointFails(t, k)

Turn(t, k) ==
    \/ EnterTurn(t, k)
    \/ TurnRaises(t, k)
    \/ \E s \in Step : ProposeTool(t, k, s)
    \/ \E status \in TurnStatus \ {"none"} : FinishTurn(t, k, status)
    \/ RecordArtifact(t, k)
    \/ StopAtMilestone(t, k)

Ending(t, k) ==
    \/ Decide(t, k) \/ WriteVerdict(t, k) \/ HandleFailure(t, k)
    \/ WriteFailure(t, k) \/ WriteUnknown(t, k) \/ Close(t, k)

Command(t) ==
    \/ SubmitTask(t) \/ ActivateTask(t) \/ CancelTask(t) \/ PauseTask(t)
    \/ SignalLatch(t) \/ CancelWaiters(t)
    \/ \E ack \in BOOLEAN : ResumeTask(t, ack)
    \/ \E a \in Action, decision \in {"approved", "denied"} : ResolveTask(t, a, decision)

Process ==
    \/ Stop \/ Halt \/ Restart
    \/ \E t \in Task, a \in Action : DenyOnStop(t, a)

ExecNext ==
    \/ Worker
    \/ Process
    \/ \E t \in Task : Command(t) \/ LeaseLapses(t)
    \/ \E t \in Task, k \in Ordinal :
         \/ Turn(t, k) \/ Confirmation(t, k) \/ Commit(t, k) \/ Ending(t, k)
         \/ Heartbeat(t, k) \/ Bridge(t, k) \/ TurnTimesOut(t, k)

ExecSpec == ExecInit /\ [][ExecNext]_execVars

-----------------------------------------------------------------------------
(* Correctness properties of the composition. *)

\* A tool step reaches the registry at most once, across crashes, restarts,
\* lease recoveries, resumes and stale executions, and never without its
\* durable `committing' record.
EffectOnce ==
    \A t \in Task, s \in Step :
        /\ effects[t][s] <= 1
        /\ effects[t][s] = 1 => toolStep[t][s] # "none"

\* A tool that needs confirmation only ever ran under a stored approval.
EffectApproved ==
    \A t \in Task, s \in Step :
        (effects[t][s] > 0 /\ ActionOf[s] \in NeedsApproval) =>
            approval[t][ActionOf[s]] = "approved"

\* A Task is cancelled only if someone asked for it: a pause request stops an
\* execution through the same latch and must not be taken for a cancellation.
CancelledOnlyOnRequest == \A t \in Task : state[t] = "cancelled" => t \in asked

\* A tool step whose checkpoint failed is quarantined: no Task completes while
\* one of its steps is still recorded as committing.
CompletedIsCheckpointed ==
    \A t \in Task, s \in Step : state[t] = "completed" => toolStep[t][s] # "committing"

\* The Task has an execution, whose done callback will wake the worker loop.
Underway(t) == \E k \in Ordinal : exec[t][k].pc \in LivePc

\* What may make a Task claimable without a word to the worker loop: another Task has left
\* its session by a command, which does not wake the loop, or by an execution whose done
\* callback is still to come; or the reviewer has put back a Task whose own execution goes on.
Overlooked(t) ==
    \/ Reviewer = "auto" /\ Underway(t)
    \/ \E u \in Task \ {t} : /\ SessionOf[u] = SessionOf[t]
                            /\ (Underway(u) \/ state[u] \in {"cancelled", "paused"})

\* No wake-up is lost: while fewer executions live than there are slots, the worker does not
\* sleep on a Task that could be claimed, unless its wake event is already set or the Task is
\* one of those that are overlooked.  (The bound: all Tasks have an attempt left.)
NoLostWakeup ==
    LET running == {x \in Task \X Ordinal : exec[x[1]][x[2]].pc \in LivePc} IN
    (/\ mode = "up" /\ worker = "asleep" /\ ~wake
     /\ Cardinality(running) < MaxConcurrency
     /\ \A u \in Task : attemptCount[u] < MaxAttempts)
        => \A t \in Task : Claimable(t) => Overlooked(t)

-----------------------------------------------------------------------------
(* Fairness: coroutines that can go on do go on, and a model run is bounded  *)
(* by max_iterations, so it finishes or stops in the end.  Nothing is assumed *)
(* of clients, of the lease clock or of crashes.                              *)

TurnEnds(t, k) ==
    StopAtMilestone(t, k) \/ \E status \in TurnStatus \ {"none"} : FinishTurn(t, k, status)

Fairness ==
    /\ WF_execVars(Worker)
    /\ WF_execVars(Restart)
    /\ \A t \in Task :
        /\ WF_execVars(SignalLatch(t))
        /\ WF_execVars(CancelWaiters(t))
        /\ \A k \in Ordinal :
            /\ WF_execVars(EnterTurn(t, k))
            /\ SF_execVars(TurnEnds(t, k))
            /\ WF_execVars(Confirmation(t, k))
            /\ WF_execVars(Commit(t, k))
            /\ WF_execVars(Ending(t, k))

FairExecSpec == ExecSpec /\ Fairness

\* As long as Core stays up, no Task stays claimable for ever: no wake-up is
\* lost between the scan and the wait, however full the slots were when the
\* Task became claimable.
QueuedIsClaimed == <>[](mode = "up") => \A t \in Task : []<>~CanClaim(t)

\* As long as Core stays up, an execution that was launched ends and frees its
\* slot, its session and its latch.
ExecutionEnds ==
    <>[](mode = "up") =>
        \A t \in Task, k \in Ordinal :
            [](exec[t][k].pc = "start" => <>(exec[t][k].pc \notin LivePc))

\* While Core is up the worker goes on: what is claimable is claimed, what is
\* launched ends.
WorkGoesOn == QueuedIsClaimed /\ ExecutionEnds

\* The execution of a finished Task ends too, and with it its slot and the
\* turn of its session: the waiter is only a wake-up, the database decides.
FinishedTaskIsReleased ==
    [](mode = "up") =>
        \A t \in Task, k \in Ordinal :
            [](state[t] \in Terminal => <>(exec[t][k].pc \notin LivePc))

=============================================================================
