------------------------- MODULE TaskExecution_proofs -------------------------
(* Machine-checked proofs about the Core process around the Task aggregate. *)
EXTENDS TaskExecution, DurableTask_proofs

-----------------------------------------------------------------------------
(* How one execution moves. *)

Rows == [Task -> [Ordinal -> Execution]]

\* The row of execution k of Task t becomes r; no other execution moves.
RowBecomes(t, k, r) ==
    /\ exec'[t][k] = r
    /\ \A u \in Task, j \in Ordinal : (u # t \/ j # k) => exec'[u][j] = exec[u][j]

\* One execution is replaced by a well-typed row.
LEMMA RowReplaced ==
    ASSUME exec \in Rows, NEW t \in Task, NEW k \in Ordinal, NEW r \in Execution,
           exec' = [exec EXCEPT ![t] = [exec[t] EXCEPT ![k] = r]]
    PROVE  exec' \in Rows /\ RowBecomes(t, k, r)
<1>1. [exec[t] EXCEPT ![k] = r] \in [Ordinal -> Execution]
  BY DEF Rows
<1> QED
  BY <1>1 DEF Rows, RowBecomes

LEMMA GotoMoves ==
    ASSUME exec \in Rows, NEW t \in Task, NEW k \in Ordinal, NEW pc \in Pc, Goto(t, k, pc)
    PROVE  exec' \in Rows /\ RowBecomes(t, k, [exec[t][k] EXCEPT !.pc = pc])
<1>1. exec[t][k] \in Execution
  BY DEF Rows
<1>2. [exec[t][k] EXCEPT !.pc = pc] \in Execution
  BY <1>1 DEF Execution
<1>3. exec' = [exec EXCEPT ![t] = [exec[t] EXCEPT ![k] = [exec[t][k] EXCEPT !.pc = pc]]]
  BY DEF Goto, Rows
<1> QED
  BY <1>2, <1>3, RowReplaced

LEMMA NoExecutionTyped == NoExecution \in Execution
BY DEF NoExecution, Execution, Pc, TurnStatus, Answer

LEMMA LeaveMoves ==
    ASSUME exec \in Rows, NEW t \in Task, NEW k \in Ordinal, NEW pc \in Pc,
           NEW status \in TurnStatus, NEW latch \in BOOLEAN,
           LeaveTurn(t, k, pc, status, latch)
    PROVE  /\ exec' \in Rows
           /\ RowBecomes(t, k, [NoExecution EXCEPT !.pc = pc, !.status = status,
                                  !.latch = latch, !.beat = exec[t][k].beat])
<1>1. exec[t][k] \in Execution
  BY DEF Rows
<1> DEFINE r == [NoExecution EXCEPT !.pc = pc, !.status = status,
                                  !.latch = latch, !.beat = exec[t][k].beat]
<1>2. r \in Execution
  BY <1>1, NoExecutionTyped DEF Execution
<1>3. exec' = [exec EXCEPT ![t] = [exec[t] EXCEPT ![k] = r]]
  BY DEF LeaveTurn, Rows
<1> QED
  BY <1>2, <1>3, RowReplaced

-----------------------------------------------------------------------------
(* The steps outside of a tool call. *)

\* A tool call is being asked about, waited for or run.
AskingPc == {"confirming", "registering", "rejoining", "reviewing", "approving", "denying",
             "waiting", "beginning", "effect", "finishing"}
WaitPc == {"reviewing", "approving", "denying", "waiting"}

\* An execution that goes on where it was, refused at most.
Calm(t, k) ==
    /\ exec'[t][k].pc = exec[t][k].pc
    /\ exec'[t][k].step = exec[t][k].step
    /\ exec'[t][k].answer \in {exec[t][k].answer, "no"}

\* An execution outside of a tool call that moves to another such place.
Apart(t, k) ==
    /\ exec[t][k].pc \notin AskingPc
    /\ exec'[t][k].pc \notin AskingPc
    /\ exec'[t][k].answer \in {exec[t][k].answer, "none"}

Elsewhere(t, k) == Apart(t, k) /\ (exec[t][k].pc = "none" => exec'[t][k].pc = "none")

\* What every step outside of a tool call leaves alone.
Outside ==
    /\ \A t \in Task, k \in Ordinal : Calm(t, k) \/ Elsewhere(t, k)
    /\ \A t \in Task, a \in Action : waiter'[t][a] \in {0, waiter[t][a]}
    /\ effects' = effects

LEMMA CalmIfSame ==
    ASSUME exec' = exec PROVE \A t \in Task, k \in Ordinal : Calm(t, k)
BY DEF Calm

LEMMA OneElsewhere ==
    ASSUME NEW t \in Task, NEW k \in Ordinal, NEW r, RowBecomes(t, k, r),
           exec[t][k].pc \notin AskingPc \cup {"none"}, r.pc \notin AskingPc,
           r.answer \in {exec[t][k].answer, "none"}
    PROVE  \A u \in Task, j \in Ordinal : Calm(u, j) \/ Elsewhere(u, j)
BY DEF RowBecomes, Calm, Elsewhere, Apart

LEMMA OneCalm ==
    ASSUME NEW t \in Task, NEW k \in Ordinal, NEW r, RowBecomes(t, k, r),
           r.pc = exec[t][k].pc, r.step = exec[t][k].step, r.answer = exec[t][k].answer
    PROVE  \A u \in Task, j \in Ordinal : Calm(u, j)
BY DEF RowBecomes, Calm

\* The memory a step of one execution leaves alone.
LEMMA QuietTyped ==
    ASSUME ExecTypeOK, Quiet, exec' \in Rows
    PROVE  ExecTypeOK'
BY DEF ExecTypeOK, Quiet, history, Rows

\* The database decides where the executor goes on.
LEMMA GoingElsewhere ==
    ASSUME ExecTypeOK, NEW t \in Task, NEW k \in Ordinal, NEW pc \in Pc \ AskingPc,
           Goto(t, k, pc), exec[t][k].pc \notin AskingPc \cup {"none"}
    PROVE  exec' \in Rows /\ \A u \in Task, j \in Ordinal : Calm(u, j) \/ Elsewhere(u, j)
<1>1. exec \in Rows /\ exec[t][k] \in Execution
  BY DEF ExecTypeOK, Rows
<1>2. exec' \in Rows /\ RowBecomes(t, k, [exec[t][k] EXCEPT !.pc = pc])
  BY <1>1, GotoMoves
<1> DEFINE r == [exec[t][k] EXCEPT !.pc = pc]
<1>3. r.pc = pc /\ r.answer = exec[t][k].answer
  BY <1>1 DEF Execution
<1> HIDE DEF r
<1>4. RowBecomes(t, k, r)
  BY <1>2 DEF r
<1> QED
  BY <1>2, <1>3, <1>4, OneElsewhere

LEMMA LeavingElsewhere ==
    ASSUME ExecTypeOK, NEW t \in Task, NEW k \in Ordinal, NEW pc \in Pc \ AskingPc,
           NEW status \in TurnStatus, NEW latch \in BOOLEAN,
           LeaveTurn(t, k, pc, status, latch), exec[t][k].pc \notin AskingPc \cup {"none"}
    PROVE  exec' \in Rows /\ \A u \in Task, j \in Ordinal : Calm(u, j) \/ Elsewhere(u, j)
<1>1. exec \in Rows /\ exec[t][k] \in Execution
  BY DEF ExecTypeOK, Rows
<1> DEFINE r == [NoExecution EXCEPT !.pc = pc, !.status = status,
                                  !.latch = latch, !.beat = exec[t][k].beat]
<1>2. exec' \in Rows /\ RowBecomes(t, k, r)
  BY <1>1, LeaveMoves
<1>3. r.pc = pc /\ r.answer = "none"
  BY DEF NoExecution
<1> HIDE DEF r
<1> QED
  BY <1>2, <1>3, OneElsewhere

LEMMA TurnOutside ==
    ASSUME ExecTypeOK, NEW t \in Task, NEW k \in Ordinal,
           Turn(t, k), \A s \in Step : ~ProposeTool(t, k, s)
    PROVE  ExecTypeOK' /\ Outside
<1>e. exec[t][k] \in Execution
  BY DEF ExecTypeOK
<1>q. ASSUME Quiet, exec' \in Rows,
             \A u \in Task, j \in Ordinal : Calm(u, j) \/ Elsewhere(u, j)
      PROVE  ExecTypeOK' /\ Outside
  BY <1>q, QuietTyped DEF Quiet, history, Outside
<1>1. CASE EnterTurn(t, k)
  <2>1. exec[t][k].pc \notin AskingPc \cup {"none"} /\ "turn" \in Pc \ AskingPc
    BY <1>1 DEF EnterTurn, At, AskingPc, Pc, LivePc, TurnPc
  <2> QED
    BY <1>1, <1>q, <2>1, GoingElsewhere DEF EnterTurn
<1>2. CASE TurnRaises(t, k)
  <2>1. /\ exec[t][k].pc \notin AskingPc \cup {"none"} /\ "raised" \in Pc \ AskingPc
        /\ "none" \in TurnStatus /\ exec[t][k].latch \in BOOLEAN
    BY <1>e, <1>2 DEF TurnRaises, At, AskingPc, Pc, LivePc, ClosingPc, TurnStatus, Execution
  <2> QED
    BY <1>2, <1>q, <2>1, LeavingElsewhere DEF TurnRaises
<1>3. CASE \E status \in TurnStatus \ {"none"} : FinishTurn(t, k, status)
  <2>1. PICK status \in TurnStatus : FinishTurn(t, k, status)
    BY <1>3
  <2>2. exec[t][k].pc \notin AskingPc \cup {"none"} /\ "ended" \in Pc \ AskingPc
    BY <2>1 DEF FinishTurn, GoesOn, At, AskingPc, Pc, LivePc, ClosingPc
  <2> QED
    BY <2>1, <1>q, <2>2, LeavingElsewhere DEF FinishTurn
<1>4. CASE RecordArtifact(t, k)
  <2>1. exec' \in Rows
    BY <1>4 DEF RecordArtifact, ExecTypeOK, Rows
  <2> QED
    BY <1>4, <1>q, <2>1, CalmIfSame DEF RecordArtifact
<1>5. CASE StopAtMilestone(t, k)
  <2>1. /\ exec[t][k].pc \notin AskingPc \cup {"none"} /\ "ended" \in Pc \ AskingPc
        /\ "none" \in TurnStatus
    BY <1>5 DEF StopAtMilestone, At, AskingPc, Pc, LivePc, ClosingPc, TurnStatus
  <2> QED
    BY <1>5, <1>q, <2>1, LeavingElsewhere DEF StopAtMilestone
<1> QED
  BY <1>1, <1>2, <1>3, <1>4, <1>5 DEF Turn

LEMMA EndingOutside ==
    ASSUME ExecTypeOK, NEW t \in Task, NEW k \in Ordinal, Ending(t, k)
    PROVE  ExecTypeOK' /\ Outside
<1>e. exec[t][k] \in Execution
  BY DEF ExecTypeOK
<1>q. ASSUME Quiet, exec' \in Rows,
             \A u \in Task, j \in Ordinal : Calm(u, j) \/ Elsewhere(u, j)
      PROVE  ExecTypeOK' /\ Outside
  BY <1>q, QuietTyped DEF Quiet, history, Outside
<1>p. {"closing", "raised", "aborting", "failing", "pausing", "cancelling", "unknown",
       "completing", "over"} \subseteq Pc \ AskingPc
  BY DEF Pc, LivePc, ClosingPc, AskingPc
<1>1. CASE Decide(t, k)
  <2>1. Verdict(t, k) \in Pc \ AskingPc
    BY <1>p DEF Verdict
  <2>2. exec[t][k].pc \notin AskingPc \cup {"none"} /\ exec[t][k].latch \in BOOLEAN
    BY <1>e, <1>1 DEF Decide, At, AskingPc, Execution
  <2>3. "none" \in TurnStatus
    BY DEF TurnStatus
  <2> QED
    BY <1>1, <1>q, <2>1, <2>2, <2>3, LeavingElsewhere DEF Decide
<1>2. CASE WriteVerdict(t, k)
  <2>1. exec[t][k].pc \notin AskingPc \cup {"none"}
    BY <1>2 DEF WriteVerdict, AskingPc
  <2>2. Goto(t, k, "closing") \/ Goto(t, k, "raised")
    BY <1>2 DEF WriteVerdict
  <2>3. Quiet
    BY <1>2 DEF WriteVerdict
  <2> QED
    BY <1>p, <1>q, <2>1, <2>2, <2>3, GoingElsewhere
<1>3. CASE HandleFailure(t, k)
  <2>1. exec[t][k].pc \notin AskingPc \cup {"none"}
    BY <1>3 DEF HandleFailure, At, AskingPc
  <2> DEFINE to == IF state[t] \in Terminal THEN "closing"
                  ELSE IF cancelRequested[t] THEN "aborting"
                  ELSE IF state[t] = "waiting_approval" THEN "closing"
                  ELSE "failing"
  <2>2. Goto(t, k, to) /\ Quiet
    BY <1>3 DEF HandleFailure
  <2>3. to \in Pc \ AskingPc
    BY <1>p
  <2> HIDE DEF to
  <2> QED
    BY <1>q, <2>1, <2>2, <2>3, GoingElsewhere
<1>4. CASE WriteFailure(t, k)
  <2>1. exec[t][k].pc \notin AskingPc \cup {"none"}
    BY <1>4 DEF WriteFailure, AskingPc
  <2> QED
    BY <1>4, <1>p, <1>q, <2>1, GoingElsewhere DEF WriteFailure
<1>5. CASE WriteUnknown(t, k)
  <2>1. exec[t][k].pc \notin AskingPc \cup {"none"}
    BY <1>5 DEF WriteUnknown, At, AskingPc
  <2> QED
    BY <1>5, <1>p, <1>q, <2>1, GoingElsewhere DEF WriteUnknown
<1>6. CASE Close(t, k)
  <2> DEFINE r == [NoExecution EXCEPT !.pc = "over"]
  <2>1. r \in Execution /\ r.pc = "over" /\ r.answer = "none"
    BY <1>p, NoExecutionTyped DEF Execution, NoExecution
  <2>2. exec' = [exec EXCEPT ![t] = [exec[t] EXCEPT ![k] = r]] /\ exec \in Rows
    BY <1>6 DEF Close, ExecTypeOK, Rows
  <2>3. exec[t][k].pc \notin AskingPc \cup {"none"}
    BY <1>6 DEF Close, At, AskingPc
  <2> HIDE DEF r
  <2>4. exec' \in Rows /\ RowBecomes(t, k, r)
    BY <2>1, <2>2, RowReplaced
  <2>5. \A u \in Task, j \in Ordinal : Calm(u, j) \/ Elsewhere(u, j)
    BY <1>p, <2>1, <2>3, <2>4, OneElsewhere
  <2>6. active' \in [Task -> 0..MaxAttempts] /\ wake' \in BOOLEAN
    BY <1>6, ConstantsAssumption DEF Close, ExecTypeOK
  <2> QED
    BY <1>6, <2>4, <2>5, <2>6 DEF Close, Outside, ExecTypeOK, Rows, history
<1> QED
  BY <1>1, <1>2, <1>3, <1>4, <1>5, <1>6 DEF Ending

LEMMA WorkerOutside ==
    ASSUME ExecTypeOK, Worker, \A t \in Task : ~WorkerClaims(t)
    PROVE  ExecTypeOK' /\ Outside
<1>1. CASE WorkerWakes
  <2> DEFINE r == [NoExecution EXCEPT !.pc = "gone"]
  <2>1. r \in Execution /\ r.pc = "gone" /\ r.answer = "none"
    BY NoExecutionTyped DEF Execution, NoExecution, Pc
  <2> HIDE DEF r
  <2>2. exec' = [u \in Task |-> [j \in Ordinal |->
                    IF exec[u][j].pc = "over" THEN r ELSE exec[u][j]]]
    BY <1>1 DEF WorkerWakes, r
  <2>3. exec' \in Rows
    BY <2>1, <2>2 DEF ExecTypeOK, Rows
  <2>4. \A u \in Task, j \in Ordinal : Calm(u, j) \/ Elsewhere(u, j)
    BY <2>1, <2>2 DEF Calm, Elsewhere, Apart, AskingPc
  <2> QED
    BY <1>1, <2>3, <2>4 DEF WorkerWakes, ExecTypeOK, Rows, Outside, history
<1>2. CASE WorkerRecovers \/ WorkerSleeps
  <2>1. exec' = exec /\ waiter' = waiter /\ effects' = effects
    BY <1>2 DEF WorkerRecovers, WorkerSleeps, history
  <2>2. ExecTypeOK'
    BY <1>2 DEF WorkerRecovers, WorkerSleeps, history, ExecTypeOK
  <2> QED
    BY <2>1, <2>2, CalmIfSame DEF Outside
<1>3. ASSUME NEW t \in Task, NEW k \in Ordinal, WorkerRegisters(t, k)
      PROVE  ExecTypeOK' /\ Outside
  <2> DEFINE r == [exec[t][k] EXCEPT !.pc = "start", !.beat = TRUE]
  <2>1. exec[t][k] \in Execution /\ exec \in Rows
    BY DEF ExecTypeOK, Rows
  <2>2. r \in Execution /\ r.pc = "start" /\ r.answer = exec[t][k].answer
    BY <2>1 DEF Execution, Pc, LivePc
  <2>3. exec' = [exec EXCEPT ![t] = [exec[t] EXCEPT ![k] = r]]
    BY <1>3, <2>1 DEF WorkerRegisters, Rows, Execution
  <2> HIDE DEF r
  <2>4. exec' \in Rows /\ RowBecomes(t, k, r)
    BY <2>1, <2>2, <2>3, RowReplaced
  <2>5. exec[t][k].pc \notin AskingPc \cup {"none"} /\ "start" \notin AskingPc
    BY <1>3 DEF WorkerRegisters, At, AskingPc
  <2>6. \A u \in Task, j \in Ordinal : Calm(u, j) \/ Elsewhere(u, j)
    BY <2>2, <2>4, <2>5, OneElsewhere
  <2>7. active' \in [Task -> 0..MaxAttempts]
    BY <1>3, ConstantsAssumption DEF WorkerRegisters, ExecTypeOK, Ordinal
  <2> QED
    BY <1>3, <2>4, <2>6, <2>7 DEF WorkerRegisters, ExecTypeOK, Rows, Outside, history
<1> QED
  BY <1>1, <1>2, <1>3 DEF Worker

LEMMA SignalsOutside ==
    ASSUME ExecTypeOK, NEW t \in Task, NEW k \in Ordinal,
           Heartbeat(t, k) \/ Bridge(t, k) \/ TurnTimesOut(t, k)
    PROVE  ExecTypeOK' /\ Outside
<1>e. exec[t][k] \in Execution /\ exec \in Rows
  BY DEF ExecTypeOK, Rows
<1>q. ASSUME Quiet, exec' \in Rows,
             \A u \in Task, j \in Ordinal : Calm(u, j)
      PROVE  ExecTypeOK' /\ Outside
  BY <1>q, QuietTyped DEF Quiet, history, Outside
<1>1. Quiet
  BY DEF Heartbeat, Bridge, TurnTimesOut, Quiet
<1>2. CASE exec' = exec
  BY <1>1, <1>2, <1>q, <1>e, CalmIfSame
<1>3. CASE exec' = [exec EXCEPT ![t][k].stop = TRUE]
  <2> DEFINE r == [exec[t][k] EXCEPT !.stop = TRUE]
  <2>1. /\ r \in Execution /\ r.pc = exec[t][k].pc /\ r.step = exec[t][k].step
        /\ r.answer = exec[t][k].answer
    BY <1>e DEF Execution
  <2>2. exec' = [exec EXCEPT ![t] = [exec[t] EXCEPT ![k] = r]]
    BY <1>3, <1>e DEF Rows
  <2> HIDE DEF r
  <2>3. exec' \in Rows /\ RowBecomes(t, k, r)
    BY <1>e, <2>1, <2>2, RowReplaced
  <2> QED
    BY <1>1, <1>q, <2>1, <2>3, OneCalm
<1>4. CASE exec' = [exec EXCEPT ![t][k].beat = FALSE]
  <2> DEFINE r == [exec[t][k] EXCEPT !.beat = FALSE]
  <2>1. /\ r \in Execution /\ r.pc = exec[t][k].pc /\ r.step = exec[t][k].step
        /\ r.answer = exec[t][k].answer
    BY <1>e DEF Execution
  <2>2. exec' = [exec EXCEPT ![t] = [exec[t] EXCEPT ![k] = r]]
    BY <1>4, <1>e DEF Rows
  <2> HIDE DEF r
  <2>3. exec' \in Rows /\ RowBecomes(t, k, r)
    BY <1>e, <2>1, <2>2, RowReplaced
  <2> QED
    BY <1>1, <1>q, <2>1, <2>3, OneCalm
<1> QED
  BY <1>2, <1>3, <1>4 DEF Heartbeat, Bridge, TurnTimesOut

LEMMA CommandOutside ==
    ASSUME ExecTypeOK, NEW t \in Task, Command(t) \/ LeaseLapses(t),
           \A a \in Action, d \in {"approved", "denied"} : ~ResolveTask(t, a, d)
    PROVE  ExecTypeOK' /\ Outside
<1>1. CASE LeaseLapses(t)
  <2>1. exec' = exec /\ waiter' = waiter /\ effects' = effects /\ ExecTypeOK'
    BY <1>1 DEF LeaseLapses, memory, history, ExecTypeOK
  <2> QED
    BY <2>1, CalmIfSame DEF Outside
<1>2. CASE \/ SubmitTask(t) \/ ActivateTask(t)
           \/ \E ack \in BOOLEAN : ResumeTask(t, ack)
  <2>1. exec' = exec /\ waiter' = waiter /\ effects' = effects
    BY <1>2 DEF SubmitTask, ActivateTask, ResumeTask, Idle, history
  <2>2. wake' \in BOOLEAN
    <3>1. wake \in BOOLEAN
      BY DEF ExecTypeOK
    <3> QED
      BY <1>2, <3>1, Zenon DEF SubmitTask, ActivateTask, ResumeTask
  <2>3. ExecTypeOK'
    BY <1>2, <2>2 DEF SubmitTask, ActivateTask, ResumeTask, Idle, history, ExecTypeOK
  <2> QED
    BY <2>1, <2>3, CalmIfSame DEF Outside
<1>3. CASE CancelTask(t)
  <2>1. exec' = exec /\ waiter' = waiter /\ effects' = effects
    BY <1>3 DEF CancelTask
  <2>2. ExecTypeOK'
    BY <1>3 DEF CancelTask, ExecTypeOK
  <2> QED
    BY <2>1, <2>2, CalmIfSame DEF Outside
<1>4. CASE PauseTask(t)
  <2>1. exec' = exec /\ waiter' = waiter /\ effects' = effects
    BY <1>4 DEF PauseTask, history
  <2>2. ExecTypeOK'
    BY <1>4 DEF PauseTask, ExecTypeOK, history
  <2> QED
    BY <2>1, <2>2, CalmIfSame DEF Outside
<1>5. CASE SignalLatch(t)
  <2> DEFINE r(k) == [exec[t][k] EXCEPT !.latch = TRUE]
  <2>e. \A k \in Ordinal : exec[t][k] \in Execution
    BY DEF ExecTypeOK
  <2>1. \A k \in Ordinal : /\ r(k) \in Execution
                           /\ r(k).pc = exec[t][k].pc /\ r(k).step = exec[t][k].step
                           /\ r(k).answer = exec[t][k].answer
    BY <2>e DEF Execution
  <2>2. /\ exec' \in Rows
        /\ \A j \in Ordinal : \/ exec'[t][j] = exec[t][j]
                              \/ exec'[t][j] = r(j)
        /\ \A u \in Task \ {t}, j \in Ordinal : exec'[u][j] = exec[u][j]
    BY <1>5, <2>1 DEF SignalLatch, ExecTypeOK, Rows
  <2> HIDE DEF r
  <2>3. \A u \in Task, j \in Ordinal : Calm(u, j)
    BY <2>1, <2>2 DEF Calm
  <2> QED
    BY <1>5, <2>2, <2>3 DEF SignalLatch, Outside, ExecTypeOK, Rows, history
<1>6. CASE CancelWaiters(t)
  <2> DEFINE r(k) == [exec[t][k] EXCEPT !.answer = "no"]
  <2>e. \A k \in Ordinal : exec[t][k] \in Execution
    BY DEF ExecTypeOK
  <2>1. \A k \in Ordinal : /\ r(k) \in Execution
                           /\ r(k).pc = exec[t][k].pc /\ r(k).step = exec[t][k].step
                           /\ r(k).answer = "no"
    BY <2>e DEF Execution, Answer
  <2>2. /\ exec' \in Rows
        /\ \A j \in Ordinal : \/ exec'[t][j] = exec[t][j]
                              \/ exec'[t][j] = r(j)
        /\ \A u \in Task \ {t}, j \in Ordinal : exec'[u][j] = exec[u][j]
    BY <1>6, <2>1 DEF CancelWaiters, ExecTypeOK, Rows
  <2> HIDE DEF r
  <2>3. \A u \in Task, j \in Ordinal : Calm(u, j)
    BY <2>1, <2>2 DEF Calm
  <2>4. /\ waiter' \in [Task -> [Action -> 0..MaxAttempts]]
        /\ \A u \in Task, a \in Action : waiter'[u][a] \in {0, waiter[u][a]}
    BY <1>6, ConstantsAssumption DEF CancelWaiters, ExecTypeOK
  <2> QED
    BY <1>6, <2>2, <2>3, <2>4 DEF CancelWaiters, Outside, ExecTypeOK, Rows, history
<1> QED
  BY <1>1, <1>2, <1>3, <1>4, <1>5, <1>6 DEF Command

LEMMA ProcessOutside ==
    ASSUME ExecTypeOK, Process, ~Halt
    PROVE  ExecTypeOK' /\ Outside
<1>1. CASE Stop \/ Restart
  <2>1. exec' = exec /\ waiter' = waiter /\ effects' = effects /\ ExecTypeOK'
    BY <1>1 DEF Stop, Restart, history, ExecTypeOK
  <2> QED
    BY <2>1, CalmIfSame DEF Outside
<1>2. ASSUME NEW t \in Task, NEW a \in Action, DenyOnStop(t, a)
      PROVE  ExecTypeOK' /\ Outside
  <2>1. exec' = exec /\ effects' = effects
    BY <1>2 DEF DenyOnStop, history
  <2>2. /\ waiter' \in [Task -> [Action -> 0..MaxAttempts]]
        /\ \A u \in Task, b \in Action : waiter'[u][b] \in {0, waiter[u][b]}
    BY <1>2, ConstantsAssumption DEF DenyOnStop, ExecTypeOK
  <2> QED
    BY <1>2, <2>1, <2>2, CalmIfSame DEF DenyOnStop, Outside, ExecTypeOK, history
<1> QED
  BY <1>1, <1>2 DEF Process

-----------------------------------------------------------------------------
(* The executor uses the repository as the repository promises: every step of  *)
(* the process is one transaction of DurableTask or touches no row.            *)

\* A Task that waits without a lease waits for its next claim: recovery took
\* its lease when Core started, and no execution of it is left.
Detached ==
    \A t \in Task : (state[t] = "waiting_approval" /\ lease[t] = "none") =>
                        \A k \in Ordinal : exec[t][k].pc = "none"

\* A registered waiter is an execution that waits for exactly that action.
WaitersWait ==
    \A t \in Task, a \in Action : waiter[t][a] # 0 =>
        /\ exec[t][waiter[t][a]].pc \in WaitPc
        /\ exec[t][waiter[t][a]].step \in Step
        /\ ActionOf[exec[t][waiter[t][a]].step] = a

\* An execution inside a tool call has the step it is about.
StepKnown ==
    \A t \in Task, k \in Ordinal : exec[t][k].pc \in AskingPc => exec[t][k].step \in Step

LEMMA AskedIsAction ==
    ASSUME StepKnown, NEW t \in Task, NEW k \in Ordinal, exec[t][k].pc \in AskingPc
    PROVE  exec[t][k].step \in Step /\ ActionAsked(t, k) \in Action
BY ExecutionAssumption DEF StepKnown, ActionAsked

TaskStep(t) == ClientCommand(t) \/ ExecutorWrite(t) \/ Decision(t) \/ LeaseExpires(t)

\* The transactions a running Core makes.
OnlineNext == RecoverExpiredLeases \/ \E t \in Task : TaskStep(t)

\* Going on in place is only offered to a Task that still has its lease.
LEMMA ResumedInPlace ==
    ASSUME NEW t \in Task, NEW a \in Action, NEW d \in {"approved", "denied"}, NEW r,
           ResolveApproval(t, a, d, r),
           r = "queued" \/ (r = "running" /\ lease[t] # "none")
    PROVE  TaskStep(t)
BY DEF TaskStep, Decision, ResumeStates

LEMMA WaiterHasLease ==
    ASSUME ExecTypeOK, Detached, WaitersWait, NEW t \in Task, NEW a \in Action,
           state[t] = "waiting_approval", waiter[t][a] # 0
    PROVE  lease[t] # "none"
<1>1. waiter[t][a] \in Ordinal
  BY ConstantsAssumption DEF ExecTypeOK, Ordinal
<1>2. exec[t][waiter[t][a]].pc # "none"
  BY DEF WaitersWait, WaitPc
<1> QED
  BY <1>1, <1>2 DEF Detached

LEMMA VerdictTargets ==
    /\ VerdictTarget["pausing"] = "paused"
    /\ VerdictTarget["cancelling"] = "cancelled"
    /\ VerdictTarget["completing"] = "completed"
    /\ VerdictTarget["aborting"] = "cancelled"
    /\ VerdictTarget["failing"] = "failed"
BY DEF VerdictTarget

LEMMA StepsAreTransactions ==
    ASSUME TypeOK, ExecTypeOK, Detached, WaitersWait, StepKnown, ExecNext, ~Restart
    PROVE  OnlineNext \/ UNCHANGED vars
<1>1. CASE Worker
  <2>1. CASE WorkerRecovers
    BY <2>1 DEF WorkerRecovers, OnlineNext
  <2>2. ASSUME NEW t \in Task, WorkerClaims(t) PROVE OnlineNext
    BY <2>2 DEF WorkerClaims, OnlineNext, TaskStep, ExecutorWrite
  <2> QED
    BY <1>1, <2>1, <2>2 DEF Worker, WorkerWakes, WorkerRegisters, WorkerSleeps
<1>2. CASE Process
  <2>1. ASSUME NEW t \in Task, NEW a \in Action, DenyOnStop(t, a) PROVE OnlineNext
    <3>1. ResolveApproval(t, a, "denied", "running") /\ lease[t] # "none"
      BY <2>1, WaiterHasLease DEF DenyOnStop, ResolveApproval
    <3> QED
      BY <3>1, ResumedInPlace DEF OnlineNext
  <2> QED
    BY <1>2, <2>1 DEF Process, Stop, Halt
<1>3. ASSUME NEW t \in Task, Command(t) PROVE OnlineNext \/ UNCHANGED vars
  <2>1. ASSUME NEW a \in Action, NEW d \in {"approved", "denied"}, ResolveTask(t, a, d)
        PROVE  OnlineNext
    <3>1. ResolveApproval(t, a, d, ResumeStateFor(t, a)) /\ state[t] = "waiting_approval"
      BY <2>1 DEF ResolveTask, ResolveApproval
    <3>2. \/ ResumeStateFor(t, a) = "queued"
          \/ ResumeStateFor(t, a) = "running" /\ lease[t] # "none"
      BY <3>1, WaiterHasLease DEF ResumeStateFor
    <3> QED
      BY <3>1, <3>2, ResumedInPlace DEF OnlineNext
  <2> QED
    BY <1>3, <2>1
    DEF Command, SubmitTask, ActivateTask, CancelTask, PauseTask, SignalLatch, CancelWaiters,
        ResumeTask, OnlineNext, TaskStep, ClientCommand
<1>4. ASSUME NEW t \in Task, LeaseLapses(t) PROVE OnlineNext
  BY <1>4 DEF LeaseLapses, OnlineNext, TaskStep
<1>5. ASSUME NEW t \in Task, NEW k \in Ordinal, Turn(t, k)
      PROVE  OnlineNext \/ UNCHANGED vars
  BY <1>5 DEF Turn, EnterTurn, TurnRaises, ProposeTool, FinishTurn, RecordArtifact,
              StopAtMilestone, OnlineNext, TaskStep, ExecutorWrite
<1>6. ASSUME NEW t \in Task, NEW k \in Ordinal, Confirmation(t, k)
      PROVE  OnlineNext \/ UNCHANGED vars
  <2>1. ASSUME NEW stale \in BOOLEAN, AskApproval(t, k, stale)
        PROVE  OnlineNext \/ UNCHANGED vars
    <3>1. UNCHANGED vars \/ RequestApproval(t, ActionAsked(t, k))
      BY <2>1 DEF AskApproval
    <3>2. ActionAsked(t, k) \in Action
      BY <2>1, AskedIsAction DEF AskApproval, At, AskingPc
    <3> QED
      BY <3>1, <3>2 DEF OnlineNext, TaskStep, ExecutorWrite
  <2>2. ASSUME NEW stale \in BOOLEAN, AutoResolve(t, k, stale)
        PROVE  OnlineNext \/ UNCHANGED vars
    <3> DEFINE a == ActionAsked(t, k)
               d == IF exec[t][k].pc = "approving" THEN "approved" ELSE "denied"
    <3>1. a \in Action
      BY <2>2, AskedIsAction DEF AutoResolve, AskingPc
    <3>2. exec[t][k].pc # "none" /\ d \in {"approved", "denied"}
      BY <2>2 DEF AutoResolve
    <3>3. \/ UNCHANGED vars
          \/ /\ state[t] = "waiting_approval"
             /\ ResolveApproval(t, a, d, ResumeStateFor(t, a))
      BY <2>2 DEF AutoResolve
    <3> HIDE DEF a, d
    <3>4. ResumeStateFor(t, a) \in {"queued", "running"}
      BY DEF ResumeStateFor
    <3>5. state[t] = "waiting_approval" => lease[t] # "none"
      BY <3>2 DEF Detached
    <3> QED
      BY <3>1, <3>2, <3>3, <3>4, <3>5, ResumedInPlace DEF OnlineNext
  <2> QED
    BY <1>6, <2>1, <2>2 DEF Confirmation, TakeAnswer, RegisterWaiter, Review
<1>7. ASSUME NEW t \in Task, NEW k \in Ordinal, Commit(t, k)
      PROVE  OnlineNext \/ UNCHANGED vars
  <2>1. CASE BeginCommit(t, k)
    <3>1. exec[t][k].step \in Step
      BY <2>1, AskedIsAction DEF BeginCommit, At, AskingPc
    <3> QED
      BY <2>1, <3>1 DEF BeginCommit, OnlineNext, TaskStep, ExecutorWrite
  <2>2. ASSUME NEW result \in {"completed", "failed"}, FinishCommit(t, k, result)
        PROVE  OnlineNext \/ UNCHANGED vars
    <3>1. exec[t][k].step \in Step
      BY <2>2, AskedIsAction DEF FinishCommit, At, AskingPc
    <3> QED
      BY <2>2, <3>1 DEF FinishCommit, OnlineNext, TaskStep, ExecutorWrite
  <2> QED
    BY <1>7, <2>1, <2>2 DEF Commit, RunTool, CheckpointFails
<1>8. ASSUME NEW t \in Task, NEW k \in Ordinal, Ending(t, k)
      PROVE  OnlineNext \/ UNCHANGED vars
  <2> DEFINE target == VerdictTarget[exec[t][k].pc]
             newPhase == IF target = "paused" THEN "manual_pause" ELSE ""
  <2>1. ASSUME target \in TransitionTarget, Transition(t, target, newPhase)
        PROVE  OnlineNext
    BY <2>1 DEF OnlineNext, TaskStep, ExecutorWrite
  <2>2. CASE WriteVerdict(t, k)
    <3>1. target \in TransitionTarget
      BY <2>2, VerdictTargets DEF WriteVerdict, TransitionTarget
    <3>2. UNCHANGED vars \/ Transition(t, target, newPhase)
      BY <2>2 DEF WriteVerdict
    <3> QED
      BY <3>1, <3>2, <2>1
  <2>3. CASE WriteFailure(t, k)
    <3>1. target \in TransitionTarget /\ newPhase = ""
      BY <2>3, VerdictTargets DEF WriteFailure, TransitionTarget
    <3>2. UNCHANGED vars \/ Transition(t, target, "")
      BY <2>3 DEF WriteFailure
    <3> QED
      BY <3>1, <3>2, <2>1
  <2>4. CASE WriteUnknown(t, k)
    BY <2>4 DEF WriteUnknown, OnlineNext, TaskStep, ExecutorWrite
  <2> QED
    BY <1>8, <2>2, <2>3, <2>4 DEF Ending, Decide, HandleFailure, Close
<1>9. ASSUME NEW t \in Task, NEW k \in Ordinal,
             Heartbeat(t, k) \/ Bridge(t, k) \/ TurnTimesOut(t, k)
      PROVE  OnlineNext \/ UNCHANGED vars
  BY <1>9 DEF Heartbeat, Bridge, TurnTimesOut, OnlineNext, TaskStep, ExecutorWrite
<1> QED
  BY <1>1, <1>2, <1>3, <1>4, <1>5, <1>6, <1>7, <1>8, <1>9 DEF ExecNext

-----------------------------------------------------------------------------
(* The inductive invariant of the tool step boundary. *)

\* While Core is down no execution exists.
DownIsEmpty ==
    mode = "down" => \A t \in Task, k \in Ordinal : exec[t][k].pc = "none"

\* An attempt that was not claimed yet has no execution.
Unclaimed ==
    \A t \in Task, k \in Ordinal : k > attemptCount[t] => exec[t][k].pc = "none"

Approved(t, s) == approval[t][ActionOf[s]] = "approved"

\* A positive answer is only given to an execution that waits for it, and only
\* for a stored approval.
YesIsApproved ==
    \A t \in Task, k \in Ordinal : exec[t][k].answer = "yes" =>
        exec[t][k].pc \in WaitPc /\ Approved(t, exec[t][k].step)

\* Past the confirmation, a tool that needs one has its approval.
GoIsApproved ==
    \A t \in Task, k \in Ordinal :
        (exec[t][k].pc \in {"beginning", "effect"} /\ ActionOf[exec[t][k].step] \in NeedsApproval)
            => Approved(t, exec[t][k].step)

\* About to run a tool: the step is recorded and was not run.
Recorded(t, k) ==
    exec[t][k].pc = "effect" =>
        effects[t][exec[t][k].step] = 0 /\ toolStep[t][exec[t][k].step] # "none"

\* One execution at most is about to run a given step.
OneRuns ==
    \A t \in Task, j, k \in Ordinal :
        (exec[t][j].pc = "effect" /\ exec[t][k].pc = "effect"
            /\ exec[t][j].step = exec[t][k].step) => j = k

StepInv ==
    /\ StepKnown
    /\ WaitersWait
    /\ YesIsApproved
    /\ GoIsApproved
    /\ \A t \in Task, k \in Ordinal : Recorded(t, k)
    /\ OneRuns
    /\ EffectOnce
    /\ EffectApproved

\* The stored approval outlives every transaction, and so does the record of a
\* step.
LEMMA ApprovedStays ==
    ASSUME ApprovalsOnce, NEW t \in Task, NEW s \in Step, Approved(t, s)
    PROVE  approval'[t][ActionOf[s]] = "approved"
BY ExecutionAssumption DEF ApprovalsOnce, Approved

LEMMA RecordStays ==
    ASSUME StepsOnce, NEW t \in Task, NEW s \in Step, toolStep[t][s] # "none"
    PROVE  toolStep'[t][s] # "none"
BY DEF StepsOnce

\* What was run stays approved and recorded while no tool is run.
LEMMA EffectsKeep ==
    ASSUME ApprovalsOnce, StepsOnce, EffectOnce, EffectApproved, ExecTypeOK,
           effects' = effects
    PROVE  EffectOnce' /\ EffectApproved'
<1>1. EffectOnce'
  BY RecordStays DEF EffectOnce
<1>2. EffectApproved'
  BY ApprovedStays DEF EffectApproved, Approved
<1> QED
  BY <1>1, <1>2

\* Steps outside of a tool call keep the invariant.
LEMMA ApartKeeps ==
    ASSUME ExecTypeOK, StepInv, ApprovalsOnce, StepsOnce,
           \A t \in Task, k \in Ordinal : Calm(t, k) \/ Apart(t, k),
           \A t \in Task, a \in Action : waiter'[t][a] \in {0, waiter[t][a]},
           effects' = effects
    PROVE  StepInv'
<1> USE DEF StepInv
<1>1. StepKnown'
  BY DEF StepKnown, Calm, Apart
<1>2. WaitersWait'
  <2> SUFFICES ASSUME NEW t \in Task, NEW a \in Action, waiter'[t][a] # 0
               PROVE  /\ exec'[t][waiter'[t][a]].pc \in WaitPc
                      /\ exec'[t][waiter'[t][a]].step \in Step
                      /\ ActionOf[exec'[t][waiter'[t][a]].step] = a
    BY DEF WaitersWait
  <2>1. waiter'[t][a] = waiter[t][a] /\ waiter[t][a] \in Ordinal
    BY ConstantsAssumption DEF ExecTypeOK, Ordinal
  <2>2. exec[t][waiter[t][a]].pc \in WaitPc /\ exec[t][waiter[t][a]].pc \in AskingPc
    BY <2>1 DEF WaitersWait, WaitPc, AskingPc
  <2>3. Calm(t, waiter[t][a])
    BY <2>1, <2>2 DEF Apart
  <2> QED
    BY <2>1, <2>2, <2>3 DEF WaitersWait, Calm
<1>3. YesIsApproved'
  <2> SUFFICES ASSUME NEW t \in Task, NEW k \in Ordinal, exec'[t][k].answer = "yes"
               PROVE  /\ exec'[t][k].pc \in WaitPc
                      /\ approval'[t][ActionOf[exec'[t][k].step]] = "approved"
    BY DEF YesIsApproved, Approved
  <2>1. exec[t][k].answer = "yes"
    BY DEF Calm, Apart
  <2>2. exec[t][k].pc \in WaitPc /\ Approved(t, exec[t][k].step) /\ exec[t][k].pc \in AskingPc
    BY <2>1 DEF YesIsApproved, WaitPc, AskingPc
  <2>3. exec[t][k].step \in Step
    BY <2>2 DEF StepKnown
  <2> QED
    BY <2>2, <2>3, ApprovedStays DEF Calm, Apart
<1>4. GoIsApproved'
  <2> SUFFICES ASSUME NEW t \in Task, NEW k \in Ordinal,
                      exec'[t][k].pc \in {"beginning", "effect"},
                      ActionOf[exec'[t][k].step] \in NeedsApproval
               PROVE  approval'[t][ActionOf[exec'[t][k].step]] = "approved"
    BY DEF GoIsApproved, Approved
  <2>1. exec'[t][k].pc = exec[t][k].pc /\ exec'[t][k].step = exec[t][k].step
    BY DEF Calm, Apart, AskingPc
  <2>2. Approved(t, exec[t][k].step) /\ exec[t][k].step \in Step
    BY <2>1 DEF GoIsApproved, StepKnown, AskingPc
  <2> QED
    BY <2>1, <2>2, ApprovedStays
<1>5. ASSUME NEW t \in Task, NEW k \in Ordinal PROVE Recorded(t, k)'
  <2> SUFFICES ASSUME exec'[t][k].pc = "effect"
               PROVE  /\ effects'[t][exec'[t][k].step] = 0
                      /\ toolStep'[t][exec'[t][k].step] # "none"
    BY DEF Recorded
  <2>1. exec'[t][k].pc = exec[t][k].pc /\ exec'[t][k].step = exec[t][k].step
    BY DEF Calm, Apart, AskingPc
  <2>2. Recorded(t, k) /\ exec[t][k].step \in Step
    BY <2>1 DEF StepKnown, AskingPc
  <2> QED
    BY <2>1, <2>2, RecordStays DEF Recorded
<1>6. OneRuns'
  BY DEF OneRuns, Calm, Apart, AskingPc
<1>7. EffectOnce' /\ EffectApproved'
  BY EffectsKeep
<1> QED
  BY <1>1, <1>2, <1>3, <1>4, <1>5, <1>6, <1>7

-----------------------------------------------------------------------------
(* The steps inside a tool call. *)

\* Execution k of t becomes r; a waiter that is left was there before and still
\* waits for the same action, or is k.
LEMMA RowKeepsCalls ==
    ASSUME ExecTypeOK, StepInv, ApprovalsOnce, StepsOnce,
           NEW t \in Task, NEW k \in Ordinal, NEW r \in Execution, RowBecomes(t, k, r),
           r.pc \in AskingPc => r.step \in Step,
           r.answer = "yes" =>
                r.pc \in WaitPc /\ approval'[t][ActionOf[r.step]] = "approved",
           (r.pc \in {"beginning", "effect"} /\ ActionOf[r.step] \in NeedsApproval) =>
                approval'[t][ActionOf[r.step]] = "approved",
           \A u \in Task, b \in Action :
              \/ waiter'[u][b] = 0
              \/ waiter'[u][b] = waiter[u][b] /\ (u # t \/ waiter[u][b] # k)
              \/ /\ u = t /\ waiter'[u][b] = k
                 /\ r.pc \in WaitPc /\ r.step \in Step /\ ActionOf[r.step] = b
    PROVE  StepKnown' /\ WaitersWait' /\ YesIsApproved' /\ GoIsApproved'
<1> USE DEF StepInv
<1>r. /\ exec'[t][k] = r
      /\ \A u \in Task, j \in Ordinal : (u # t \/ j # k) => exec'[u][j] = exec[u][j]
  BY DEF RowBecomes
<1>1. StepKnown'
  BY <1>r DEF StepKnown
<1>2. WaitersWait'
  <2> SUFFICES ASSUME NEW u \in Task, NEW a \in Action, waiter'[u][a] # 0
               PROVE  /\ exec'[u][waiter'[u][a]].pc \in WaitPc
                      /\ exec'[u][waiter'[u][a]].step \in Step
                      /\ ActionOf[exec'[u][waiter'[u][a]].step] = a
    BY DEF WaitersWait
  <2>1. CASE waiter'[u][a] = waiter[u][a] /\ (u # t \/ waiter[u][a] # k)
    <3>1. waiter[u][a] \in Ordinal
      BY <2>1, ConstantsAssumption DEF ExecTypeOK, Ordinal
    <3>2. exec'[u][waiter[u][a]] = exec[u][waiter[u][a]]
      BY <3>1, <2>1, <1>r
    <3> QED
      BY <2>1, <3>1, <3>2 DEF WaitersWait
  <2>2. CASE /\ u = t /\ waiter'[u][a] = k
             /\ r.pc \in WaitPc /\ r.step \in Step /\ ActionOf[r.step] = a
    BY <2>2, <1>r
  <2> QED
    BY <2>1, <2>2
<1>3. YesIsApproved'
  <2> SUFFICES ASSUME NEW u \in Task, NEW j \in Ordinal, exec'[u][j].answer = "yes"
               PROVE  /\ exec'[u][j].pc \in WaitPc
                      /\ approval'[u][ActionOf[exec'[u][j].step]] = "approved"
    BY DEF YesIsApproved, Approved
  <2>1. CASE u = t /\ j = k
    BY <2>1, <1>r
  <2>2. CASE u # t \/ j # k
    <3>1. exec'[u][j] = exec[u][j]
      BY <2>2, <1>r
    <3>2. exec[u][j].pc \in WaitPc /\ Approved(u, exec[u][j].step) /\ exec[u][j].pc \in AskingPc
      BY <3>1 DEF YesIsApproved, WaitPc, AskingPc
    <3>3. exec[u][j].step \in Step
      BY <3>2 DEF StepKnown
    <3> QED
      BY <3>1, <3>2, <3>3, ApprovedStays
  <2> QED
    BY <2>1, <2>2
<1>4. GoIsApproved'
  <2> SUFFICES ASSUME NEW u \in Task, NEW j \in Ordinal,
                      exec'[u][j].pc \in {"beginning", "effect"},
                      ActionOf[exec'[u][j].step] \in NeedsApproval
               PROVE  approval'[u][ActionOf[exec'[u][j].step]] = "approved"
    BY DEF GoIsApproved, Approved
  <2>1. CASE u = t /\ j = k
    BY <2>1, <1>r
  <2>2. CASE u # t \/ j # k
    <3>1. exec'[u][j] = exec[u][j]
      BY <2>2, <1>r
    <3>2. Approved(u, exec[u][j].step) /\ exec[u][j].step \in Step
      BY <3>1 DEF GoIsApproved, StepKnown, AskingPc
    <3> QED
      BY <3>1, <3>2, ApprovedStays
  <2> QED
    BY <2>1, <2>2
<1> QED
  BY <1>1, <1>2, <1>3, <1>4

\* Execution k of t becomes r, which is not about to run a tool; a waiter that
\* is left was there before and still waits for the same action, or is k.
LEMMA RowKeeps ==
    ASSUME ExecTypeOK, StepInv, ApprovalsOnce, StepsOnce,
           NEW t \in Task, NEW k \in Ordinal, NEW r \in Execution, RowBecomes(t, k, r),
           effects' = effects,
           r.pc \in AskingPc => r.step \in Step,
           r.pc # "effect",
           r.answer = "yes" =>
                r.pc \in WaitPc /\ approval'[t][ActionOf[r.step]] = "approved",
           (r.pc = "beginning" /\ ActionOf[r.step] \in NeedsApproval) =>
                approval'[t][ActionOf[r.step]] = "approved",
           \A u \in Task, b \in Action :
              \/ waiter'[u][b] = 0
              \/ waiter'[u][b] = waiter[u][b] /\ (u # t \/ waiter[u][b] # k)
              \/ /\ u = t /\ waiter'[u][b] = k
                 /\ r.pc \in WaitPc /\ r.step \in Step /\ ActionOf[r.step] = b
    PROVE  StepInv'
<1> USE DEF StepInv
<1>r. /\ exec'[t][k] = r
      /\ \A u \in Task, j \in Ordinal : (u # t \/ j # k) => exec'[u][j] = exec[u][j]
  BY DEF RowBecomes
<1>1. (r.pc \in {"beginning", "effect"} /\ ActionOf[r.step] \in NeedsApproval) =>
            approval'[t][ActionOf[r.step]] = "approved"
  OBVIOUS
<1>2. StepKnown' /\ WaitersWait' /\ YesIsApproved' /\ GoIsApproved'
  BY <1>1, RowKeepsCalls
<1>3. ASSUME NEW u \in Task, NEW j \in Ordinal PROVE Recorded(u, j)'
  <2> SUFFICES ASSUME exec'[u][j].pc = "effect"
               PROVE  /\ effects'[u][exec'[u][j].step] = 0
                      /\ toolStep'[u][exec'[u][j].step] # "none"
    BY DEF Recorded
  <2>1. exec'[u][j] = exec[u][j]
    BY <1>r
  <2>2. Recorded(u, j) /\ exec[u][j].step \in Step
    BY <2>1 DEF StepKnown, AskingPc
  <2> QED
    BY <2>1, <2>2, RecordStays DEF Recorded
<1>4. OneRuns'
  BY <1>r DEF OneRuns
<1>5. EffectOnce' /\ EffectApproved'
  BY EffectsKeep
<1> QED
  BY <1>2, <1>3, <1>4, <1>5

\* An execution that is not a registered waiter moves; no waiter changes.
LEMMA NotWaiting ==
    ASSUME ExecTypeOK, WaitersWait, NEW t \in Task, NEW k \in Ordinal,
           exec[t][k].pc \notin WaitPc
    PROVE  \A a \in Action : waiter[t][a] # k
<1> SUFFICES ASSUME NEW a \in Action, waiter[t][a] = k PROVE FALSE
  OBVIOUS
<1>1. k # 0
  BY DEF Ordinal
<1> QED
  BY <1>1 DEF WaitersWait

\* No execution comes into being.
NoneStays ==
    \A t \in Task, k \in Ordinal : exec[t][k].pc = "none" => exec'[t][k].pc = "none"

LEMMA ProposalKeeps ==
    ASSUME ExecTypeOK, StepInv, ApprovalsOnce, StepsOnce,
           NEW t \in Task, NEW k \in Ordinal, NEW s \in Step, ProposeTool(t, k, s)
    PROVE  ExecTypeOK' /\ StepInv' /\ NoneStays
<1>1. exec[t][k] \in Execution /\ exec \in Rows
  BY DEF ExecTypeOK, Rows
<1> DEFINE pc == IF ActionOf[s] \in NeedsApproval THEN "confirming" ELSE "beginning"
           r == [exec[t][k] EXCEPT !.step = s, !.pc = pc]
<1>2. pc \in Pc
  BY DEF Pc, LivePc, TurnPc
<1>3. r \in Execution /\ r.pc = pc /\ r.step = s /\ r.answer = exec[t][k].answer
  BY <1>1, <1>2 DEF Execution
<1>4. exec' = [exec EXCEPT ![t] = [exec[t] EXCEPT ![k] = r]]
  BY <1>1 DEF ProposeTool, Rows, Execution
<1>5. exec[t][k].pc = "turn" /\ Quiet
  BY DEF ProposeTool, GoesOn, At
<1>6. exec[t][k].answer # "yes"
  BY <1>5 DEF StepInv, YesIsApproved, WaitPc
<1>7. \A a \in Action : waiter[t][a] # k
  BY <1>5, NotWaiting DEF StepInv, WaitPc
<1> HIDE DEF r
<1>8. exec' \in Rows /\ RowBecomes(t, k, r)
  BY <1>1, <1>3, <1>4, RowReplaced
<1>9. ExecTypeOK'
  BY <1>5, <1>8, QuietTyped
<1>10. StepInv'
  <2>1. effects' = effects /\ waiter' = waiter
    BY <1>5 DEF Quiet, history
  <2> QED
    BY <1>3, <1>6, <1>7, <1>8, <2>1, RowKeeps
<1>11. NoneStays
  BY <1>5, <1>8 DEF NoneStays, RowBecomes
<1> QED
  BY <1>9, <1>10, <1>11

\* An execution in a tool call that nobody waits for goes on at pc.
LEMMA GoingOn ==
    ASSUME ExecTypeOK, StepInv, ApprovalsOnce, StepsOnce,
           NEW t \in Task, NEW k \in Ordinal, exec[t][k].pc \in AskingPc \ WaitPc,
           NEW pc \in Pc \ {"effect"}, Goto(t, k, pc), Quiet,
           (pc = "beginning" /\ ActionAsked(t, k) \in NeedsApproval) =>
                approval'[t][ActionAsked(t, k)] = "approved"
    PROVE  ExecTypeOK' /\ StepInv' /\ NoneStays
<1>1. exec[t][k] \in Execution /\ exec \in Rows
  BY DEF ExecTypeOK, Rows
<1> DEFINE r == [exec[t][k] EXCEPT !.pc = pc]
<1>2. /\ r \in Execution /\ r.pc = pc /\ r.step = exec[t][k].step
      /\ r.answer = exec[t][k].answer
  BY <1>1 DEF Execution
<1>3. exec' \in Rows /\ RowBecomes(t, k, r)
  BY <1>1, GotoMoves
<1>4. exec[t][k].answer # "yes" /\ exec[t][k].step \in Step
  BY DEF StepInv, YesIsApproved, StepKnown
<1>5. \A a \in Action : waiter[t][a] # k
  BY NotWaiting DEF StepInv
<1> HIDE DEF r
<1>6. ExecTypeOK'
  BY <1>3, QuietTyped
<1>7. StepInv'
  <2>1. effects' = effects /\ waiter' = waiter
    BY DEF Quiet, history
  <2> QED
    BY <1>2, <1>3, <1>4, <1>5, <2>1, RowKeeps DEF ActionAsked
<1>8. NoneStays
  BY <1>3 DEF NoneStays, RowBecomes, AskingPc
<1> QED
  BY <1>6, <1>7, <1>8

LEMMA AnswerDecides ==
    ASSUME NEW t, NEW k, NEW approved \in BOOLEAN, NEW stale \in BOOLEAN
    PROVE  /\ AfterConfirm(t, k, approved, stale) \in {"beginning", "turn"}
           /\ AfterConfirm(t, k, approved, stale) = "beginning" => approved
BY DEF AfterConfirm

LEMMA AskingKeeps ==
    ASSUME TypeOK, ExecTypeOK, StepInv, ApprovalsOnce, StepsOnce,
           NEW t \in Task, NEW k \in Ordinal, NEW stale \in BOOLEAN, AskApproval(t, k, stale)
    PROVE  ExecTypeOK' /\ StepInv' /\ NoneStays
<1> DEFINE a == ActionAsked(t, k)
           outcome == ConfirmOutcome(t, a)
           pc == CASE outcome = "requested" -> "registering"
                   [] outcome = "pending" -> "rejoining"
                   [] OTHER -> AfterConfirm(t, k, outcome = "approved", stale)
<1>1. exec[t][k].pc = "confirming" /\ Quiet /\ Goto(t, k, pc)
  BY DEF AskApproval, At
<1>2. a \in Action
  BY <1>1, AskedIsAction DEF StepInv, AskingPc
<1>3. outcome = "approved" => approval[t][a] = "approved"
  BY DEF ConfirmOutcome
<1>4. AfterConfirm(t, k, outcome = "approved", stale) \in {"beginning", "turn"}
  BY AnswerDecides
<1>5. AfterConfirm(t, k, outcome = "approved", stale) = "beginning" => outcome = "approved"
  BY AnswerDecides
<1>6. pc \in Pc \ {"effect"}
  BY <1>4 DEF Pc, LivePc, TurnPc
<1>7. pc = "beginning" => approval[t][a] = "approved"
  BY <1>3, <1>4, <1>5
<1>8. pc = "beginning" => approval'[t][a] = "approved"
  BY <1>2, <1>7 DEF ApprovalsOnce
<1>9. exec[t][k].pc \in AskingPc \ WaitPc
  BY <1>1 DEF AskingPc, WaitPc
<1> HIDE DEF pc, outcome
<1> QED
  BY <1>1, <1>6, <1>8, <1>9, GoingOn

LEMMA CommitsKeep ==
    ASSUME ExecTypeOK, StepInv, ApprovalsOnce, StepsOnce,
           NEW t \in Task, NEW k \in Ordinal, Goto(t, k, "turn"), Quiet,
           exec[t][k].pc \in {"beginning", "finishing"}
    PROVE  ExecTypeOK' /\ StepInv' /\ NoneStays
<1>1. "turn" \in Pc \ {"effect"} /\ exec[t][k].pc \in AskingPc \ WaitPc
  BY DEF Pc, LivePc, TurnPc, AskingPc, WaitPc
<1> QED
  BY <1>1, GoingOn

LEMMA RegisteringKeeps ==
    ASSUME ExecTypeOK, StepInv, ApprovalsOnce, StepsOnce,
           NEW t \in Task, NEW k \in Ordinal, RegisterWaiter(t, k)
    PROVE  ExecTypeOK' /\ StepInv' /\ NoneStays
<1> DEFINE a == ActionAsked(t, k)
<1>1. exec[t][k].pc \in {"registering", "rejoining"}
  BY DEF RegisterWaiter, At
<1>2. exec[t][k].pc \in AskingPc \ WaitPc
  BY <1>1 DEF AskingPc, WaitPc
<1>3. a \in Action /\ exec[t][k].step \in Step
  BY <1>2, AskedIsAction DEF StepInv
<1>4. CASE waiter[t][a] # 0
  <2>1. Goto(t, k, "turn") /\ Quiet
    BY <1>4 DEF RegisterWaiter, Quiet
  <2>2. "turn" \in Pc \ {"effect"}
    BY DEF Pc, LivePc, TurnPc
  <2> QED
    BY <1>2, <2>1, <2>2, GoingOn
<1>5. CASE waiter[t][a] = 0
  <2> DEFINE pc == IF Reviewer # "off" /\ At(t, k, "registering") THEN "reviewing" ELSE "waiting"
             r == [exec[t][k] EXCEPT !.pc = pc]
  <2>1. exec[t][k] \in Execution /\ exec \in Rows
    BY DEF ExecTypeOK, Rows
  <2>2. pc \in Pc /\ pc \in WaitPc /\ pc \notin {"effect", "beginning"}
    BY DEF Pc, LivePc, TurnPc, WaitPc
  <2>3. Goto(t, k, pc) /\ waiter' = [waiter EXCEPT ![t][a] = k] /\ effects' = effects
    BY <1>5 DEF RegisterWaiter, history
  <2> HIDE DEF pc
  <2>4. /\ r \in Execution /\ r.pc = pc /\ r.step = exec[t][k].step
        /\ r.answer = exec[t][k].answer
    BY <2>1, <2>2 DEF Execution
  <2>5. exec' \in Rows /\ RowBecomes(t, k, r)
    BY <2>1, <2>2, <2>3, GotoMoves
  <2> HIDE DEF r
  <2>6. exec[t][k].answer # "yes"
    BY <1>2 DEF StepInv, YesIsApproved
  <2>7. \A u \in Task, b \in Action :
           waiter'[u][b] = IF u = t /\ b = a THEN k ELSE waiter[u][b]
    BY <1>3, <2>3 DEF ExecTypeOK
  <2>8. \A b \in Action : waiter[t][b] # k
    BY <1>2, NotWaiting DEF StepInv
  <2>9. waiter' \in [Task -> [Action -> 0..MaxAttempts]]
    BY <1>3, <2>3, ConstantsAssumption DEF ExecTypeOK, Ordinal
  <2>10. ExecTypeOK'
    BY <2>5, <2>9 DEF RegisterWaiter, ExecTypeOK, Rows, history
  <2>11. \A u \in Task, b \in Action :
              \/ waiter'[u][b] = 0
              \/ waiter'[u][b] = waiter[u][b] /\ (u # t \/ waiter[u][b] # k)
              \/ /\ u = t /\ waiter'[u][b] = k
                 /\ r.pc \in WaitPc /\ r.step \in Step /\ ActionOf[r.step] = b
    BY <1>3, <2>2, <2>4, <2>7, <2>8 DEF ActionAsked
  <2>12. StepInv'
    BY <1>3, <2>2, <2>3, <2>4, <2>5, <2>6, <2>11, RowKeeps
  <2>13. NoneStays
    BY <1>1, <2>5 DEF NoneStays, RowBecomes
  <2> QED
    BY <2>10, <2>12, <2>13
<1> QED
  BY <1>4, <1>5

LEMMA ReviewKeeps ==
    ASSUME ExecTypeOK, StepInv, ApprovalsOnce, StepsOnce,
           NEW t \in Task, NEW k \in Ordinal,
           NEW opinion \in {"failed", "escalate", "approving", "denying"}, Review(t, k, opinion)
    PROVE  ExecTypeOK' /\ StepInv' /\ NoneStays
<1> DEFINE a == ActionAsked(t, k)
           pc == IF Reviewer = "auto" /\ opinion \in {"approving", "denying"}
                 THEN opinion ELSE "waiting"
           r == [exec[t][k] EXCEPT !.pc = pc]
<1>1. /\ exec[t][k].pc = "reviewing" /\ Goto(t, k, pc) /\ waiter' = waiter
      /\ effects' = effects
  BY DEF Review, At, history
<1>2. exec[t][k].pc \in AskingPc /\ exec[t][k].pc \in WaitPc
  BY <1>1 DEF AskingPc, WaitPc
<1>3. a \in Action /\ exec[t][k].step \in Step
  BY <1>2, AskedIsAction DEF StepInv
<1>4. exec[t][k] \in Execution /\ exec \in Rows
  BY DEF ExecTypeOK, Rows
<1>5. pc \in Pc /\ pc \in WaitPc /\ pc \notin {"effect", "beginning"}
  BY DEF Pc, LivePc, TurnPc, WaitPc
<1> HIDE DEF pc
<1>6. /\ r \in Execution /\ r.pc = pc /\ r.step = exec[t][k].step
      /\ r.answer = exec[t][k].answer
  BY <1>4, <1>5 DEF Execution
<1>7. exec' \in Rows /\ RowBecomes(t, k, r)
  BY <1>1, <1>4, <1>5, GotoMoves
<1> HIDE DEF r
<1>8. reviewed' \in [Task -> [Action -> BOOLEAN]]
  <2> DEFINE new == reviewed[t][a] \/ (opinion # "failed" /\ approval[t][a] = "pending")
  <2>1. reviewed' = [reviewed EXCEPT ![t] = [reviewed[t] EXCEPT ![a] = new]]
    BY <1>3 DEF Review, ExecTypeOK
  <2>2. new \in BOOLEAN
    <3>1. reviewed[t][a] \in BOOLEAN
      BY <1>3 DEF ExecTypeOK
    <3> QED
      BY <3>1, Zenon
  <2> HIDE DEF new
  <2> QED
    BY <1>3, <2>1, <2>2 DEF ExecTypeOK
<1>9. ExecTypeOK'
  BY <1>7, <1>8 DEF Review, ExecTypeOK, Rows, history
<1>10. r.answer = "yes" =>
          r.pc \in WaitPc /\ approval'[t][ActionOf[r.step]] = "approved"
  BY <1>3, <1>5, <1>6, ApprovedStays DEF StepInv, YesIsApproved
<1>11. \A u \in Task, b \in Action :
              \/ waiter'[u][b] = 0
              \/ waiter'[u][b] = waiter[u][b] /\ (u # t \/ waiter[u][b] # k)
              \/ /\ u = t /\ waiter'[u][b] = k
                 /\ r.pc \in WaitPc /\ r.step \in Step /\ ActionOf[r.step] = b
  BY <1>1, <1>3, <1>5, <1>6 DEF StepInv, WaitersWait
<1>12. StepInv'
  BY <1>1, <1>3, <1>5, <1>6, <1>7, <1>10, <1>11, RowKeeps
<1>13. NoneStays
  BY <1>1, <1>7 DEF NoneStays, RowBecomes
<1> QED
  BY <1>9, <1>12, <1>13

\* A waiting execution has its answer and drops its waiter.
LEMMA WaitEnds ==
    ASSUME ExecTypeOK, StepInv, ApprovalsOnce, StepsOnce,
           NEW t \in Task, NEW k \in Ordinal, exec[t][k].pc \in WaitPc,
           NEW pc \in {"beginning", "turn"},
           exec' = [exec EXCEPT ![t][k].answer = "none", ![t][k].pc = pc],
           DropOwnWaiter(t, k, ActionAsked(t, k)),
           UNCHANGED <<mode, worker, wake, active, signal, reviewed, history>>,
           pc = "beginning" => approval'[t][ActionAsked(t, k)] = "approved"
    PROVE  ExecTypeOK' /\ StepInv' /\ NoneStays
<1> DEFINE a == ActionAsked(t, k)
           r == [exec[t][k] EXCEPT !.answer = "none", !.pc = pc]
<1>1. exec[t][k].pc \in AskingPc
  BY DEF AskingPc, WaitPc
<1>2. a \in Action /\ exec[t][k].step \in Step
  BY <1>1, AskedIsAction DEF StepInv
<1>3. exec[t][k] \in Execution /\ exec \in Rows
  BY DEF ExecTypeOK, Rows
<1>4. pc \in Pc /\ pc # "effect"
  BY DEF Pc, LivePc, TurnPc
<1>5. /\ r \in Execution /\ r.pc = pc /\ r.step = exec[t][k].step /\ r.answer = "none"
  BY <1>3, <1>4 DEF Execution, Answer
<1>6. exec' = [exec EXCEPT ![t] = [exec[t] EXCEPT ![k] = r]]
  BY <1>3 DEF Rows, Execution
<1> HIDE DEF r
<1>7. exec' \in Rows /\ RowBecomes(t, k, r)
  BY <1>3, <1>5, <1>6, RowReplaced
<1>8. \A u \in Task, b \in Action :
         waiter'[u][b] = IF u = t /\ b = a /\ waiter[u][b] = k THEN 0 ELSE waiter[u][b]
  BY <1>2 DEF DropOwnWaiter, ExecTypeOK
<1>9. waiter' \in [Task -> [Action -> 0..MaxAttempts]]
  BY <1>2, ConstantsAssumption DEF DropOwnWaiter, ExecTypeOK
<1>10. \A b \in Action : waiter[t][b] = k => b = a
  <2>1. k # 0
    BY DEF Ordinal
  <2> QED
    BY <2>1 DEF StepInv, WaitersWait, ActionAsked
<1>11. \A u \in Task, b \in Action :
              \/ waiter'[u][b] = 0
              \/ waiter'[u][b] = waiter[u][b] /\ (u # t \/ waiter[u][b] # k)
  BY <1>8, <1>10
<1>12. ExecTypeOK'
  BY <1>7, <1>9 DEF ExecTypeOK, Rows, history
<1>13. effects' = effects
  BY DEF history
<1>14. StepInv'
  BY <1>2, <1>4, <1>5, <1>7, <1>11, <1>13, RowKeeps DEF ActionAsked
<1>15. NoneStays
  BY <1>1, <1>7 DEF NoneStays, RowBecomes, AskingPc
<1> QED
  BY <1>12, <1>14, <1>15

LEMMA TakingKeeps ==
    ASSUME ExecTypeOK, StepInv, ApprovalsOnce, StepsOnce,
           NEW t \in Task, NEW k \in Ordinal, NEW stale \in BOOLEAN, TakeAnswer(t, k, stale)
    PROVE  ExecTypeOK' /\ StepInv' /\ NoneStays
<1> DEFINE pc == AfterConfirm(t, k, exec[t][k].answer = "yes", stale)
<1>1. pc \in {"beginning", "turn"} /\ (pc = "beginning" => exec[t][k].answer = "yes")
  BY AnswerDecides
<1>2. exec[t][k].pc \in WaitPc /\ exec[t][k].pc \in AskingPc
  BY DEF TakeAnswer, At, WaitPc, AskingPc
<1>3. exec[t][k].step \in Step
  BY <1>2, AskedIsAction DEF StepInv
<1>4. pc = "beginning" => approval'[t][ActionAsked(t, k)] = "approved"
  BY <1>1, <1>3, ApprovedStays DEF StepInv, YesIsApproved, ActionAsked
<1>5. /\ exec' = [exec EXCEPT ![t][k].answer = "none", ![t][k].pc = pc]
      /\ DropOwnWaiter(t, k, ActionAsked(t, k))
      /\ UNCHANGED <<mode, worker, wake, active, signal, reviewed, history>>
  BY DEF TakeAnswer
<1> HIDE DEF pc
<1> QED
  BY <1>1, <1>2, <1>4, <1>5, WaitEnds

LEMMA AutoResolveKeeps ==
    ASSUME TypeOK, ExecTypeOK, StepInv, ApprovalsOnce, StepsOnce,
           NEW t \in Task, NEW k \in Ordinal, NEW stale \in BOOLEAN, AutoResolve(t, k, stale)
    PROVE  ExecTypeOK' /\ StepInv' /\ NoneStays
<1> DEFINE a == ActionAsked(t, k)
           decision == IF exec[t][k].pc = "approving" THEN "approved" ELSE "denied"
           open == approval[t][a] = "pending" /\ state[t] = "waiting_approval"
           final == IF open THEN decision ELSE approval[t][a]
           pc == AfterConfirm(t, k, final = "approved", stale)
<1>1. pc \in {"beginning", "turn"} /\ (pc = "beginning" => final = "approved")
  BY AnswerDecides
<1>2. exec[t][k].pc \in WaitPc /\ exec[t][k].pc \in AskingPc
  BY DEF AutoResolve, WaitPc, AskingPc
<1>3. exec[t][k].step \in Step /\ a \in Action
  BY <1>2, AskedIsAction DEF StepInv
<1>4. /\ exec' = [exec EXCEPT ![t][k].answer = "none", ![t][k].pc = pc]
      /\ DropOwnWaiter(t, k, a)
      /\ UNCHANGED <<mode, worker, wake, active, signal, reviewed, history>>
  BY DEF AutoResolve
<1>5. pc = "beginning" => approval'[t][a] = "approved"
  <2>1. CASE open
    <3>1. ResolveApproval(t, a, decision, ResumeStateFor(t, a))
      BY <2>1 DEF AutoResolve
    <3>2. approval'[t][a] = decision
      BY <1>3, <3>1 DEF ResolveApproval, TypeOK
    <3> QED
      BY <1>1, <2>1, <3>2
  <2>2. CASE ~open
    BY <1>1, <1>3, <2>2 DEF ApprovalsOnce
  <2> QED
    BY <2>1, <2>2
<1> HIDE DEF pc
<1> QED
  BY <1>1, <1>2, <1>4, <1>5, WaitEnds

\* A client's decision answers the registered waiter and nobody else.
LEMMA ResolvingKeeps ==
    ASSUME TypeOK, ExecTypeOK, StepInv, ApprovalsOnce, StepsOnce,
           NEW t \in Task, NEW a \in Action, NEW d \in {"approved", "denied"},
           ResolveTask(t, a, d)
    PROVE  ExecTypeOK' /\ StepInv' /\ NoneStays
<1> DEFINE answered(k) == k = waiter[t][a] /\ exec[t][k].answer = "none"
           r(k) == [exec[t][k] EXCEPT !.answer = Reply(d)]
<1>1. \A k \in Ordinal : exec[t][k] \in Execution
  BY DEF ExecTypeOK
<1>2. Reply(d) \in Answer /\ (Reply(d) = "yes" => d = "approved")
  BY DEF Reply, Answer
<1>3. \A k \in Ordinal : /\ r(k) \in Execution /\ r(k).pc = exec[t][k].pc
                         /\ r(k).step = exec[t][k].step /\ r(k).answer = Reply(d)
  BY <1>1, <1>2 DEF Execution
<1> HIDE DEF r
<1>4. exec' = [exec EXCEPT ![t] = [k \in Ordinal |->
                    IF answered(k) THEN r(k) ELSE exec[t][k]]]
  BY DEF ResolveTask, Answered, r
<1>5. /\ exec' \in Rows
      /\ \A k \in Ordinal : exec'[t][k] = IF answered(k) THEN r(k) ELSE exec[t][k]
      /\ \A u \in Task \ {t}, k \in Ordinal : exec'[u][k] = exec[u][k]
  BY <1>3, <1>4 DEF ExecTypeOK, Rows
<1>6. \A u \in Task, k \in Ordinal :
         exec'[u][k].pc = exec[u][k].pc /\ exec'[u][k].step = exec[u][k].step
  BY <1>3, <1>5
<1>7. waiter' = waiter /\ effects' = effects
  BY DEF ResolveTask, history
<1>8. approval'[t][a] = d
  BY DEF ResolveTask, ResolveApproval, TypeOK
<1>9. wake' \in BOOLEAN
  <2>1. wake \in BOOLEAN /\ wake' = (wake \/ waiter[t][a] = 0)
    BY DEF ExecTypeOK, ResolveTask
  <2> QED
    BY <2>1, Zenon
<1>10. ExecTypeOK'
  BY <1>5, <1>9 DEF ResolveTask, ExecTypeOK, Rows, history
<1>11. StepKnown' /\ WaitersWait'
  <2>1. StepKnown'
    BY <1>6 DEF StepInv, StepKnown
  <2>2. \A u \in Task, b \in Action : waiter[u][b] # 0 => waiter[u][b] \in Ordinal
    BY ConstantsAssumption DEF ExecTypeOK, Ordinal
  <2>3. WaitersWait'
    BY <1>6, <1>7, <2>2 DEF StepInv, WaitersWait
  <2> QED
    BY <2>1, <2>3
<1>12. YesIsApproved'
  <2> SUFFICES ASSUME NEW u \in Task, NEW k \in Ordinal, exec'[u][k].answer = "yes"
               PROVE  /\ exec'[u][k].pc \in WaitPc
                      /\ approval'[u][ActionOf[exec'[u][k].step]] = "approved"
    BY DEF YesIsApproved, Approved
  <2>1. CASE u = t /\ answered(k)
    <3>1. k # 0 /\ waiter[t][a] = k
      BY <2>1 DEF Ordinal
    <3>2. exec[t][k].pc \in WaitPc /\ ActionOf[exec[t][k].step] = a
      BY <3>1 DEF StepInv, WaitersWait
    <3>3. d = "approved"
      BY <1>2, <1>3, <1>5, <2>1
    <3> QED
      BY <1>6, <1>8, <2>1, <3>2, <3>3
  <2>2. CASE ~(u = t /\ answered(k))
    <3>1. exec'[u][k] = exec[u][k]
      BY <1>5, <2>2
    <3>2. exec[u][k].pc \in WaitPc /\ Approved(u, exec[u][k].step) /\ exec[u][k].pc \in AskingPc
      BY <3>1 DEF StepInv, YesIsApproved, WaitPc, AskingPc
    <3>3. exec[u][k].step \in Step
      BY <3>2 DEF StepInv, StepKnown
    <3> QED
      BY <3>1, <3>2, <3>3, ApprovedStays
  <2> QED
    BY <2>1, <2>2
<1>13. GoIsApproved'
  <2> SUFFICES ASSUME NEW u \in Task, NEW k \in Ordinal,
                      exec[u][k].pc \in {"beginning", "effect"},
                      ActionOf[exec[u][k].step] \in NeedsApproval
               PROVE  approval'[u][ActionOf[exec[u][k].step]] = "approved"
    BY <1>6 DEF GoIsApproved, Approved
  <2>1. Approved(u, exec[u][k].step) /\ exec[u][k].step \in Step
    BY DEF StepInv, GoIsApproved, StepKnown, AskingPc
  <2> QED
    BY <2>1, ApprovedStays
<1>14. ASSUME NEW u \in Task, NEW k \in Ordinal PROVE Recorded(u, k)'
  <2> SUFFICES ASSUME exec[u][k].pc = "effect"
               PROVE  /\ effects[u][exec[u][k].step] = 0
                      /\ toolStep'[u][exec[u][k].step] # "none"
    BY <1>6, <1>7 DEF Recorded
  <2>1. Recorded(u, k) /\ exec[u][k].step \in Step
    BY DEF StepInv, StepKnown, AskingPc
  <2> QED
    BY <2>1, RecordStays DEF Recorded
<1>15. OneRuns'
  BY <1>6 DEF StepInv, OneRuns
<1>16. EffectOnce' /\ EffectApproved'
  BY <1>7, EffectsKeep DEF StepInv
<1>17. NoneStays
  BY <1>6 DEF NoneStays
<1> QED
  BY <1>10, <1>11, <1>12, <1>13, <1>14, <1>15, <1>16, <1>17 DEF StepInv

\* A tool step is recorded before it runs, and by one execution only.
LEMMA BeginningKeeps ==
    ASSUME TypeOK, ExecTypeOK, StepInv, ApprovalsOnce, StepsOnce,
           NEW t \in Task, NEW k \in Ordinal, BeginCommit(t, k)
    PROVE  ExecTypeOK' /\ StepInv' /\ NoneStays
<1> DEFINE s == exec[t][k].step
           r == [exec[t][k] EXCEPT !.pc = "effect"]
<1>1. exec[t][k].pc = "beginning" /\ Quiet
  BY DEF BeginCommit, At
<1>2. exec[t][k].pc \in AskingPc \ WaitPc
  BY <1>1 DEF AskingPc, WaitPc
<1>3. s \in Step
  BY <1>2, AskedIsAction DEF StepInv
<1>4. CASE ~CanBegin(t, s)
  BY <1>1, <1>4, CommitsKeep DEF BeginCommit
<1>5. CASE CanBegin(t, s)
  <2>1. /\ BeginToolStep(t, s) /\ Goto(t, k, "effect") /\ toolStep[t][s] = "none"
    BY <1>5 DEF BeginCommit, CanBegin
  <2>2. exec[t][k] \in Execution /\ exec \in Rows /\ "effect" \in Pc
    BY DEF ExecTypeOK, Rows, Pc, LivePc, TurnPc
  <2>3. r \in Execution /\ r.pc = "effect" /\ r.step = s /\ r.answer = exec[t][k].answer
    BY <2>2 DEF Execution
  <2>4. exec' \in Rows /\ RowBecomes(t, k, r)
    BY <2>1, <2>2, GotoMoves
  <2> HIDE DEF r
  <2>5. exec[t][k].answer # "yes"
    BY <1>2 DEF StepInv, YesIsApproved
  <2>6. \A a \in Action : waiter[t][a] # k
    BY <1>2, NotWaiting DEF StepInv
  <2>7. effects' = effects /\ waiter' = waiter
    BY <1>1 DEF Quiet, history
  <2>8. ActionOf[s] \in NeedsApproval => approval'[t][ActionOf[s]] = "approved"
    BY <1>1, <1>3, ApprovedStays DEF StepInv, GoIsApproved
  <2>9. StepKnown' /\ WaitersWait' /\ YesIsApproved' /\ GoIsApproved'
    BY <1>3, <2>3, <2>4, <2>5, <2>6, <2>7, <2>8, RowKeepsCalls
  <2>10. toolStep'[t][s] # "none"
    BY <1>3, <2>1 DEF BeginToolStep, TypeOK
  <2>11. effects[t][s] = 0
    <3>1. effects[t][s] \in Nat /\ effects[t][s] <= 1 /\ effects[t][s] # 1
      BY <1>3, <2>1 DEF ExecTypeOK, StepInv, EffectOnce
    <3> QED
      BY <3>1
  <2>12. ASSUME NEW u \in Task, NEW j \in Ordinal PROVE Recorded(u, j)'
    <3>1. CASE u = t /\ j = k
      BY <2>3, <2>4, <2>7, <2>10, <2>11, <3>1 DEF Recorded, RowBecomes
    <3>2. CASE u # t \/ j # k
      <4> SUFFICES ASSUME exec'[u][j].pc = "effect"
                   PROVE  /\ effects[u][exec'[u][j].step] = 0
                          /\ toolStep'[u][exec'[u][j].step] # "none"
        BY <2>7 DEF Recorded
      <4>1. exec'[u][j] = exec[u][j]
        BY <2>4, <3>2 DEF RowBecomes
      <4>2. Recorded(u, j) /\ exec[u][j].step \in Step
        BY <4>1 DEF StepInv, StepKnown, AskingPc
      <4> QED
        BY <4>1, <4>2, RecordStays DEF Recorded
    <3> QED
      BY <3>1, <3>2
  <2>13. OneRuns'
    <3>1. \A j \in Ordinal : (exec[t][j].pc = "effect") => exec[t][j].step # s
      BY <2>1 DEF StepInv, Recorded
    <3> QED
      BY <2>3, <2>4, <3>1 DEF StepInv, OneRuns, RowBecomes
  <2>14. EffectOnce' /\ EffectApproved'
    BY <2>7, EffectsKeep DEF StepInv
  <2>15. ExecTypeOK'
    BY <1>1, <2>4, QuietTyped
  <2>16. NoneStays
    BY <1>1, <2>4 DEF NoneStays, RowBecomes
  <2> QED
    BY <2>9, <2>12, <2>13, <2>14, <2>15, <2>16 DEF StepInv
<1> QED
  BY <1>4, <1>5

\* The tool runs: for the first time, and under its approval.
LEMMA RunningKeeps ==
    ASSUME TypeOK, ExecTypeOK, StepInv, NEW t \in Task, NEW k \in Ordinal, RunTool(t, k)
    PROVE  ExecTypeOK' /\ StepInv' /\ NoneStays
<1> DEFINE s == exec[t][k].step
           r == [exec[t][k] EXCEPT !.pc = "finishing"]
<1>1. exec[t][k].pc = "effect" /\ Goto(t, k, "finishing") /\ waiter' = waiter /\ UNCHANGED vars
  BY DEF RunTool, At
<1>v. approval' = approval /\ toolStep' = toolStep
  BY <1>1 DEF vars
<1>o. ApprovalsOnce /\ StepsOnce
  BY <1>v DEF ApprovalsOnce, StepsOnce
<1>2. exec[t][k].pc \in AskingPc \ WaitPc
  BY <1>1 DEF AskingPc, WaitPc
<1>3. s \in Step
  BY <1>2, AskedIsAction DEF StepInv
<1>4. exec[t][k] \in Execution /\ exec \in Rows /\ "finishing" \in Pc
  BY DEF ExecTypeOK, Rows, Pc, LivePc, TurnPc
<1>5. r \in Execution /\ r.pc = "finishing" /\ r.step = s /\ r.answer = exec[t][k].answer
  BY <1>4 DEF Execution
<1>6. exec' \in Rows /\ RowBecomes(t, k, r)
  BY <1>1, <1>4, GotoMoves
<1> HIDE DEF r
<1>7. \A u \in Task, x \in Step :
         effects'[u][x] = IF u = t /\ x = s THEN effects[u][x] + 1 ELSE effects[u][x]
  BY <1>3 DEF RunTool, ExecTypeOK
<1>8. effects' \in [Task -> [Step -> Nat]]
  <2>1. effects[t][s] + 1 \in Nat
    BY <1>3 DEF ExecTypeOK
  <2>2. [effects[t] EXCEPT ![s] = effects[t][s] + 1] \in [Step -> Nat]
    BY <2>1 DEF ExecTypeOK
  <2>3. effects' = [effects EXCEPT ![t] = [effects[t] EXCEPT ![s] = effects[t][s] + 1]]
    BY <1>3 DEF RunTool, ExecTypeOK
  <2> QED
    BY <2>2, <2>3 DEF ExecTypeOK
<1>9. effects[t][s] = 0 /\ toolStep[t][s] # "none"
  BY <1>1 DEF StepInv, Recorded
<1>10. StepKnown' /\ WaitersWait' /\ YesIsApproved' /\ GoIsApproved'
  <2>1. exec[t][k].answer # "yes"
    BY <1>2 DEF StepInv, YesIsApproved
  <2>2. \A a \in Action : waiter[t][a] # k
    BY <1>2, NotWaiting DEF StepInv
  <2> QED
    BY <1>1, <1>3, <1>5, <1>6, <1>o, <2>1, <2>2, RowKeepsCalls
<1>11. ASSUME NEW u \in Task, NEW j \in Ordinal PROVE Recorded(u, j)'
  <2> SUFFICES ASSUME exec'[u][j].pc = "effect"
               PROVE  /\ effects'[u][exec'[u][j].step] = 0
                      /\ toolStep[u][exec'[u][j].step] # "none"
    BY <1>v DEF Recorded
  <2>1. (u # t \/ j # k) /\ exec'[u][j] = exec[u][j]
    BY <1>5, <1>6 DEF RowBecomes
  <2>2. Recorded(u, j) /\ exec[u][j].step \in Step
    BY <2>1 DEF StepInv, StepKnown, AskingPc
  <2>3. u # t \/ exec[u][j].step # s
    BY <1>1, <2>1 DEF StepInv, OneRuns
  <2> QED
    BY <1>7, <2>1, <2>2, <2>3 DEF Recorded
<1>12. OneRuns'
  BY <1>5, <1>6 DEF StepInv, OneRuns, RowBecomes
<1>13. EffectOnce'
  BY <1>7, <1>9, <1>v DEF StepInv, EffectOnce
<1>14. EffectApproved'
  <2>1. ActionOf[s] \in NeedsApproval => approval[t][ActionOf[s]] = "approved"
    BY <1>1 DEF StepInv, GoIsApproved, Approved
  <2> QED
    BY <1>7, <1>v, <2>1 DEF StepInv, EffectApproved
<1>15. ExecTypeOK'
  BY <1>6, <1>8 DEF RunTool, ExecTypeOK, Rows
<1>16. NoneStays
  BY <1>1, <1>6 DEF NoneStays, RowBecomes
<1> QED
  BY <1>10, <1>11, <1>12, <1>13, <1>14, <1>15, <1>16 DEF StepInv

-----------------------------------------------------------------------------
(* Claims, crashes and what a running Core does to leases. *)

\* The attempt the worker claims has no execution yet.
LEMMA ClaimKeeps ==
    ASSUME TypeOK, ExecTypeOK, StepInv, Unclaimed, ApprovalsOnce, StepsOnce,
           NEW t \in Task, WorkerClaims(t)
    PROVE  /\ ExecTypeOK' /\ StepInv'
           /\ attemptCount[t] + 1 \in Ordinal /\ attemptCount'[t] = attemptCount[t] + 1
           /\ state'[t] = "running" /\ mode' = "up"
           /\ \A u \in Task, k \in Ordinal :
                 (u # t \/ k # attemptCount[t] + 1) => exec'[u][k] = exec[u][k]
<1> DEFINE k == attemptCount[t] + 1
<1>1. k \in Ordinal /\ k > attemptCount[t]
  BY ConstantsAssumption DEF WorkerClaims, CanClaim, TypeOK, Ordinal
<1>2. exec[t][k].pc = "none" /\ exec[t][k] \in Execution /\ exec \in Rows
  BY <1>1 DEF Unclaimed, ExecTypeOK, Rows
<1>3. Goto(t, k, "claimed") /\ "claimed" \in Pc
  BY DEF WorkerClaims, Pc
<1>4. exec' \in Rows /\ RowBecomes(t, k, [exec[t][k] EXCEPT !.pc = "claimed"])
  BY <1>1, <1>2, <1>3, GotoMoves
<1>5. /\ exec'[t][k].pc = "claimed" /\ exec'[t][k].answer = exec[t][k].answer
      /\ \A u \in Task, j \in Ordinal : (u # t \/ j # k) => exec'[u][j] = exec[u][j]
  BY <1>2, <1>4 DEF RowBecomes, Execution
<1>6. \A u \in Task, j \in Ordinal : Calm(u, j) \/ Apart(u, j)
  BY <1>2, <1>5 DEF Calm, Apart, AskingPc
<1>7. waiter' = waiter /\ effects' = effects
  BY DEF WorkerClaims, history
<1>8. ExecTypeOK'
  BY <1>4 DEF WorkerClaims, ExecTypeOK, Rows, history
<1>9. StepInv'
  BY <1>6, <1>7, ApartKeeps
<1>10. state'[t] = "running" /\ mode' = "up" /\ attemptCount'[t] = k
  BY DEF WorkerClaims, ClaimNext, TypeOK
<1> QED
  BY <1>1, <1>5, <1>8, <1>9, <1>10

LEMMA HaltKeeps ==
    ASSUME TypeOK, ExecTypeOK, StepInv, Halt
    PROVE  ExecTypeOK' /\ StepInv' /\ \A t \in Task, k \in Ordinal : exec'[t][k].pc = "none"
<1>1. /\ exec' \in Rows
      /\ \A t \in Task, k \in Ordinal : exec'[t][k] = NoExecution
  BY NoExecutionTyped DEF Halt, ForgetTasks, Rows
<1>2. NoExecution.pc = "none" /\ NoExecution.answer = "none"
  BY DEF NoExecution
<1>3. \A t \in Task, a \in Action : waiter'[t][a] = 0
  BY DEF Halt, NoWaiters
<1>4. approval' = approval /\ toolStep' = toolStep /\ effects' = effects
  BY DEF Halt, vars, history
<1>5. ExecTypeOK'
  <2>1. 0 \in 0..MaxAttempts
    BY ConstantsAssumption
  <2>2. /\ waiter' \in [Task -> [Action -> 0..MaxAttempts]]
        /\ active' \in [Task -> 0..MaxAttempts]
    BY <2>1 DEF Halt, NoWaiters
  <2> QED
    BY <1>1, <2>2 DEF Halt, ExecTypeOK, Rows, history
<1>6. EffectOnce' /\ EffectApproved'
  BY <1>4 DEF StepInv, EffectOnce, EffectApproved
<1>7. /\ StepKnown' /\ WaitersWait' /\ YesIsApproved' /\ GoIsApproved' /\ OneRuns'
      /\ \A t \in Task, k \in Ordinal : Recorded(t, k)'
  BY <1>1, <1>2, <1>3
  DEF StepKnown, WaitersWait, YesIsApproved, GoIsApproved, OneRuns, Recorded, AskingPc
<1> QED
  BY <1>1, <1>2, <1>5, <1>6, <1>7 DEF StepInv

\* A running Core takes a lease only together with the state that needs it.
LEMMA OnlineKeepsLeases ==
    ASSUME TypeOK, LeaseFollowsAttempt, OnlineNext \/ UNCHANGED vars, NEW t \in Task,
           state'[t] = "waiting_approval", lease'[t] = "none"
    PROVE  state[t] = "waiting_approval" /\ lease[t] = "none"
<1> USE DEF taskVars, attemptVars, journalVars
<1>1. CASE UNCHANGED vars
  BY <1>1 DEF vars
<1>2. CASE RecoverExpiredLeases
  BY <1>2 DEF RecoverExpiredLeases, ExpiredTasks
<1>3. ASSUME NEW u \in Task, TaskStep(u)
      PROVE  state[t] = "waiting_approval" /\ lease[t] = "none"
  <2>1. CASE ClientCommand(u)
    BY <2>1 DEF ClientCommand, Create, RequestCancel, CancelIdle, CancelRunning, RequestPause,
                PauseIdle, PauseRunning, Resume, ActivateStaged, TypeOK
  <2>2. CASE ExecutorWrite(u)
    <3>1. ASSUME NEW target \in TransitionTarget, NEW p, Transition(u, target, p)
          PROVE  state[t] = "waiting_approval" /\ lease[t] = "none"
      BY <3>1 DEF Transition, TransitionTarget, TypeOK
    <3>2. ASSUME NEW a \in Action, RequestApproval(u, a)
          PROVE  state[t] = "waiting_approval" /\ lease[t] = "none"
      BY <3>2 DEF RequestApproval, LeaseFollowsAttempt, TypeOK
    <3>3. CASE ClaimNext(u) \/ PauseForUnknownToolOutcome(u) \/ RenewLease(u)
      BY <3>3 DEF ClaimNext, PauseForUnknownToolOutcome, RenewLease, CanRenew, TypeOK
    <3> QED
      BY <2>2, <3>1, <3>2, <3>3
      DEF ExecutorWrite, AppendArtifact, BeginToolStep, FinishToolStep
  <2>3. CASE Decision(u)
    BY <2>3 DEF Decision, ResolveApproval, ResumeStates, TypeOK
  <2>4. CASE LeaseExpires(u)
    BY <2>4 DEF LeaseExpires, TypeOK
  <2> QED
    BY <1>3, <2>1, <2>2, <2>3, <2>4 DEF TaskStep
<1> QED
  BY <1>1, <1>2, <1>3 DEF OnlineNext

LEMMA AttemptsOnlyGrow ==
    ASSUME TypeOK, OnlineNext \/ UNCHANGED vars, NEW t \in Task
    PROVE  attemptCount'[t] >= attemptCount[t] /\ attemptCount'[t] \in Nat
<1> USE DEF taskVars, attemptVars, journalVars
<1>0. attemptCount[t] \in Nat
  BY ConstantsAssumption DEF TypeOK
<1>s. attemptCount' = attemptCount => attemptCount'[t] >= attemptCount[t] /\ attemptCount'[t] \in Nat
  BY <1>0
<1>1. CASE UNCHANGED vars
  BY <1>1, <1>s DEF vars
<1>2. CASE RecoverExpiredLeases
  BY <1>2, <1>s DEF RecoverExpiredLeases
<1>3. ASSUME NEW u \in Task, TaskStep(u)
      PROVE  attemptCount'[t] >= attemptCount[t] /\ attemptCount'[t] \in Nat
  <2>1. CASE ClientCommand(u)
    BY <2>1, <1>s DEF ClientCommand, Create, RequestCancel, CancelIdle, CancelRunning,
                RequestPause, PauseIdle, PauseRunning, Resume, ActivateStaged
  <2>2. CASE ClaimNext(u)
    BY <2>2, <1>0 DEF ClaimNext, TypeOK
  <2>3. CASE ExecutorWrite(u) /\ ~ClaimNext(u)
    BY <2>3, <1>s DEF ExecutorWrite, AppendArtifact, Transition, RenewLease,
                PauseForUnknownToolOutcome, BeginToolStep, FinishToolStep, RequestApproval
  <2>4. CASE Decision(u) \/ LeaseExpires(u)
    BY <2>4, <1>s DEF Decision, ResolveApproval, LeaseExpires
  <2> QED
    BY <1>3, <2>1, <2>2, <2>3, <2>4 DEF TaskStep
<1> QED
  BY <1>1, <1>2, <1>3 DEF OnlineNext

-----------------------------------------------------------------------------
(* The theorems. *)

ExecInv ==
    /\ TypeOK
    /\ LeaseFollowsAttempt
    /\ ExecTypeOK
    /\ StepInv
    /\ Detached
    /\ Unclaimed
    /\ DownIsEmpty

\* Every step of the process is one step of the repository.
LEMMA ExecStepImplements == ExecInv /\ [ExecNext]_execVars => [Next]_vars
<1> SUFFICES ASSUME ExecInv, ExecNext PROVE [Next]_vars
  BY DEF execVars
<1>1. CASE Restart
  BY <1>1 DEF Restart, Next
<1>2. CASE ~Restart
  <2>1. OnlineNext \/ UNCHANGED vars
    BY <1>2, StepsAreTransactions DEF ExecInv, StepInv
  <2> QED
    BY <2>1 DEF OnlineNext, TaskStep, Next
<1> QED
  BY <1>1, <1>2

\* A step other than a claim or a halt creates no execution.
LEMMA StepKeeps ==
    ASSUME ExecInv, ExecNext, ~Halt, \A t \in Task : ~WorkerClaims(t),
           ApprovalsOnce, StepsOnce
    PROVE  ExecTypeOK' /\ StepInv' /\ NoneStays
<1> USE DEF ExecInv
<1>o. ASSUME ExecTypeOK', Outside PROVE ExecTypeOK' /\ StepInv' /\ NoneStays
  <2>1. StepInv'
    BY <1>o, ApartKeeps DEF Outside, Elsewhere
  <2>2. NoneStays
    BY <1>o DEF Outside, Elsewhere, Calm, NoneStays
  <2> QED
    BY <1>o, <2>1, <2>2
<1>1. CASE Worker
  BY <1>1, <1>o, WorkerOutside
<1>2. CASE Process
  BY <1>2, <1>o, ProcessOutside
<1>3. ASSUME NEW t \in Task, Command(t) \/ LeaseLapses(t)
      PROVE  ExecTypeOK' /\ StepInv' /\ NoneStays
  <2>1. ASSUME NEW a \in Action, NEW d \in {"approved", "denied"}, ResolveTask(t, a, d)
        PROVE  ExecTypeOK' /\ StepInv' /\ NoneStays
    BY <2>1, ResolvingKeeps
  <2>2. CASE \A a \in Action, d \in {"approved", "denied"} : ~ResolveTask(t, a, d)
    BY <1>3, <2>2, <1>o, CommandOutside
  <2> QED
    BY <2>1, <2>2
<1>4. ASSUME NEW t \in Task, NEW k \in Ordinal, Turn(t, k)
      PROVE  ExecTypeOK' /\ StepInv' /\ NoneStays
  <2>1. CASE \A s \in Step : ~ProposeTool(t, k, s)
    BY <1>4, <2>1, <1>o, TurnOutside
  <2>2. ASSUME NEW s \in Step, ProposeTool(t, k, s)
        PROVE  ExecTypeOK' /\ StepInv' /\ NoneStays
    BY <2>2, ProposalKeeps
  <2> QED
    BY <2>1, <2>2
<1>5. ASSUME NEW t \in Task, NEW k \in Ordinal, Confirmation(t, k)
      PROVE  ExecTypeOK' /\ StepInv' /\ NoneStays
  BY <1>5, AskingKeeps, TakingKeeps, AutoResolveKeeps, RegisteringKeeps, ReviewKeeps
  DEF Confirmation
<1>6. ASSUME NEW t \in Task, NEW k \in Ordinal, Commit(t, k)
      PROVE  ExecTypeOK' /\ StepInv' /\ NoneStays
  <2>1. CASE CheckpointFails(t, k) \/ \E result \in {"completed", "failed"} :
                                          FinishCommit(t, k, result)
    <3>1. exec[t][k].pc = "finishing" /\ Goto(t, k, "turn") /\ Quiet
      BY <2>1 DEF CheckpointFails, FinishCommit, At
    <3> QED
      BY <3>1, CommitsKeep
  <2> QED
    BY <1>6, <2>1, BeginningKeeps, RunningKeeps DEF Commit
<1>7. ASSUME NEW t \in Task, NEW k \in Ordinal, Ending(t, k)
      PROVE  ExecTypeOK' /\ StepInv' /\ NoneStays
  BY <1>7, <1>o, EndingOutside
<1>8. ASSUME NEW t \in Task, NEW k \in Ordinal,
             Heartbeat(t, k) \/ Bridge(t, k) \/ TurnTimesOut(t, k)
      PROVE  ExecTypeOK' /\ StepInv' /\ NoneStays
  BY <1>8, <1>o, SignalsOutside
<1> QED
  BY <1>1, <1>2, <1>3, <1>4, <1>5, <1>6, <1>7, <1>8 DEF ExecNext

\* Only halting takes Core down, and a Core that is down can only start again.
LEMMA GoingDown == ExecNext /\ ~Halt => mode' # "down" /\ (mode = "down" => Restart)
<1> SUFFICES ASSUME ExecNext, ~Halt PROVE mode' # "down" /\ (mode = "down" => Restart)
  OBVIOUS
<1> DEFINE G == mode' # "down" /\ (mode = "down" => Restart)
<1>u. (mode = "up" /\ mode' = mode) => G
  OBVIOUS
<1>1. CASE Worker
  BY <1>1, <1>u DEF Worker, WorkerWakes, WorkerRecovers, WorkerClaims, WorkerRegisters,
                    WorkerSleeps, At
<1>2. CASE Process
  BY <1>2 DEF Process, Stop, Restart, DenyOnStop
<1>3. ASSUME NEW t \in Task, Command(t) \/ LeaseLapses(t) PROVE G
  BY <1>3, <1>u DEF Command, SubmitTask, ActivateTask, CancelTask, PauseTask, SignalLatch,
                    CancelWaiters, ResumeTask, ResolveTask, Idle, LeaseLapses, memory
<1>4. ASSUME NEW t \in Task, NEW k \in Ordinal, Turn(t, k) PROVE G
  BY <1>4, <1>u DEF Turn, EnterTurn, TurnRaises, ProposeTool, FinishTurn, RecordArtifact,
                    StopAtMilestone, GoesOn, At, Quiet
<1>5. ASSUME NEW t \in Task, NEW k \in Ordinal, Confirmation(t, k) PROVE G
  BY <1>5, <1>u DEF Confirmation, AskApproval, TakeAnswer, AutoResolve, RegisterWaiter,
                    Review, At, Quiet
<1>6. ASSUME NEW t \in Task, NEW k \in Ordinal, Commit(t, k) PROVE G
  BY <1>6, <1>u DEF Commit, BeginCommit, RunTool, FinishCommit, CheckpointFails, At, Quiet
<1>7. ASSUME NEW t \in Task, NEW k \in Ordinal, Ending(t, k) PROVE G
  BY <1>7, <1>u DEF Ending, Decide, WriteVerdict, HandleFailure, WriteFailure, WriteUnknown,
                    Close, At, Quiet
<1>8. ASSUME NEW t \in Task, NEW k \in Ordinal,
             Heartbeat(t, k) \/ Bridge(t, k) \/ TurnTimesOut(t, k)
      PROVE  G
  BY <1>8, <1>u DEF Heartbeat, Bridge, TurnTimesOut, Quiet
<1> QED
  BY <1>1, <1>2, <1>3, <1>4, <1>5, <1>6, <1>7, <1>8 DEF ExecNext

\* The database part of a step, whatever the step is.
LEMMA DatabaseKept ==
    ASSUME ExecInv, [Next]_vars
    PROVE  TypeOK' /\ LeaseFollowsAttempt' /\ ApprovalsOnce /\ StepsOnce
BY NextTyped, NextKeepsLease, NextDecidesApprovalsOnce, NextStepsOnce DEF ExecInv

\* The invariant is inductive.
LEMMA ExecInvKept == ExecInv /\ [ExecNext]_execVars => ExecInv'
<1> SUFFICES ASSUME ExecInv, [ExecNext]_execVars PROVE ExecInv'
  OBVIOUS
<1>d. TypeOK' /\ LeaseFollowsAttempt' /\ ApprovalsOnce /\ StepsOnce
  BY ExecStepImplements, DatabaseKept
<1>t. TypeOK /\ LeaseFollowsAttempt /\ ExecTypeOK /\ StepInv /\ Detached /\ Unclaimed
      /\ DownIsEmpty
  BY DEF ExecInv
<1>n. \A t \in Task : attemptCount[t] \in Nat
  BY <1>t, ConstantsAssumption DEF TypeOK
<1>1. CASE UNCHANGED execVars
  <2>1. /\ exec' = exec /\ waiter' = waiter /\ effects' = effects /\ ExecTypeOK'
        /\ UNCHANGED <<mode, state, lease, attemptCount>>
    BY <1>1, <1>t DEF execVars, memory, history, vars, taskVars, attemptVars, ExecTypeOK
  <2>2. StepInv'
    BY <2>1, <1>t, <1>d, CalmIfSame, ApartKeeps
  <2>3. Detached' /\ Unclaimed' /\ DownIsEmpty'
    BY <2>1, <1>t DEF Detached, Unclaimed, DownIsEmpty
  <2> QED
    BY <1>d, <2>1, <2>2, <2>3 DEF ExecInv
<1>2. CASE Halt
  <2>1. ExecTypeOK' /\ StepInv' /\ \A t \in Task, k \in Ordinal : exec'[t][k].pc = "none"
    BY <1>2, <1>t, HaltKeeps
  <2>2. Detached' /\ Unclaimed' /\ DownIsEmpty'
    BY <2>1 DEF Detached, Unclaimed, DownIsEmpty
  <2> QED
    BY <1>d, <2>1, <2>2 DEF ExecInv
<1>3. ASSUME NEW t \in Task, WorkerClaims(t) PROVE ExecInv'
  <2>1. /\ ExecTypeOK' /\ StepInv'
        /\ attemptCount[t] + 1 \in Ordinal /\ attemptCount'[t] = attemptCount[t] + 1
        /\ state'[t] = "running" /\ mode' = "up"
        /\ \A u \in Task, k \in Ordinal :
              (u # t \/ k # attemptCount[t] + 1) => exec'[u][k] = exec[u][k]
    BY <1>3, <1>t, <1>d, ClaimKeeps
  <2>2. OnlineNext
    BY <1>3 DEF WorkerClaims, OnlineNext, TaskStep, ExecutorWrite
  <2>3. Detached'
    <3> SUFFICES ASSUME NEW u \in Task, state'[u] = "waiting_approval", lease'[u] = "none",
                        NEW k \in Ordinal
                 PROVE  exec'[u][k].pc = "none"
      BY DEF Detached
    <3>1. u # t /\ exec'[u][k] = exec[u][k]
      BY <2>1
    <3>2. state[u] = "waiting_approval" /\ lease[u] = "none"
      BY <1>t, <2>2, OnlineKeepsLeases
    <3> QED
      BY <1>t, <3>1, <3>2 DEF Detached
  <2>4. Unclaimed'
    <3> SUFFICES ASSUME NEW u \in Task, NEW k \in Ordinal, k > attemptCount'[u]
                 PROVE  exec'[u][k].pc = "none"
      BY DEF Unclaimed
    <3>1. k > attemptCount[u]
      BY <1>t, <1>n, <2>2, AttemptsOnlyGrow DEF Ordinal
    <3>2. u # t \/ k # attemptCount[t] + 1
      BY <1>n, <2>1 DEF Ordinal
    <3> QED
      BY <1>t, <2>1, <3>1, <3>2 DEF Unclaimed
  <2>5. DownIsEmpty'
    BY <2>1 DEF DownIsEmpty
  <2> QED
    BY <1>d, <2>1, <2>3, <2>4, <2>5 DEF ExecInv
<1>4. CASE ExecNext /\ ~Halt /\ \A t \in Task : ~WorkerClaims(t)
  <2>1. ExecTypeOK' /\ StepInv' /\ NoneStays
    BY <1>4, <1>d, StepKeeps
  <2>2. mode' # "down" /\ (mode = "down" => Restart)
    BY <1>4, GoingDown
  <2>3. CASE Restart
    <3>1. \A t \in Task, k \in Ordinal : exec'[t][k].pc = "none"
      BY <2>1, <2>3, <1>t DEF Restart, DownIsEmpty, NoneStays
    <3>2. Detached' /\ Unclaimed' /\ DownIsEmpty'
      BY <3>1 DEF Detached, Unclaimed, DownIsEmpty
    <3> QED
      BY <1>d, <2>1, <3>2 DEF ExecInv
  <2>4. CASE ~Restart
    <3>1. OnlineNext \/ UNCHANGED vars
      BY <1>4, <1>t, <2>4, StepsAreTransactions DEF StepInv
    <3>2. Detached'
      <4> SUFFICES ASSUME NEW u \in Task, state'[u] = "waiting_approval", lease'[u] = "none",
                          NEW k \in Ordinal
                   PROVE  exec'[u][k].pc = "none"
        BY DEF Detached
      <4>1. state[u] = "waiting_approval" /\ lease[u] = "none"
        BY <1>t, <3>1, OnlineKeepsLeases
      <4> QED
        BY <1>t, <2>1, <4>1 DEF Detached, NoneStays
    <3>3. Unclaimed'
      <4> SUFFICES ASSUME NEW u \in Task, NEW k \in Ordinal, k > attemptCount'[u]
                   PROVE  exec'[u][k].pc = "none"
        BY DEF Unclaimed
      <4>1. k > attemptCount[u]
        BY <1>t, <1>n, <3>1, AttemptsOnlyGrow DEF Ordinal
      <4> QED
        BY <1>t, <2>1, <4>1 DEF Unclaimed, NoneStays
    <3>4. DownIsEmpty'
      BY <2>2 DEF DownIsEmpty
    <3> QED
      BY <1>d, <2>1, <3>2, <3>3, <3>4 DEF ExecInv
  <2> QED
    BY <2>3, <2>4
<1> QED
  BY <1>1, <1>2, <1>3, <1>4

LEMMA ExecInvInit == ExecInit => ExecInv
<1> SUFFICES ASSUME ExecInit PROVE ExecInv
  OBVIOUS
<1>1. TypeOK /\ LeaseFollowsAttempt
  BY InitTyped, InitLease DEF ExecInit
<1>2. /\ \A t \in Task, k \in Ordinal : exec[t][k] = NoExecution
      /\ \A t \in Task, a \in Action : waiter[t][a] = 0
      /\ \A t \in Task, s \in Step : effects[t][s] = 0
      /\ \A t \in Task : attemptCount[t] = 0 /\ state[t] = "absent"
  BY DEF ExecInit, Init, ForgetTasks, NoWaiters
<1>3. NoExecution.pc = "none" /\ NoExecution.answer = "none"
  BY DEF NoExecution
<1>4. ExecTypeOK
  <2>1. 0 \in 0..MaxAttempts
    BY ConstantsAssumption
  <2>2. /\ waiter \in [Task -> [Action -> 0..MaxAttempts]]
        /\ active \in [Task -> 0..MaxAttempts]
        /\ exec \in [Task -> [Ordinal -> Execution]]
    BY <2>1, NoExecutionTyped DEF ExecInit, NoWaiters, ForgetTasks
  <2> QED
    BY <2>2 DEF ExecInit, ExecTypeOK
<1>5. StepInv
  BY <1>2, <1>3 DEF StepInv, StepKnown, WaitersWait, YesIsApproved, GoIsApproved, Recorded,
                    OneRuns, EffectOnce, EffectApproved, AskingPc
<1>6. Detached /\ Unclaimed /\ DownIsEmpty
  BY <1>2, <1>3 DEF Detached, Unclaimed, DownIsEmpty
<1> QED
  BY <1>1, <1>4, <1>5, <1>6 DEF ExecInv

LEMMA ExecutionInvariant == ExecSpec => []ExecInv
BY ExecInvInit, ExecInvKept, PTL DEF ExecSpec

\* Worker, executions, waiters, latches and counters keep their types.
THEOREM ExecTypeCorrect == ExecSpec => []ExecTypeOK
<1>1. ExecInv => ExecTypeOK
  BY DEF ExecInv
<1> QED
  BY <1>1, ExecutionInvariant, PTL

\* A tool step reaches the registry at most once, and only with its durable
\* `committing' record: across crashes, restarts, lease recoveries, resumes and
\* stale executions of ToolStep.execute.
THEOREM EffectsOnce == ExecSpec => []EffectOnce
<1>1. ExecInv => EffectOnce
  BY DEF ExecInv, StepInv
<1> QED
  BY <1>1, ExecutionInvariant, PTL

\* A tool that needs confirmation only ever runs under a stored approval,
\* whichever of client, reviewer, cancellation and restart answers first in
\* DurableApprovalService.
THEOREM EffectsApproved == ExecSpec => []EffectApproved
<1>1. ExecInv => EffectApproved
  BY DEF ExecInv, StepInv
<1> QED
  BY <1>1, ExecutionInvariant, PTL

\* The process uses TaskRepository as the repository promises: executor,
\* approvals and commands implement DurableTask, so that everything proved of
\* the aggregate holds of the running program.
THEOREM ExecutionImplements == ExecSpec => Spec
<1>1. ExecInit => Init
  BY DEF ExecInit
<1> QED
  BY <1>1, ExecStepImplements, ExecutionInvariant, PTL DEF ExecSpec, Spec

\* The running program keeps the aggregate's promises: the journal tells the
\* row, one executor holds the lease, the Tasks of a session are exclusive, the
\* limits are respected, finished Tasks are frozen, decisions are taken once
\* and the life cycle is the published one.
THEOREM AggregateHolds ==
    ExecSpec =>
        /\ [](JournalMatchesTask /\ LeaseFollowsAttempt /\ SessionExclusive
                /\ CapacityRespected)
        /\ TerminalIsFinal /\ DecidedOnce /\ ImplementsLifecycle
BY ExecutionImplements, JournalCorrect, LeaseCorrect, SessionsExclusive, CapacityCorrect,
   TerminalsFinal, DecisionsOnce, LifecycleImplemented, PTL

-----------------------------------------------------------------------------
(* Wake-ups: what a step may do behind the back of a sleeping worker loop.     *)

\* An execution stays where it is, or goes on living.
GoesOnLiving(t, k) ==
    \/ exec'[t][k].pc = exec[t][k].pc
    \/ /\ exec[t][k].pc \in LivePc /\ exec'[t][k].pc \in LivePc
       /\ exec'[t][k].pc \in {"approving", "denying"} => Reviewer = "auto"

\* No execution begins, ends or frees its slot.
SameLives == \A t \in Task, k \in Ordinal : GoesOnLiving(t, k)

\* What becomes of a Task's row in a step that does not wake the worker loop: it is left as
\* far as a claim can see; it leaves its session by a command; it goes on in its session; it
\* is created for a delegation; or its own execution, which goes on, has written it.
Silent(t) ==
    \/ state'[t] = state[t] /\ (state[t] = "queued" => phase'[t] = phase[t])
    \/ state'[t] \in {"cancelled", "paused"}
    \/ state[t] \in Active /\ state'[t] \in Active
    \/ state[t] = "absent" /\ state'[t] = "queued" /\ phase'[t] = "delegation_staged"
    \/ Underway(t) /\ (state'[t] = "queued" => Reviewer = "auto")

\* A step behind the worker's back.
Behind ==
    /\ mode = "up" /\ mode' = "up" /\ worker' = worker
    /\ wake => wake'
    /\ SameLives
    /\ ~wake' => \A t \in Task : Silent(t)

LEMMA RowsKeptIsSilent ==
    ASSUME UNCHANGED <<state, phase>> PROVE \A t \in Task : Silent(t)
BY DEF Silent

\* Only the row of t is written.
LEMMA OneSilent ==
    ASSUME NEW t \in Task, Silent(t),
           \A u \in Task : u # t => state'[u] = state[u] /\ phase'[u] = phase[u]
    PROVE  \A u \in Task : Silent(u)
BY DEF Silent

LEMMA SameExecSameLives == exec' = exec => SameLives
BY DEF SameLives, GoesOnLiving

LEMMA GotoLives ==
    ASSUME ExecTypeOK, NEW t \in Task, NEW k \in Ordinal, exec[t][k].pc \in LivePc,
           NEW pc \in LivePc, Goto(t, k, pc), pc \in {"approving", "denying"} => Reviewer = "auto"
    PROVE  SameLives
<1>1. exec \in Rows /\ exec[t][k] \in Execution /\ pc \in Pc
  BY DEF ExecTypeOK, Rows, Pc
<1> DEFINE r == [exec[t][k] EXCEPT !.pc = pc]
<1>2. RowBecomes(t, k, r)
  BY <1>1, GotoMoves
<1>3. r.pc = pc
  BY <1>1 DEF Execution
<1> HIDE DEF r
<1> QED
  BY <1>2, <1>3 DEF RowBecomes, SameLives, GoesOnLiving

LEMMA LeavingLives ==
    ASSUME ExecTypeOK, NEW t \in Task, NEW k \in Ordinal, exec[t][k].pc \in LivePc,
           NEW pc \in ClosingPc, NEW status \in TurnStatus, NEW latch \in BOOLEAN,
           LeaveTurn(t, k, pc, status, latch)
    PROVE  SameLives
<1>1. exec \in Rows /\ pc \in Pc /\ pc \in LivePc /\ pc \notin {"approving", "denying"}
  BY DEF ExecTypeOK, Rows, Pc, LivePc, ClosingPc
<1> DEFINE r == [NoExecution EXCEPT !.pc = pc, !.status = status,
                                  !.latch = latch, !.beat = exec[t][k].beat]
<1>2. RowBecomes(t, k, r)
  BY <1>1, LeaveMoves
<1>3. r.pc = pc
  BY DEF NoExecution
<1> HIDE DEF r
<1> QED
  BY <1>1, <1>2, <1>3 DEF RowBecomes, SameLives, GoesOnLiving

\* One execution gets a row that lives on.
LEMMA RowLives ==
    ASSUME exec \in Rows, NEW t \in Task, NEW k \in Ordinal, exec[t][k].pc \in LivePc,
           NEW r \in Execution, r.pc \in LivePc \ {"approving", "denying"},
           exec' = [exec EXCEPT ![t] = [exec[t] EXCEPT ![k] = r]]
    PROVE  SameLives
<1>1. RowBecomes(t, k, r)
  BY RowReplaced
<1> QED
  BY <1>1 DEF RowBecomes, SameLives, GoesOnLiving

\* The program counters of a turn, of a call and of an ending execution.
LEMMA LivingPlaces ==
    /\ TurnPc \subseteq LivePc /\ ClosingPc \subseteq LivePc /\ "start" \in LivePc
    /\ AskingPc \subseteq LivePc /\ WaitPc \subseteq LivePc /\ "turn" \in LivePc
BY DEF LivePc, TurnPc, ClosingPc, AskingPc, WaitPc

LEMMA TurnBehind ==
    ASSUME ExecTypeOK, NEW t \in Task, NEW k \in Ordinal, Turn(t, k)
    PROVE  Behind
<1>e. exec[t][k] \in Execution /\ exec \in Rows
  BY DEF ExecTypeOK, Rows
<1>q. ASSUME mode = "up", Quiet, SameLives, UNCHANGED vars PROVE Behind
  BY <1>q, RowsKeptIsSilent DEF Quiet, Behind, vars, taskVars
<1>1. CASE EnterTurn(t, k)
  <2>1. exec[t][k].pc \in LivePc /\ "turn" \in LivePc
    BY <1>1, LivingPlaces DEF EnterTurn, At
  <2> QED
    BY <1>1, <1>q, <2>1, GotoLives DEF EnterTurn, At
<1>2. CASE TurnRaises(t, k)
  <2>1. /\ exec[t][k].pc \in LivePc /\ "raised" \in ClosingPc
        /\ "none" \in TurnStatus /\ exec[t][k].latch \in BOOLEAN
    BY <1>e, <1>2, LivingPlaces DEF TurnRaises, At, ClosingPc, TurnStatus, Execution
  <2> QED
    BY <1>2, <1>q, <2>1, LeavingLives DEF TurnRaises, At
<1>3. ASSUME NEW s \in Step, ProposeTool(t, k, s) PROVE Behind
  <2> DEFINE pc == IF ActionOf[s] \in NeedsApproval THEN "confirming" ELSE "beginning"
             r == [exec[t][k] EXCEPT !.step = s, !.pc = pc]
  <2>1. pc \in Pc /\ pc \in LivePc \ {"approving", "denying"}
    BY DEF Pc, LivePc, TurnPc
  <2>2. r \in Execution /\ r.pc = pc
    BY <1>e, <2>1 DEF Execution
  <2>3. exec' = [exec EXCEPT ![t] = [exec[t] EXCEPT ![k] = r]]
    BY <1>e, <1>3 DEF ProposeTool, Rows, Execution
  <2>4. exec[t][k].pc \in LivePc
    BY <1>3, LivingPlaces DEF ProposeTool, GoesOn, At
  <2> HIDE DEF r, pc
  <2>5. SameLives
    BY <1>e, <2>1, <2>2, <2>3, <2>4, RowLives
  <2> QED
    BY <1>3, <1>q, <2>5 DEF ProposeTool, GoesOn, At
<1>4. ASSUME NEW status \in TurnStatus, FinishTurn(t, k, status) PROVE Behind
  <2>1. exec[t][k].pc \in LivePc /\ "ended" \in ClosingPc
    BY <1>4, LivingPlaces DEF FinishTurn, GoesOn, At, ClosingPc
  <2> QED
    BY <1>4, <1>q, <2>1, LeavingLives DEF FinishTurn, GoesOn, At
<1>5. CASE RecordArtifact(t, k)
  BY <1>5, SameExecSameLives, RowsKeptIsSilent
  DEF RecordArtifact, GoesOn, At, Quiet, Behind, AppendArtifact, taskVars
<1>6. CASE StopAtMilestone(t, k)
  <2>1. exec[t][k].pc \in LivePc /\ "ended" \in ClosingPc /\ "none" \in TurnStatus
    BY <1>6, LivingPlaces DEF StopAtMilestone, At, ClosingPc, TurnStatus
  <2> QED
    BY <1>6, <1>q, <2>1, LeavingLives DEF StopAtMilestone, At
<1> QED
  BY <1>1, <1>2, <1>3, <1>4, <1>5, <1>6 DEF Turn

LEMMA EndingBehind ==
    ASSUME TypeOK, ExecTypeOK, NEW t \in Task, NEW k \in Ordinal, Ending(t, k), ~Close(t, k)
    PROVE  Behind
<1>e. exec[t][k] \in Execution /\ exec \in Rows
  BY DEF ExecTypeOK, Rows
<1>p. {"closing", "raised", "aborting", "failing", "pausing", "cancelling", "unknown",
       "completing"} \subseteq ClosingPc
  BY DEF ClosingPc
<1>k. exec[t][k].pc \in ClosingPc /\ mode = "up" /\ Quiet
  BY DEF Ending, Decide, WriteVerdict, HandleFailure, WriteFailure, WriteUnknown, At, ClosingPc
<1>l. exec[t][k].pc \in LivePc /\ Underway(t)
  BY <1>k, LivingPlaces DEF Underway
<1>g. ASSUME NEW pc \in ClosingPc, Goto(t, k, pc) PROVE SameLives
  BY <1>g, <1>l, GotoLives, LivingPlaces DEF ClosingPc
<1>s. ASSUME SameLives, \A u \in Task : Silent(u) PROVE Behind
  BY <1>s, <1>k DEF Quiet, Behind
<1>t. ASSUME NEW target \in {"paused", "cancelled", "completed", "failed"}, NEW p,
             Transition(t, target, p)
      PROVE  \A u \in Task : Silent(u)
  <2>1. Silent(t)
    BY <1>l, <1>t DEF Transition, Silent, TypeOK
  <2> QED
    BY <1>t, <2>1, OneSilent DEF Transition, TypeOK
<1>u. UNCHANGED vars => \A u \in Task : Silent(u)
  BY RowsKeptIsSilent DEF vars, taskVars
<1>1. CASE Decide(t, k)
  <2>1. Verdict(t, k) \in ClosingPc
    BY <1>p DEF Verdict
  <2>2. exec[t][k].latch \in BOOLEAN /\ "none" \in TurnStatus
    BY <1>e DEF Execution, TurnStatus
  <2>3. SameLives
    BY <1>1, <1>l, <2>1, <2>2, LeavingLives DEF Decide
  <2> QED
    BY <1>1, <1>s, <1>u, <2>3 DEF Decide
<1>2. CASE WriteVerdict(t, k)
  <2> DEFINE target == VerdictTarget[exec[t][k].pc]
  <2>1. target \in {"paused", "cancelled", "completed", "failed"}
    BY <1>2, VerdictTargets DEF WriteVerdict
  <2>2. SameLives
    BY <1>2, <1>g, <1>p DEF WriteVerdict
  <2>3. UNCHANGED vars \/ \E p : Transition(t, target, p)
    BY <1>2 DEF WriteVerdict
  <2> HIDE DEF target
  <2> QED
    BY <1>s, <1>t, <1>u, <2>1, <2>2, <2>3
<1>3. CASE HandleFailure(t, k)
  <2> DEFINE to == IF state[t] \in Terminal THEN "closing"
                  ELSE IF cancelRequested[t] THEN "aborting"
                  ELSE IF state[t] = "waiting_approval" THEN "closing"
                  ELSE "failing"
  <2>1. Goto(t, k, to)
    BY <1>3 DEF HandleFailure
  <2>2. to \in ClosingPc
    BY <1>p
  <2> HIDE DEF to
  <2>3. SameLives
    BY <1>g, <2>1, <2>2
  <2> QED
    BY <1>3, <1>s, <1>u, <2>3 DEF HandleFailure
<1>4. CASE WriteFailure(t, k)
  <2> DEFINE target == VerdictTarget[exec[t][k].pc]
  <2>1. target \in {"paused", "cancelled", "completed", "failed"}
    BY <1>4, VerdictTargets DEF WriteFailure
  <2>2. SameLives
    BY <1>4, <1>g, <1>p DEF WriteFailure
  <2>3. UNCHANGED vars \/ \E p : Transition(t, target, p)
    BY <1>4 DEF WriteFailure
  <2> HIDE DEF target
  <2> QED
    BY <1>s, <1>t, <1>u, <2>1, <2>2, <2>3
<1>5. CASE WriteUnknown(t, k)
  <2>1. SameLives
    BY <1>5, <1>g, <1>p DEF WriteUnknown
  <2>2. CASE PauseForUnknownToolOutcome(t)
    <3>1. Silent(t)
      BY <2>2 DEF PauseForUnknownToolOutcome, Silent, TypeOK
    <3>2. \A u \in Task : Silent(u)
      BY <2>2, <3>1, OneSilent DEF PauseForUnknownToolOutcome, TypeOK
    <3> QED
      BY <1>s, <2>1, <3>2
  <2> QED
    BY <1>5, <1>s, <1>u, <2>1, <2>2 DEF WriteUnknown
<1> QED
  BY <1>1, <1>2, <1>3, <1>4, <1>5 DEF Ending

\* A waiting execution that goes on with its answer.
LEMMA AnsweredLives ==
    ASSUME ExecTypeOK, NEW t \in Task, NEW k \in Ordinal, exec[t][k].pc \in WaitPc,
           NEW pc \in {"beginning", "turn"},
           exec' = [exec EXCEPT ![t][k].answer = "none", ![t][k].pc = pc]
    PROVE  SameLives
<1> DEFINE r == [exec[t][k] EXCEPT !.answer = "none", !.pc = pc]
<1>1. exec[t][k] \in Execution /\ exec \in Rows
  BY DEF ExecTypeOK, Rows
<1>2. pc \in Pc /\ pc \in LivePc \ {"approving", "denying"} /\ exec[t][k].pc \in LivePc
  BY LivingPlaces DEF Pc, LivePc, TurnPc
<1>3. r \in Execution /\ r.pc = pc
  BY <1>1, <1>2 DEF Execution, Answer
<1>4. exec' = [exec EXCEPT ![t] = [exec[t] EXCEPT ![k] = r]]
  BY <1>1 DEF Rows, Execution
<1> HIDE DEF r
<1> QED
  BY <1>1, <1>2, <1>3, <1>4, RowLives

LEMMA AskingBehind ==
    ASSUME TypeOK, ExecTypeOK, StepKnown, NEW t \in Task, NEW k \in Ordinal,
           NEW stale \in BOOLEAN, AskApproval(t, k, stale)
    PROVE  Behind
<1> DEFINE a == ActionAsked(t, k)
           outcome == ConfirmOutcome(t, a)
           pc == CASE outcome = "requested" -> "registering"
                   [] outcome = "pending" -> "rejoining"
                   [] OTHER -> AfterConfirm(t, k, outcome = "approved", stale)
<1>1. exec[t][k].pc = "confirming" /\ mode = "up" /\ Quiet /\ Goto(t, k, pc)
  BY DEF AskApproval, At
<1>2. AfterConfirm(t, k, outcome = "approved", stale) \in {"beginning", "turn"}
  BY AnswerDecides
<1>3. pc \in LivePc \ {"approving", "denying"} /\ exec[t][k].pc \in LivePc
  BY <1>1, <1>2 DEF LivePc, TurnPc
<1>4. UNCHANGED vars \/ RequestApproval(t, a)
  BY DEF AskApproval
<1> HIDE DEF pc, outcome
<1>5. SameLives
  BY <1>1, <1>3, GotoLives
<1>6. ASSUME RequestApproval(t, a) PROVE \A u \in Task : Silent(u)
  <2>1. Silent(t)
    BY <1>6 DEF RequestApproval, Silent, Active, TypeOK
  <2> QED
    BY <1>6, <2>1, OneSilent DEF RequestApproval, TypeOK
<1>7. \A u \in Task : Silent(u)
  BY <1>4, <1>6, RowsKeptIsSilent DEF vars, taskVars
<1> QED
  BY <1>1, <1>5, <1>7 DEF Behind, Quiet

\* Only a reviewer that decides by itself resolves an approval from inside an execution.
LEMMA AutoResolveBehind ==
    ASSUME TypeOK, ExecTypeOK, Reviewer = "auto", NEW t \in Task, NEW k \in Ordinal,
           NEW stale \in BOOLEAN, AutoResolve(t, k, stale)
    PROVE  Behind
<1> DEFINE a == ActionAsked(t, k)
           decision == IF exec[t][k].pc = "approving" THEN "approved" ELSE "denied"
           open == approval[t][a] = "pending" /\ state[t] = "waiting_approval"
           final == IF open THEN decision ELSE approval[t][a]
           pc == AfterConfirm(t, k, final = "approved", stale)
<1>1. pc \in {"beginning", "turn"}
  BY AnswerDecides
<1>2. exec[t][k].pc \in WaitPc /\ exec[t][k].pc \in LivePc /\ Underway(t)
  BY LivingPlaces DEF AutoResolve, WaitPc, Underway
<1>3. /\ exec' = [exec EXCEPT ![t][k].answer = "none", ![t][k].pc = pc] /\ mode = "up"
      /\ UNCHANGED <<mode, worker, wake>>
  BY DEF AutoResolve
<1>4. UNCHANGED vars \/ \E d, r : ResolveApproval(t, a, d, r)
  BY DEF AutoResolve
<1> HIDE DEF pc
<1>5. SameLives
  BY <1>1, <1>2, <1>3, AnsweredLives
<1>6. ASSUME NEW d, NEW r, ResolveApproval(t, a, d, r) PROVE \A u \in Task : Silent(u)
  <2>1. Silent(t)
    BY <1>2 DEF Silent
  <2> QED
    BY <1>6, <2>1, OneSilent DEF ResolveApproval, TypeOK
<1>7. \A u \in Task : Silent(u)
  BY <1>4, <1>6, RowsKeptIsSilent DEF vars, taskVars
<1> QED
  BY <1>3, <1>5, <1>7 DEF Behind

LEMMA ConfirmationBehind ==
    ASSUME TypeOK, ExecTypeOK, StepKnown, NEW t \in Task, NEW k \in Ordinal,
           exec[t][k].pc \in {"approving", "denying"} => Reviewer = "auto",
           Confirmation(t, k)
    PROVE  Behind
<1>1. ASSUME NEW stale \in BOOLEAN, TakeAnswer(t, k, stale) PROVE Behind
  <2> DEFINE pc == AfterConfirm(t, k, exec[t][k].answer = "yes", stale)
  <2>1. pc \in {"beginning", "turn"}
    BY AnswerDecides
  <2>2. exec[t][k].pc \in WaitPc /\ mode = "up"
    BY <1>1 DEF TakeAnswer, At, WaitPc
  <2>3. /\ exec' = [exec EXCEPT ![t][k].answer = "none", ![t][k].pc = pc]
        /\ UNCHANGED <<vars, mode, worker, wake>>
    BY <1>1 DEF TakeAnswer
  <2> HIDE DEF pc
  <2>4. SameLives
    BY <2>1, <2>2, <2>3, AnsweredLives
  <2> QED
    BY <2>2, <2>3, <2>4, RowsKeptIsSilent DEF Behind, vars, taskVars
<1>2. ASSUME RegisterWaiter(t, k) PROVE Behind
  <2> DEFINE pc == IF Reviewer # "off" /\ At(t, k, "registering") THEN "reviewing" ELSE "waiting"
  <2>1. exec[t][k].pc \in LivePc /\ mode = "up" /\ UNCHANGED <<vars, mode, worker, wake>>
    BY <1>2 DEF RegisterWaiter, At, LivePc, TurnPc
  <2>2. Goto(t, k, "turn") \/ Goto(t, k, pc)
    BY <1>2 DEF RegisterWaiter
  <2>3. {pc, "turn"} \subseteq LivePc \ {"approving", "denying"}
    BY DEF LivePc, TurnPc
  <2> HIDE DEF pc
  <2>4. SameLives
    BY <2>1, <2>2, <2>3, GotoLives
  <2> QED
    BY <2>1, <2>4, RowsKeptIsSilent DEF Behind, vars, taskVars
<1>3. ASSUME NEW opinion \in {"failed", "escalate", "approving", "denying"},
             Review(t, k, opinion)
      PROVE  Behind
  <2> DEFINE pc == IF Reviewer = "auto" /\ opinion \in {"approving", "denying"}
                   THEN opinion ELSE "waiting"
  <2>1. exec[t][k].pc \in LivePc /\ mode = "up" /\ UNCHANGED <<vars, mode, worker, wake>>
    BY <1>3 DEF Review, At, LivePc, TurnPc
  <2>2. Goto(t, k, pc)
    BY <1>3 DEF Review
  <2>3. pc \in LivePc /\ (pc \in {"approving", "denying"} => Reviewer = "auto")
    BY DEF LivePc, TurnPc
  <2> HIDE DEF pc
  <2>4. SameLives
    BY <2>1, <2>2, <2>3, GotoLives
  <2> QED
    BY <2>1, <2>4, RowsKeptIsSilent DEF Behind, vars, taskVars
<1>4. ASSUME NEW stale \in BOOLEAN, AutoResolve(t, k, stale) PROVE Behind
  <2>1. Reviewer = "auto"
    BY <1>4 DEF AutoResolve
  <2> QED
    BY <1>4, <2>1, AutoResolveBehind
<1> QED
  BY <1>1, <1>2, <1>3, <1>4, AskingBehind DEF Confirmation

LEMMA CommitBehind ==
    ASSUME TypeOK, ExecTypeOK, NEW t \in Task, NEW k \in Ordinal, Commit(t, k)
    PROVE  Behind
<1>1. /\ exec[t][k].pc \in LivePc /\ mode = "up" /\ UNCHANGED <<mode, worker, wake>>
      /\ UNCHANGED <<state, phase>>
  BY DEF Commit, BeginCommit, RunTool, FinishCommit, CheckpointFails, At, Quiet, LivePc, TurnPc,
         BeginToolStep, FinishToolStep, vars, taskVars
<1>2. \E pc \in {"effect", "turn", "finishing"} : Goto(t, k, pc)
  BY DEF Commit, BeginCommit, RunTool, FinishCommit, CheckpointFails
<1>3. {"effect", "turn", "finishing"} \subseteq LivePc \ {"approving", "denying"}
  BY DEF LivePc, TurnPc
<1>4. SameLives
  BY <1>1, <1>2, <1>3, GotoLives
<1> QED
  BY <1>1, <1>4, RowsKeptIsSilent DEF Behind

LEMMA SignalsBehind ==
    ASSUME TypeOK, ExecTypeOK, NEW t \in Task, NEW k \in Ordinal,
           Heartbeat(t, k) \/ Bridge(t, k) \/ TurnTimesOut(t, k)
    PROVE  Behind
<1>e. exec[t][k] \in Execution /\ exec \in Rows
  BY DEF ExecTypeOK, Rows
<1>1. mode = "up" /\ UNCHANGED <<mode, worker, wake, state, phase>>
  BY DEF Heartbeat, Bridge, TurnTimesOut, Quiet, RenewLease, vars, taskVars
<1>2. \A u \in Task, j \in Ordinal : exec'[u][j].pc = exec[u][j].pc
  <2>1. CASE exec' = exec
    BY <2>1
  <2>2. CASE exec' = [exec EXCEPT ![t][k].stop = TRUE]
    BY <1>e, <2>2 DEF Rows, Execution
  <2>3. CASE exec' = [exec EXCEPT ![t][k].beat = FALSE]
    BY <1>e, <2>3 DEF Rows, Execution
  <2> QED
    BY <2>1, <2>2, <2>3 DEF Heartbeat, Bridge, TurnTimesOut
<1> QED
  BY <1>1, <1>2, RowsKeptIsSilent DEF Behind, SameLives, GoesOnLiving

LEMMA CommandBehind ==
    ASSUME TypeOK, ExecTypeOK, NEW t \in Task, Command(t) \/ LeaseLapses(t)
    PROVE  Behind
<1>e. \A j \in Ordinal : exec[t][j] \in Execution
  BY DEF ExecTypeOK
<1>1. CASE LeaseLapses(t)
  BY <1>1, SameExecSameLives, RowsKeptIsSilent DEF LeaseLapses, LeaseExpires, memory, Behind
<1>2. CASE SubmitTask(t)
  <2>1. ~wake' => Silent(t)
    BY <1>2 DEF SubmitTask, Create, CreateOutcome, Created, InitialPhase, Silent, TypeOK
  <2>2. \A u \in Task : u # t => state'[u] = state[u] /\ phase'[u] = phase[u]
    BY <1>2 DEF SubmitTask, Create, TypeOK
  <2>3. ~wake' => \A u \in Task : Silent(u)
    BY <2>1, <2>2, OneSilent
  <2> QED
    BY <1>2, <2>3, SameExecSameLives, Zenon DEF SubmitTask, Idle, Behind
<1>3. CASE ActivateTask(t) \/ \E ack \in BOOLEAN : ResumeTask(t, ack)
  BY <1>3, SameExecSameLives DEF ActivateTask, ResumeTask, Idle, Behind
<1>4. CASE CancelTask(t)
  <2>1. ASSUME RequestCancel(t) PROVE \A u \in Task : Silent(u)
    <3>1. Silent(t)
      BY <2>1 DEF RequestCancel, CancelIdle, CancelRunning, Silent, TypeOK
    <3> QED
      BY <2>1, <3>1, OneSilent DEF RequestCancel, CancelIdle, CancelRunning, TypeOK
  <2>2. \A u \in Task : Silent(u)
    BY <1>4, <2>1, RowsKeptIsSilent DEF CancelTask, vars, taskVars
  <2> QED
    BY <1>4, <2>2, SameExecSameLives DEF CancelTask, Behind
<1>5. CASE PauseTask(t)
  <2>1. ASSUME RequestPause(t) PROVE \A u \in Task : Silent(u)
    <3>1. Silent(t)
      BY <2>1 DEF RequestPause, PauseIdle, PauseRunning, Silent, TypeOK
    <3> QED
      BY <2>1, <3>1, OneSilent DEF RequestPause, PauseIdle, PauseRunning, TypeOK
  <2>2. \A u \in Task : Silent(u)
    BY <1>5, <2>1, RowsKeptIsSilent DEF PauseTask, vars, taskVars
  <2> QED
    BY <1>5, <2>2, SameExecSameLives DEF PauseTask, Behind, history
<1>6. CASE SignalLatch(t)
  <2>1. \A u \in Task, j \in Ordinal : exec'[u][j].pc = exec[u][j].pc
    BY <1>6, <1>e DEF SignalLatch, ExecTypeOK, Execution
  <2> QED
    BY <1>6, <2>1, RowsKeptIsSilent
    DEF SignalLatch, Behind, SameLives, GoesOnLiving, vars, taskVars
<1>7. CASE CancelWaiters(t)
  <2>1. \A u \in Task, j \in Ordinal : exec'[u][j].pc = exec[u][j].pc
    BY <1>7, <1>e DEF CancelWaiters, ExecTypeOK, Execution
  <2> QED
    BY <1>7, <2>1, RowsKeptIsSilent
    DEF CancelWaiters, Behind, SameLives, GoesOnLiving, vars, taskVars
<1>8. ASSUME NEW a \in Action, NEW d \in {"approved", "denied"}, ResolveTask(t, a, d)
      PROVE  Behind
  <2>1. \A u \in Task, j \in Ordinal : exec'[u][j].pc = exec[u][j].pc
    BY <1>8, <1>e DEF ResolveTask, Answered, ExecTypeOK, Execution
  <2>2. ResolveApproval(t, a, d, ResumeStateFor(t, a)) /\ wake' = (wake \/ waiter[t][a] = 0)
        /\ mode = "up" /\ mode' = mode /\ worker' = worker
    BY <1>8 DEF ResolveTask
  <2>3. ~wake' => Silent(t)
    <3> SUFFICES ASSUME ~wake' PROVE Silent(t)
      OBVIOUS
    <3>1. waiter[t][a] # 0
      BY <2>2
    <3>2. ResolveApproval(t, a, d, "running")
      BY <2>2, <3>1 DEF ResumeStateFor
    <3> QED
      BY <3>2 DEF ResolveApproval, Silent, Active, TypeOK
  <2>4. \A u \in Task : u # t => state'[u] = state[u] /\ phase'[u] = phase[u]
    BY <2>2 DEF ResolveApproval, TypeOK
  <2>5. ~wake' => \A u \in Task : Silent(u)
    BY <2>3, <2>4, OneSilent
  <2>6. SameLives
    BY <2>1 DEF SameLives, GoesOnLiving
  <2>7. wake => wake'
    BY <2>2, Zenon
  <2> QED
    BY <2>2, <2>5, <2>6, <2>7, Zenon DEF Behind
<1> QED
  BY <1>1, <1>2, <1>3, <1>4, <1>5, <1>6, <1>7, <1>8 DEF Command

\* A finished execution that still holds its slot has told the worker loop so.
OverIsTold ==
    mode = "up" => \A t \in Task, k \in Ordinal : exec[t][k].pc = "over" => wake

\* Only a reviewer that decides by itself lets an execution resolve its approval.
AutoDecides ==
    \A t \in Task, k \in Ordinal : exec[t][k].pc \in {"approving", "denying"} => Reviewer = "auto"

\* What makes a lost wake-up impossible: the executor's invariant, the order of creation,
\* which makes one of the claimable Tasks the first, and these.
WakeInv == ExecInv /\ CreationOrder /\ OverIsTold /\ AutoDecides /\ NoLostWakeup

\* The steps of a running Core that the worker loop does not take part in.
BehindNext ==
    \/ \E t \in Task : Command(t) \/ LeaseLapses(t)
    \/ \E t \in Task, k \in Ordinal :
         \/ Turn(t, k) \/ Confirmation(t, k) \/ Commit(t, k) \/ (Ending(t, k) /\ ~Close(t, k))
         \/ Heartbeat(t, k) \/ Bridge(t, k) \/ TurnTimesOut(t, k)

LEMMA StepsBehind == ExecInv /\ AutoDecides /\ BehindNext => Behind
<1> SUFFICES ASSUME ExecInv, AutoDecides, BehindNext PROVE Behind
  OBVIOUS
<1>1. TypeOK /\ ExecTypeOK /\ StepKnown
  BY DEF ExecInv, StepInv
<1> QED
  BY <1>1, CommandBehind, TurnBehind, ConfirmationBehind, CommitBehind, EndingBehind, SignalsBehind
  DEF BehindNext, AutoDecides

\* Behind the back of the worker loop nothing becomes claimable that is not overlooked.
LEMMA BehindKeepsOverlooked ==
    ASSUME ExecInv, [Next]_vars, Behind, ~wake',
           \A t \in Task : Claimable(t) => Overlooked(t)
    PROVE  \A t \in Task : Claimable(t)' => Overlooked(t)'
<1>1. \A u \in Task : Underway(u) => Underway(u)'
  BY DEF Behind, SameLives, GoesOnLiving, Underway
<1>2. \A u \in Task : Silent(u)
  BY DEF Behind
<1>3. \A u \in Task : state[u] = "cancelled" => state'[u] = "cancelled"
  BY NextLeavesTerminal DEF ExecInv, Terminal, Untouched
<1> SUFFICES ASSUME NEW t \in Task, Claimable(t)' PROVE Overlooked(t)'
  OBVIOUS
<1>4. /\ state'[t] = "queued" /\ phase'[t] # "delegation_staged"
      /\ \A u \in Task : SessionOf[u] = SessionOf[t] => state'[u] \notin Active
  BY DEF Claimable, SessionBusy
<1>5. ASSUME NEW u \in Task \ {t}, SessionOf[u] = SessionOf[t],
             Underway(u)' \/ state'[u] \in {"cancelled", "paused"}
      PROVE  Overlooked(t)'
  BY <1>5 DEF Overlooked
<1>6. Reviewer = "auto" /\ Underway(t) => Overlooked(t)'
  BY <1>1 DEF Overlooked
<1>7. CASE Claimable(t)
  <2>1. CASE Reviewer = "auto" /\ Underway(t)
    BY <1>6, <2>1
  <2>2. ASSUME NEW u \in Task \ {t}, SessionOf[u] = SessionOf[t],
               Underway(u) \/ state[u] \in {"cancelled", "paused"}
        PROVE  Overlooked(t)'
    <3>1. Underway(u)' \/ state'[u] \in {"cancelled", "paused"}
      BY <1>1, <1>2, <1>3, <2>2 DEF Silent, Active
    <3> QED
      BY <1>5, <2>2, <3>1
  <2> QED
    BY <1>7, <2>1, <2>2 DEF Overlooked
<1>8. CASE state[t] # "queued" \/ phase[t] = "delegation_staged"
  <2>1. Underway(t) /\ Reviewer = "auto"
    BY <1>2, <1>4, <1>8 DEF Silent, Active
  <2> QED
    BY <1>6, <2>1
<1>9. CASE state[t] = "queued" /\ phase[t] # "delegation_staged" /\ SessionBusy(SessionOf[t])
  <2>1. PICK u \in Task : SessionOf[u] = SessionOf[t] /\ state[u] \in Active
    BY <1>9 DEF SessionBusy
  <2>2. u # t
    BY <1>9, <2>1 DEF Active
  <2>3. state'[u] \in {"cancelled", "paused"} \/ Underway(u)
    BY <1>2, <1>4, <2>1 DEF Silent, Active
  <2> QED
    BY <1>1, <1>5, <2>1, <2>2, <2>3
<1> QED
  BY <1>7, <1>8, <1>9 DEF Claimable

\* The executions that hold the attention of NoLostWakeup.
Running == {x \in Task \X Ordinal : exec[x[1]][x[2]].pc \in LivePc}

\* The situation NoLostWakeup is about.
Unattended ==
    /\ mode = "up" /\ worker = "asleep" /\ ~wake
    /\ Cardinality(Running) < MaxConcurrency
    /\ \A u \in Task : attemptCount[u] < MaxAttempts

LEMMA NoLostWakeupReads ==
    NoLostWakeup <=> (Unattended => \A t \in Task : Claimable(t) => Overlooked(t))
BY DEF NoLostWakeup, Unattended, Running

LEMMA NoLostWakeupReadsNext ==
    NoLostWakeup' <=> (Unattended' => \A t \in Task : Claimable(t)' => Overlooked(t)')
BY DEF NoLostWakeup, Unattended, Running

LEMMA BehindKeepsWakeups ==
    ASSUME ExecInv, [Next]_vars, OnlineNext \/ UNCHANGED vars, Behind, NoLostWakeup
    PROVE  NoLostWakeup'
<1> SUFFICES ASSUME Unattended' PROVE \A t \in Task : Claimable(t)' => Overlooked(t)'
  BY NoLostWakeupReadsNext
<1>1. mode = "up" /\ worker = "asleep" /\ ~wake /\ ~wake'
  BY DEF Behind, Unattended
<1>2. Running' = Running
  BY DEF Running, Behind, SameLives, GoesOnLiving
<1>3. \A u \in Task : attemptCount[u] < MaxAttempts
  <2> SUFFICES ASSUME NEW u \in Task PROVE attemptCount[u] < MaxAttempts
    OBVIOUS
  <2>1. attemptCount'[u] >= attemptCount[u] /\ attemptCount'[u] \in Nat
    BY AttemptsOnlyGrow DEF ExecInv
  <2>2. attemptCount'[u] < MaxAttempts /\ attemptCount[u] \in Nat /\ MaxAttempts \in Nat
    BY ConstantsAssumption DEF Unattended, ExecInv, TypeOK
  <2> QED
    BY <2>1, <2>2
<1>4. Unattended
  BY <1>1, <1>2, <1>3 DEF Unattended
<1>5. \A t \in Task : Claimable(t) => Overlooked(t)
  BY <1>4, NoLostWakeupReads
<1> QED
  BY <1>1, <1>5, BehindKeepsOverlooked

\* The worker loop only falls asleep over an empty queue or full slots.
LEMMA SleepingKeepsWakeups ==
    ASSUME ExecInv, CreationOrder, OverIsTold, WorkerSleeps PROVE NoLostWakeup'
<1> SUFFICES ASSUME Unattended', NEW t \in Task, Claimable(t)' PROVE FALSE
  BY NoLostWakeupReadsNext
<1>1. mode = "up" /\ UNCHANGED <<vars, mode, wake, exec>>
  BY DEF WorkerSleeps
<1>2. ~wake /\ Claimable(t) /\ \A u \in Task : attemptCount[u] < MaxAttempts
  BY <1>1 DEF Unattended, Claimable, SessionBusy, vars, taskVars, attemptVars
<1>3. Slots = Running /\ Running' = Running
  BY <1>1, <1>2 DEF Slots, Running, OverIsTold
<1>4. \A u \in Task : ~CanClaim(u)
  BY <1>3 DEF WorkerSleeps, Unattended
<1>5. PICK u \in Task : NextClaim(u)
  BY <1>2, SomethingIsNext DEF ExecInv
<1> QED
  BY <1>2, <1>4, <1>5 DEF CanClaim

\* In every other step the worker loop is awake, is told, or Core is not up.
LEMMA AttendedStep ==
    ASSUME ExecNext, ~BehindNext, ~WorkerSleeps PROVE NoLostWakeup'
<1>1. mode' # "up" \/ worker' # "asleep" \/ wake'
  <2>1. CASE Worker
    BY <2>1 DEF Worker, WorkerWakes, WorkerRecovers, WorkerClaims, WorkerRegisters
  <2>2. CASE Process
    BY <2>2 DEF Process, Stop, Halt, Restart, DenyOnStop
  <2>3. ASSUME NEW t \in Task, NEW k \in Ordinal, Close(t, k) PROVE wake'
    BY <2>3 DEF Close
  <2> QED
    BY <2>1, <2>2, <2>3 DEF ExecNext, BehindNext
<1> QED
  BY <1>1, NoLostWakeupReadsNext DEF Unattended

LEMMA ToldKept ==
    ASSUME ExecInv, OverIsTold, AutoDecides, ExecNext PROVE OverIsTold' /\ AutoDecides'
<1>e. exec \in Rows /\ \A t \in Task, k \in Ordinal : exec[t][k] \in Execution
  BY DEF ExecInv, ExecTypeOK, Rows
<1>n. NoExecution.pc = "none" /\ [NoExecution EXCEPT !.pc = "gone"].pc = "gone"
      /\ [NoExecution EXCEPT !.pc = "over"].pc = "over"
      /\ [NoExecution EXCEPT !.pc = "over"] \in Execution
  BY NoExecutionTyped DEF NoExecution, Execution, Pc
<1>1. CASE BehindNext
  <2>1. Behind
    BY <1>1, StepsBehind
  <2>2. "over" \notin LivePc
    BY DEF LivePc, TurnPc, ClosingPc
  <2> QED
    BY <2>1, <2>2, Zenon DEF Behind, SameLives, GoesOnLiving, OverIsTold, AutoDecides
<1>2. CASE WorkerWakes
  <2>1. \A t \in Task, k \in Ordinal :
           exec'[t][k].pc = IF exec[t][k].pc = "over" THEN "gone" ELSE exec[t][k].pc
    BY <1>2, <1>n DEF WorkerWakes
  <2> QED
    BY <2>1 DEF OverIsTold, AutoDecides
<1>3. CASE WorkerRecovers \/ WorkerSleeps
  BY <1>3 DEF WorkerRecovers, WorkerSleeps, OverIsTold, AutoDecides
<1>4. ASSUME NEW t \in Task, WorkerClaims(t) PROVE OverIsTold' /\ AutoDecides'
  <2>1. /\ attemptCount[t] + 1 \in Ordinal /\ "claimed" \in Pc
        /\ Goto(t, attemptCount[t] + 1, "claimed") /\ UNCHANGED <<mode, wake>>
    BY <1>4, ConstantsAssumption DEF WorkerClaims, CanClaim, ExecInv, TypeOK, Ordinal, Pc
  <2> DEFINE k == attemptCount[t] + 1
             r == [exec[t][k] EXCEPT !.pc = "claimed"]
  <2>2. RowBecomes(t, k, r)
    BY <1>e, <2>1, GotoMoves
  <2>3. r.pc = "claimed"
    BY <1>e, <2>1 DEF Execution
  <2> HIDE DEF r, k
  <2> QED
    BY <2>1, <2>2, <2>3 DEF RowBecomes, OverIsTold, AutoDecides
<1>5. ASSUME NEW t \in Task, NEW k \in Ordinal, WorkerRegisters(t, k)
      PROVE  OverIsTold' /\ AutoDecides'
  <2> DEFINE r == [exec[t][k] EXCEPT !.pc = "start", !.beat = TRUE]
  <2>1. r \in Execution /\ r.pc = "start"
    BY <1>e DEF Execution, Pc, LivePc
  <2>2. exec' = [exec EXCEPT ![t] = [exec[t] EXCEPT ![k] = r]] /\ UNCHANGED <<mode, wake>>
    BY <1>5, <1>e DEF WorkerRegisters, Rows, Execution
  <2> HIDE DEF r
  <2>3. RowBecomes(t, k, r)
    BY <1>e, <2>1, <2>2, RowReplaced
  <2> QED
    BY <2>1, <2>2, <2>3 DEF RowBecomes, OverIsTold, AutoDecides
<1>6. ASSUME NEW t \in Task, NEW k \in Ordinal, Close(t, k) PROVE OverIsTold' /\ AutoDecides'
  <2> DEFINE r == [NoExecution EXCEPT !.pc = "over"]
  <2>1. exec' = [exec EXCEPT ![t] = [exec[t] EXCEPT ![k] = r]] /\ wake'
    BY <1>6, <1>e DEF Close, Rows
  <2>2. r \in Execution /\ r.pc = "over"
    BY <1>n
  <2> HIDE DEF r
  <2>3. RowBecomes(t, k, r)
    BY <1>e, <2>1, <2>2, RowReplaced
  <2> QED
    BY <2>1, <2>2, <2>3 DEF RowBecomes, OverIsTold, AutoDecides
<1>7. CASE Halt
  BY <1>7, <1>n DEF Halt, ForgetTasks, OverIsTold, AutoDecides
<1>8. CASE Stop \/ Restart \/ \E t \in Task, a \in Action : DenyOnStop(t, a)
  BY <1>8 DEF Stop, Restart, DenyOnStop, OverIsTold, AutoDecides
<1> QED
  BY <1>1, <1>2, <1>3, <1>4, <1>5, <1>6, <1>7, <1>8 DEF ExecNext, BehindNext, Worker, Process

LEMMA WakeInvKept == WakeInv /\ [ExecNext]_execVars => WakeInv'
<1> SUFFICES ASSUME WakeInv, [ExecNext]_execVars PROVE WakeInv'
  OBVIOUS
<1>i. ExecInv /\ CreationOrder /\ OverIsTold /\ AutoDecides /\ NoLostWakeup /\ TypeOK
  BY DEF WakeInv, ExecInv
<1>1. ExecInv' /\ [Next]_vars
  BY <1>i, ExecInvKept, ExecStepImplements
<1>2. CreationOrder'
  BY <1>i, <1>1, NextKeepsOrder
<1>3. CASE UNCHANGED execVars
  <2>1. OverIsTold' /\ AutoDecides'
    BY <1>3, <1>i DEF execVars, memory, OverIsTold, AutoDecides
  <2>2. NoLostWakeup'
    BY <1>3, <1>i
    DEF execVars, memory, vars, taskVars, attemptVars, NoLostWakeup, Claimable, SessionBusy,
        Overlooked, Underway
  <2> QED
    BY <1>1, <1>2, <2>1, <2>2 DEF WakeInv
<1>4. CASE ExecNext
  <2>1. OverIsTold' /\ AutoDecides'
    BY <1>4, <1>i, ToldKept
  <2>2. NoLostWakeup'
    <3>1. CASE BehindNext
      <4>1. Behind
        BY <1>i, <3>1, StepsBehind
      <4>2. ~Restart
        BY <4>1 DEF Behind, Restart
      <4>3. OnlineNext \/ UNCHANGED vars
        BY <1>4, <1>i, <4>2, StepsAreTransactions DEF ExecInv, StepInv
      <4> QED
        BY <1>1, <1>i, <4>1, <4>3, BehindKeepsWakeups
    <3>2. CASE WorkerSleeps
      BY <1>i, <3>2, SleepingKeepsWakeups
    <3>3. CASE ~BehindNext /\ ~WorkerSleeps
      BY <1>4, <3>3, AttendedStep
    <3> QED
      BY <3>1, <3>2, <3>3
  <2> QED
    BY <1>1, <1>2, <2>1, <2>2 DEF WakeInv
<1> QED
  BY <1>3, <1>4

LEMMA WakeInvInit == ExecInit => WakeInv
<1> SUFFICES ASSUME ExecInit PROVE WakeInv
  OBVIOUS
<1>1. ExecInv /\ CreationOrder
  BY ExecInvInit, InitOrder DEF ExecInit
<1>2. \A t \in Task, k \in Ordinal : exec[t][k].pc = "none"
  BY DEF ExecInit, ForgetTasks, NoExecution
<1>3. wake
  BY DEF ExecInit
<1>4. OverIsTold /\ AutoDecides
  BY <1>2 DEF OverIsTold, AutoDecides
<1>5. NoLostWakeup
  BY <1>3, NoLostWakeupReads DEF Unattended
<1> QED
  BY <1>1, <1>4, <1>5 DEF WakeInv

\* No wake-up is lost: however submissions, activations, resumptions, decisions, ending
\* executions, crashes and restarts fall between the worker loop's scan and its wait, the loop
\* does not sleep on a claimable Task while it has a free slot, but for the overlooked Tasks,
\* which wait for its next wake-up.
THEOREM WakeupsKept == ExecSpec => []NoLostWakeup
<1>1. WakeInv => NoLostWakeup
  BY DEF WakeInv
<1> QED
  BY <1>1, WakeInvInit, WakeInvKept, PTL DEF ExecSpec

=============================================================================
