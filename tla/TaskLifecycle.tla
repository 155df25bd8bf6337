--------------------------- MODULE TaskLifecycle ---------------------------
(***************************************************************************)
(* What the durable Task aggregate promises its clients, with every table  *)
(* but the state column forgotten: the life of a Task, and that the Tasks  *)
(* of one session are executed one at a time.                              *)
(***************************************************************************)
CONSTANTS Task, SessionOf
VARIABLE status

Executing(t) == status[t] \in {"running", "waiting_approval"}
SessionFree(t) == \A u \in Task : SessionOf[u] = SessionOf[t] => ~Executing(u)

Move(t, from, to) == status[t] \in from /\ status' = [status EXCEPT ![t] = to]

LifeInit == status = [t \in Task |-> "absent"]

Accept(t) == Move(t, {"absent"}, "queued")
Start(t) == SessionFree(t) /\ Move(t, {"queued"}, "running")
Ask(t) == Move(t, {"running"}, "waiting_approval")
Answer(t) == \E to \in {"running", "queued"} : Move(t, {"waiting_approval"}, to)
Hold(t) == Move(t, {"queued", "running", "waiting_approval"}, "paused")
Requeue(t) == Move(t, {"paused"}, "queued")
Complete(t) == Move(t, {"running"}, "completed")
Fail(t) == Move(t, {"running", "paused"}, "failed")
Cancel(t) == Move(t, {"queued", "running", "waiting_approval", "paused"}, "cancelled")

\* A recovery pass suspends several running Tasks at once.
Suspend(S) ==
    /\ \A t \in S : status[t] = "running"
    /\ status' = [t \in Task |-> IF t \in S THEN "paused" ELSE status[t]]

TaskMove(t) ==
    \/ Accept(t) \/ Start(t) \/ Ask(t) \/ Answer(t) \/ Hold(t) \/ Requeue(t)
    \/ Complete(t) \/ Fail(t) \/ Cancel(t)

LifeNext == (\E t \in Task : TaskMove(t)) \/ (\E S \in SUBSET Task : Suspend(S))

LifeSpec == LifeInit /\ [][LifeNext]_status

=============================================================================
