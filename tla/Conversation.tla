---------------------------- MODULE Conversation ----------------------------
(***************************************************************************)
(* A ChatTurn of a conversation: ConversationService._execute() runs it,   *)
(* ConversationApprovalService asks for the approval of a tool call,       *)
(* clients answer, cancel and watch.                                       *)
(*                                                                         *)
(* ConversationRepository reads a row before it opens the transaction that *)
(* writes it (a SELECT of Python's sqlite3 does not begin one), and every  *)
(* notification reads a snapshot in another thread and publishes it later, *)
(* so both can be out of date.                                             *)
(***************************************************************************)
EXTENDS Integers, FiniteSets

CONSTANTS
    Approver,    \* the clients that answer
    MaxRestarts  \* bound: restarts of Core

ASSUME ConversationAssumption ==
    /\ MaxRestarts \in Nat
    /\ Approver \cap {"creator", "exec", "later", "canceller"} = {}  \* who else notifies

VARIABLES
    turn,      \* the state of the row of conversation_turns
    approval,  \* the state of the one row of conversation_approvals
    exec,      \* the _execute() coroutine and the confirm() of its tool call
    cancelSet, \* live.cancellation
    future,    \* the future of confirm() in _waiters
    effects,   \* how often the tool has run
    reply,     \* resolve() of every client
    cancel,    \* cancel()
    notice,    \* the _notify() of everyone who calls it
    viewer,    \* the updates() generator and its _LatestSubscription
    orphan,    \* what goes on in its thread after its coroutine is gone
    odd,       \* what has happened that the code does not expect
    restarts   \* how often Core has restarted

cvars == <<turn, approval, exec, cancelSet, future, effects, reply, cancel, notice, viewer,
           orphan, odd, restarts>>

Over == {"completed", "failed", "cancelled"}
TurnState == {"none", "running", "waiting_approval"} \cup Over
ApprovalState == {"none", "pending", "approved", "rejected", "expired"}
ExecPc == {"off", "running", "requesting", "registering", "rechecking", "announcing", "waiting",
           "acting", "ending", "saving", "closing", "sealing", "flushing"}

\* What a signal tells of the turn.
Snapshot == {"live", "over"}
Notifier == {"creator", "exec", "later", "canceller"} \cup Approver

ConversationTypeOK ==
    /\ turn \in TurnState
    /\ approval \in ApprovalState
    /\ exec \in [pc : ExecPc, outcome : Over]
    /\ cancelSet \in BOOLEAN
    /\ future \in {"none", "pending", "yes", "no"}
    /\ effects \in 0..2
    /\ reply \in [Approver -> [pc : {"idle", "writing", "waking", "done"}, yes : BOOLEAN,
                               changed : BOOLEAN]]
    /\ cancel \in [pc : {"idle", "setting", "finding", "expiring", "waking", "done"},
                   found : BOOLEAN]
    /\ notice \in [Notifier -> {"none", "reading"} \cup Snapshot]
    /\ viewer \in [pc : {"absent", "off", "reading", "watching", "ended"}, queue : SUBSET Snapshot]
    /\ Cardinality(viewer.queue) <= 1
    /\ orphan \in [job : {"none", "request", "reading", "writing"}, outcome : Over]
    /\ odd \in [staleWrite : BOOLEAN, lateRequest : BOOLEAN, staleNotice : BOOLEAN]
    /\ restarts \in 0..MaxRestarts

ExecOff == [pc |-> "off", outcome |-> "failed"]
NoReply == [c \in Approver |-> [pc |-> "idle", yes |-> FALSE, changed |-> FALSE]]
Replied == [pc |-> "done", yes |-> FALSE, changed |-> FALSE]
NoCancel == [pc |-> "idle", found |-> FALSE]
NoNotice == [n \in Notifier |-> "none"]
NoViewer == [pc |-> "off", queue |-> {}]
Viewerless == [pc |-> "absent", queue |-> {}]
NoOrphan == [job |-> "none", outcome |-> "failed"]

ConversationInit ==
    /\ turn = "none"
    /\ approval = "none"
    /\ exec = ExecOff
    /\ cancelSet = FALSE
    /\ future = "none"
    /\ effects = 0
    /\ reply = NoReply
    /\ cancel = NoCancel
    /\ notice = NoNotice
    /\ viewer \in {NoViewer, Viewerless}
    /\ orphan = NoOrphan
    /\ odd = [staleWrite |-> FALSE, lateRequest |-> FALSE, staleNotice |-> FALSE]
    /\ restarts = 0

ExecAt(pc) == exec.pc = pc
ExecGoes(pc) == exec' = [exec EXCEPT !.pc = pc]

\* _notify(); when nobody watches it comes to nothing.
Unwatched == viewer.pc \in {"absent", "ended"}
Begun(n) == notice' = IF Unwatched THEN notice ELSE [notice EXCEPT ![n] = "reading"]

-----------------------------------------------------------------------------
(* ConversationService.create_turn() and _execute() *)

CreateTurn ==
    /\ turn = "none"
    /\ turn' = "running"
    /\ ExecGoes("running")
    /\ Begun("creator")
    /\ UNCHANGED <<approval, cancelSet, future, effects, reply, cancel, viewer, orphan, odd,
                   restarts>>

\* _apply_event(): a notification is on its way unless there is one already.
ApplyEvent ==
    /\ ExecAt("running") /\ notice["later"] = "none" /\ ~Unwatched
    /\ Begun("later")
    /\ UNCHANGED <<turn, approval, exec, cancelSet, future, effects, reply, cancel, viewer,
                   orphan, odd, restarts>>

\* A tool call is proposed; a cancelled run confirms none.
ProposeTool ==
    /\ ExecAt("running") /\ approval = "none"
    /\ ~cancelSet
    /\ ExecGoes("requesting")
    /\ UNCHANGED <<turn, approval, cancelSet, future, effects, reply, cancel, notice, viewer,
                   orphan, odd, restarts>>

\* request_approval(): whatever the state of the turn.
Requested ==
    /\ approval' = "pending"
    /\ turn' = "waiting_approval"

RequestApproval ==
    /\ ExecAt("requesting")
    /\ Requested
    /\ ExecGoes("registering")
    /\ odd' = [odd EXCEPT !.lateRequest = cancelSet]
    /\ UNCHANGED <<cancelSet, future, effects, reply, cancel, notice, viewer, orphan, restarts>>

RegisterFuture ==
    /\ ExecAt("registering")
    /\ future' = "pending"
    /\ ExecGoes("rechecking")
    /\ UNCHANGED <<turn, approval, cancelSet, effects, reply, cancel, notice, viewer, orphan, odd,
                   restarts>>

\* get_approval(): it may have been answered before the future was registered.
RecheckApproval ==
    /\ ExecAt("rechecking")
    /\ future' = IF approval # "pending" /\ future = "pending"
                 THEN IF approval = "approved" THEN "yes" ELSE "no"
                 ELSE future
    /\ ExecGoes("announcing")
    /\ Begun("exec")
    /\ UNCHANGED <<turn, approval, cancelSet, effects, reply, cancel, viewer, orphan, odd,
                   restarts>>

Announced ==
    /\ ExecAt("announcing") /\ notice["exec"] = "none"
    /\ ExecGoes("waiting")
    /\ UNCHANGED <<turn, approval, cancelSet, future, effects, reply, cancel, notice, viewer,
                   orphan, odd, restarts>>

\* Mutation: the answer is not asked for again after the wait.
MayAct_Always == TRUE

\* What the tool step checks when confirm() returns.
MayAct == future = "yes" /\ ~cancelSet

ConfirmReturns ==
    /\ ExecAt("waiting") /\ future \in {"yes", "no"}
    /\ ExecGoes(IF MayAct THEN "acting" ELSE "running")
    /\ future' = "none"
    /\ UNCHANGED <<turn, approval, cancelSet, effects, reply, cancel, notice, viewer, orphan, odd,
                   restarts>>

\* begin_tool_step(), the tool, finish_tool_step()
RunTool ==
    /\ ExecAt("acting")
    /\ effects' = effects + 1
    /\ ExecGoes("running")
    /\ UNCHANGED <<turn, approval, cancelSet, future, reply, cancel, notice, viewer, orphan, odd,
                   restarts>>

\* The last event of the turn, which may say that it was interrupted, or an exception.
TurnEnds(outcome) ==
    /\ ExecAt("running")
    /\ cancelSet => outcome = "cancelled"
    /\ exec' = [pc |-> "ending", outcome |-> outcome]
    /\ UNCHANGED <<turn, approval, cancelSet, future, effects, reply, cancel, notice, viewer,
                   orphan, odd, restarts>>

\* Mutation: a finished turn leaves its approval open.
ApprovalClosed_Open == approval

\* A finished turn has no approval to wait for.
ApprovalClosed == IF approval = "pending" THEN "expired" ELSE approval

\* checkpoint(finished=True): the SELECT, after which a turn that is over is left alone ...
CheckpointReads ==
    /\ exec.pc \in {"ending", "closing"}
    /\ ExecGoes(IF turn \in Over THEN "flushing"
                ELSE IF ExecAt("ending") THEN "saving" ELSE "sealing")
    /\ UNCHANGED <<turn, approval, cancelSet, future, effects, reply, cancel, notice, viewer,
                   orphan, odd, restarts>>

\* ... and the transaction, which relies on it.
Written(outcome) ==
    /\ turn' = outcome
    /\ approval' = ApprovalClosed

CheckpointWrites ==
    /\ exec.pc \in {"saving", "sealing"}
    /\ Written(exec.outcome)
    /\ odd' = [odd EXCEPT !.staleWrite = @ \/ turn \in Over]
    /\ ExecGoes("flushing")
    /\ UNCHANGED <<cancelSet, future, effects, reply, cancel, notice, viewer, orphan, restarts>>

\* _flush_notify() cancels the notification that is on its way and makes its own.
Flushed == [notice EXCEPT !["later"] = "none", !["exec"] = IF Unwatched THEN "none" ELSE "reading"]

FlushNotify ==
    /\ ExecAt("flushing")
    /\ notice' = Flushed
    /\ ExecGoes("off")
    /\ UNCHANGED <<turn, approval, cancelSet, future, effects, reply, cancel, viewer, orphan, odd,
                   restarts>>

-----------------------------------------------------------------------------
(* ConversationApprovalService.resolve() *)

\* The SELECT of resolve_approval() ...
ReplyReads(c, yes) ==
    /\ reply[c].pc = "idle" /\ approval # "none"
    /\ reply' = [reply EXCEPT ![c] = [pc |-> IF approval = "pending" THEN "writing" ELSE "waking",
                                      yes |-> yes, changed |-> approval = "pending"]]
    /\ UNCHANGED <<turn, approval, exec, cancelSet, future, effects, cancel, notice, viewer,
                   orphan, odd, restarts>>

\* ... and its transaction, which relies on it.
ReplyWrites(c) ==
    /\ reply[c].pc = "writing"
    /\ approval' = IF reply[c].yes THEN "approved" ELSE "rejected"
    /\ turn' = "running"
    /\ odd' = [odd EXCEPT !.staleWrite = @ \/ approval # "pending"]
    /\ reply' = [reply EXCEPT ![c].pc = "waking"]
    /\ UNCHANGED <<exec, cancelSet, future, effects, cancel, notice, viewer, orphan, restarts>>

ReplyWakes(c) ==
    /\ reply[c].pc = "waking"
    /\ future' = IF reply[c].changed /\ future = "pending"
                 THEN IF reply[c].yes THEN "yes" ELSE "no"
                 ELSE future
    /\ reply' = [reply EXCEPT ![c] = Replied]
    /\ Begun(c)
    /\ UNCHANGED <<turn, approval, exec, cancelSet, effects, cancel, viewer, orphan, odd, restarts>>

-----------------------------------------------------------------------------
(* ConversationService.cancel() *)

CancelAt(pc) == cancel.pc = pc
CancelGoes(pc) == cancel' = [cancel EXCEPT !.pc = pc]

\* request_cancel() only marks the row.
RequestCancel ==
    /\ CancelAt("idle") /\ turn # "none"
    /\ CancelGoes("setting")
    /\ UNCHANGED <<turn, approval, exec, cancelSet, future, effects, reply, notice, viewer, orphan,
                   odd, restarts>>

SetCancellation ==
    /\ CancelAt("setting")
    /\ cancelSet' = ~ExecAt("off")
    /\ CancelGoes("finding")
    /\ UNCHANGED <<turn, approval, exec, future, effects, reply, notice, viewer, orphan, odd,
                   restarts>>

\* expire_pending_approvals(): the SELECT ...
FindPending ==
    /\ CancelAt("finding")
    /\ cancel' = [pc |-> "expiring", found |-> approval = "pending"]
    /\ UNCHANGED <<turn, approval, exec, cancelSet, future, effects, reply, notice, viewer, orphan,
                   odd, restarts>>

\* ... and the UPDATE.
ExpirePending ==
    /\ CancelAt("expiring")
    /\ approval' = IF approval = "pending" THEN "expired" ELSE approval
    /\ CancelGoes("waking")
    /\ UNCHANGED <<turn, exec, cancelSet, future, effects, reply, notice, viewer, orphan, odd,
                   restarts>>

\* Mutation: cancel_turn() leaves the one who waits alone.
Refused_Never == future

Refused == IF cancel.found /\ future = "pending" THEN "no" ELSE future

WakeRefused ==
    /\ CancelAt("waking")
    /\ future' = Refused
    /\ cancel' = [pc |-> "done", found |-> FALSE]
    /\ Begun("canceller")
    /\ UNCHANGED <<turn, approval, exec, cancelSet, effects, reply, viewer, orphan, odd, restarts>>

-----------------------------------------------------------------------------
(* _notify() and updates() *)

NoticeReads(n) ==
    /\ notice[n] = "reading"
    /\ notice' = [notice EXCEPT ![n] = IF turn \in Over THEN "over" ELSE "live"]
    /\ UNCHANGED <<turn, approval, exec, cancelSet, future, effects, reply, cancel, viewer, orphan,
                   odd, restarts>>

\* The latest signal takes the place of the one before.
NoticePublished(n) ==
    /\ notice[n] \in Snapshot
    /\ notice' = [notice EXCEPT ![n] = "none"]
    /\ viewer' = IF viewer.pc \in {"reading", "watching"}
                 THEN [viewer EXCEPT !.queue = {notice[n]}] ELSE viewer
    /\ odd' = [odd EXCEPT !.staleNotice =
                  @ \/ (n # "later" /\ turn \in Over /\ notice[n] = "live")]
    /\ UNCHANGED <<turn, approval, exec, cancelSet, future, effects, reply, cancel, orphan,
                   restarts>>

ViewerSubscribes ==
    /\ viewer.pc = "off" /\ turn # "none"
    /\ viewer' = [pc |-> "reading", queue |-> {}]
    /\ UNCHANGED <<turn, approval, exec, cancelSet, future, effects, reply, cancel, notice, orphan,
                   odd, restarts>>

ViewerReads ==
    /\ viewer.pc = "reading"
    /\ viewer' = [viewer EXCEPT !.pc = IF turn \in Over THEN "ended" ELSE "watching"]
    /\ UNCHANGED <<turn, approval, exec, cancelSet, future, effects, reply, cancel, notice, orphan,
                   odd, restarts>>

ViewerReceives ==
    /\ viewer.pc = "watching"
    /\ \E signal \in viewer.queue :
          viewer' = [pc |-> IF signal = "over" THEN "ended" ELSE "watching", queue |-> {}]
    /\ UNCHANGED <<turn, approval, exec, cancelSet, future, effects, reply, cancel, notice, orphan,
                   odd, restarts>>

-----------------------------------------------------------------------------
(* Core stops and starts *)

\* What stop() leaves running in a thread: the thread goes on though nobody waits for it.
Orphaned ==
    CASE ExecAt("requesting") -> [job |-> "request", outcome |-> "failed"]
      [] ExecAt("ending") -> [job |-> "reading", outcome |-> exec.outcome]
      [] ExecAt("saving") -> [job |-> "writing", outcome |-> exec.outcome]
      [] OTHER -> NoOrphan

\* stop() cancels _execute(), whose handler makes a checkpoint of its own; there is no handler
\* for the checkpoint of a turn that failed.  A stop after the checkpoint is a restart.
StopTurn ==
    /\ exec.pc \notin {"off", "closing", "sealing", "flushing"} /\ restarts < MaxRestarts
    /\ orphan' = Orphaned
    /\ cancelSet' = TRUE
    /\ future' = "none"
    /\ \/ exec' = [pc |-> "closing", outcome |-> "cancelled"]
       \/ exec.pc \in {"ending", "saving"} /\ exec.outcome # "completed" /\ ExecGoes("flushing")
    /\ notice' = [notice EXCEPT !["exec"] = "none"]
    /\ UNCHANGED <<turn, approval, effects, reply, cancel, viewer, odd, restarts>>

OrphanRequests ==
    /\ orphan.job = "request"
    /\ orphan' = NoOrphan
    /\ Requested
    /\ odd' = [odd EXCEPT !.staleWrite = TRUE]
    /\ UNCHANGED <<exec, cancelSet, future, effects, reply, cancel, notice, viewer, restarts>>

OrphanReads ==
    /\ orphan.job = "reading"
    /\ orphan' = IF turn \in Over THEN NoOrphan ELSE [orphan EXCEPT !.job = "writing"]
    /\ UNCHANGED <<turn, approval, exec, cancelSet, future, effects, reply, cancel, notice, viewer,
                   odd, restarts>>

\* Nobody hears of a turn that ends after the last notification has read it.
OrphanWrites ==
    /\ orphan.job = "writing"
    /\ orphan' = NoOrphan
    /\ Written(orphan.outcome)
    /\ odd' = [odd EXCEPT
                  !.staleWrite = @ \/ turn \in Over,
                  !.staleNotice =
                      @ \/ (ExecAt("off") /\ notice["exec"] # "reading" /\ turn \notin Over)]
    /\ UNCHANGED <<exec, cancelSet, future, effects, reply, cancel, notice, viewer, restarts>>

Interrupted == IF turn \in {"running", "waiting_approval"} THEN "failed" ELSE turn

\* Core dies or has stopped, and starts: recover_interrupted().
RestartConversation ==
    /\ restarts < MaxRestarts
    /\ restarts' = restarts + 1
    /\ turn' = Interrupted
    /\ approval' = ApprovalClosed
    /\ exec' = ExecOff
    /\ cancelSet' = FALSE
    /\ future' = "none"
    /\ reply' = NoReply
    /\ cancel' = NoCancel
    /\ notice' = NoNotice
    /\ viewer' = IF viewer.pc = "absent" THEN viewer ELSE NoViewer
    /\ orphan' = NoOrphan
    /\ UNCHANGED <<effects, odd>>

ExecStep ==
    \/ RequestApproval \/ RegisterFuture \/ RecheckApproval \/ Announced \/ ConfirmReturns
    \/ RunTool \/ CheckpointReads \/ CheckpointWrites \/ FlushNotify

ReplyStep(c) == ReplyWrites(c) \/ ReplyWakes(c)
CancelStep == SetCancellation \/ FindPending \/ ExpirePending \/ WakeRefused
NoticeStep(n) == NoticeReads(n) \/ NoticePublished(n)
ViewerStep == ViewerReads \/ ViewerReceives

Conversing ==
    \/ CreateTurn \/ ApplyEvent \/ ProposeTool
    \/ \E outcome \in Over : TurnEnds(outcome)
    \/ ExecStep
    \/ RequestCancel \/ CancelStep
    \/ \E n \in Notifier : NoticeStep(n)
    \/ ViewerSubscribes \/ ViewerStep

Replying(c) == ReplyStep(c) \/ \E yes \in BOOLEAN : ReplyReads(c, yes)

Stopping ==
    \/ StopTurn \/ OrphanRequests \/ OrphanReads \/ OrphanWrites
    \/ RestartConversation

ConversationNext == Conversing \/ (\E c \in Approver : Replying(c)) \/ Stopping

\* The event loop goes on, and a cancelled agent ends its turn.  Nobody is bound to answer.
CancelledEnds == cancelSet /\ TurnEnds("cancelled")

ConversationFairness ==
    /\ WF_cvars(ExecStep \/ CancelledEnds \/ CancelStep \/ \E c \in Approver : ReplyStep(c))
    /\ WF_cvars(ViewerStep \/ \E n \in Notifier : NoticeStep(n))

ConversationSpec == ConversationInit /\ [][ConversationNext]_cvars /\ ConversationFairness

-----------------------------------------------------------------------------
(* Properties *)

\* checkpoint(), resolve_approval(): a turn that is over stays as it is, though clients answer
\* its approval late and twice and Core stops while it is saved; only a write that follows an
\* outdated read changes it.
FinishedStaysFinished ==
    [][(turn \in Over /\ ~odd'.staleWrite) => turn' = turn]_cvars

\* confirm() and the tool step: the tool runs at most once, and only on an approval that the
\* record keeps, whoever cancels, answers or restarts in between.
ActedAsApproved ==
    effects > 0 /\ ~odd.staleWrite => effects = 1 /\ approval = "approved"

\* cancel(): a turn that is cancelled comes to its end without an answer to its approval,
\* unless it asked for one after it was cancelled.
CancelledTurnEnds == (cancelSet /\ exec.pc # "off") ~> (exec.pc = "off" \/ odd.lateRequest)

\* updates() returns once the turn is over: the last signal tells it, though a queue holds
\* one signal only; unless a notification of a client that read the turn before its end
\* comes after it, or a checkpoint that nobody waits for ends the turn.
UpdatesEnd ==
    (turn \in Over /\ viewer.pc = "watching") ~>
        (viewer.pc # "watching" \/ turn \notin Over \/ odd.staleNotice)

\* cancel(): a confirm() that waits in a turn that is cancelled is about to be woken, by the
\* cancel() itself or by the answer that came first, though neither sees the other's writes at
\* once; unless it asked after the turn was cancelled.
CancelIsHeard ==
    cancelSet /\ ExecAt("waiting") /\ future = "pending" =>
        \/ CancelAt("finding")
        \/ cancel.pc \in {"expiring", "waking"} /\ cancel.found
        \/ \E c \in Approver : reply[c].pc = "waking" /\ reply[c].changed
        \/ odd.lateRequest

\* _flush_notify(): a client that watches a turn that is over is about to hear of it; a
\* notification made before the turn ended does not take the place of the last one.
EndIsNoticed ==
    turn \in Over /\ viewer.pc = "watching" =>
        \/ exec.pc \in {"closing", "sealing", "flushing"}
        \/ notice["exec"] \in {"reading", "over"}
        \/ "over" \in viewer.queue
        \/ odd.staleNotice

\* Nobody waits for ever on a turn that is cancelled or over.
TurnsEnd ==
    /\ CancelledTurnEnds /\ UpdatesEnd
    /\ [][CancelIsHeard' /\ EndIsNoticed']_cvars

=============================================================================
