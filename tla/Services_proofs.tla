---------------------------- MODULE Services_proofs ----------------------------
(***************************************************************************)
(* Theorems about the components around the Task aggregate, each with its  *)
(* inductive invariant, and about their composition (MCServices).          *)
(***************************************************************************)
EXTENDS MCServices, Delegation_proofs, FiniteSetTheorems, SequenceTheorems, TLAPS

-----------------------------------------------------------------------------
(* Interactions, for any number of clients and deaths *)

\* The row names who was heard when it is resolved, and a question nobody asked has no answer.
RowInv ==
    /\ question.by # Nobody <=> question.state = "resolved"
    /\ \A c \in Client : answer[c].pc = "idle" => ~answer[c].changed

\* A future that is set, and an asker that withdrew, know how the row ended.
WaitInv ==
    /\ waiter.future = "set" =>
         waiter.by \in Client /\ question = [state |-> "resolved", by |-> waiter.by]
    /\ asker.changed => question.state = "expired"

InteractionInv == InteractionTypeOK /\ RowInv /\ WaitInv /\ QuestionSound

AnswerRow == [pc : AnswerPc, changed : BOOLEAN, early : BOOLEAN]

\* Every step keeps the row, its waiter and those who heard of it in agreement.
LEMMA InteractionStep ==
    ASSUME InteractionInv, [InteractionNext]_ivars
    PROVE  InteractionInv'
<1> USE InteractionAssumption
    DEF InteractionInv, InteractionTypeOK, RowInv, WaitInv, QuestionSound, OneIsHeard, OpenHasAsker,
        QuestionState, AskerKind, AskerPc, Future, AnswerPc
<1>0. question = [state |-> question.state, by |-> question.by]
  OBVIOUS
<1>1. CASE Ask
  <2>1. CASE question.state = "none"
    <3>1. /\ question' = [question EXCEPT !.state = "pending"]
          /\ asker' = [asker EXCEPT !.pc = "registering"]
          /\ UNCHANGED <<overdue, waiter, answer, deaths>>
      BY <1>1, <2>1 DEF Ask
    <3>2. InteractionTypeOK'
      BY <3>1
    <3> QED BY <1>0, <1>1, <2>1, <3>1, <3>2 DEF Ask
  <2>2. CASE question.state = "resolved"
    <3>1. /\ asker' = [asker EXCEPT !.pc = "answered", !.got = question.by]
          /\ UNCHANGED <<question, overdue, waiter, answer, deaths>>
      BY <1>1, <2>2 DEF Ask
    <3>2. InteractionTypeOK'
      BY <3>1
    <3> QED BY <1>0, <1>1, <2>2, <3>1, <3>2 DEF Ask
  <2>3. CASE question.state \notin {"none", "resolved"}
    BY <1>0, <1>1, <2>3 DEF Ask
  <2> QED BY <2>1, <2>2, <2>3
<1>2. CASE Register
  BY <1>2 DEF Register
<1>3. CASE WaitReturns
  <2>1. /\ asker.pc = "waiting" /\ waiter.future = "set"
        /\ asker' = [asker EXCEPT !.pc = "answered", !.got = waiter.by]
        /\ UNCHANGED <<question, overdue, waiter, answer, deaths>>
    BY <1>3 DEF WaitReturns
  <2>2. InteractionTypeOK'
    BY <2>1
  <2> QED BY <1>0, <2>1, <2>2
<1>4. CASE WaitTimesOut
  BY <1>4 DEF WaitTimesOut
<1>5. CASE TurnCancelled
  BY <1>5 DEF TurnCancelled
<1>6. CASE Expire
  <2>1. CASE question.state = "pending"
    <3>1. /\ question' = [question EXCEPT !.state = "expired"]
          /\ asker' = [asker EXCEPT !.pc = "leaving", !.changed = TRUE]
          /\ UNCHANGED <<overdue, waiter, answer, deaths>>
      BY <1>6, <2>1 DEF Expire, MayExpire
    <3>2. InteractionTypeOK'
      BY <3>1
    <3> QED BY <1>0, <2>1, <3>1, <3>2
  <2>2. CASE question.state # "pending"
    <3>1. /\ question' = question
          /\ asker' = [asker EXCEPT !.pc = "leaving", !.changed = FALSE]
          /\ UNCHANGED <<overdue, waiter, answer, deaths>>
      BY <1>6, <2>2 DEF Expire, MayExpire
    <3>2. InteractionTypeOK'
      BY <3>1
    <3> QED BY <1>0, <2>2, <3>1, <3>2
  <2> QED BY <2>1, <2>2
<1>7. CASE Leave
  BY <1>7 DEF Leave
<1>8. ASSUME NEW c \in Client, Resolve(c)
      PROVE  InteractionInv'
  <2> DEFINE counts == question.state = "pending" /\ ~overdue
             new == [pc |-> "waking", changed |-> counts, early |-> asker.pc = "registering"]
  <2>1. /\ answer[c].pc = "idle" /\ question.state # "none"
        /\ question' = IF counts THEN [state |-> "resolved", by |-> c]
                       ELSE IF question.state = "pending" THEN [question EXCEPT !.state = "expired"]
                       ELSE question
        /\ answer' = [answer EXCEPT ![c] = new]
        /\ UNCHANGED <<overdue, asker, waiter, deaths>>
    BY <1>8 DEF Resolve
  <2>2. new \in AnswerRow
    BY DEF AnswerRow
  <2>3. new.pc = "waking" /\ new.changed = counts
    OBVIOUS
  <2> HIDE DEF new
  <2>4. /\ answer' \in [Client -> AnswerRow]
        /\ answer'[c] = new /\ \A d \in Client \ {c} : answer'[d] = answer[d]
    BY <2>1, <2>2 DEF AnswerRow
  <2>5. question' \in [state : QuestionState, by : Client \cup {Nobody}]
    BY <2>1
  <2>6. InteractionTypeOK'
    BY <2>1, <2>4, <2>5 DEF AnswerRow
  <2>7. CASE counts
    BY <2>1, <2>3, <2>4, <2>6, <2>7
  <2>8. CASE ~counts
    BY <2>1, <2>3, <2>4, <2>6, <2>8
  <2> QED BY <2>7, <2>8
<1>9. ASSUME NEW c \in Client, Wake(c)
      PROVE  InteractionInv'
  <2> DEFINE new == [answer[c] EXCEPT !.pc = "done"]
  <2>1. /\ answer' = [answer EXCEPT ![c] = new] /\ waiter' = Woken(c)
        /\ UNCHANGED <<question, overdue, asker, deaths>>
    BY <1>9 DEF Wake
  <2>2. new \in AnswerRow /\ new.changed = answer[c].changed /\ new.pc = "done"
    BY DEF AnswerRow
  <2> HIDE DEF new
  <2>3. /\ answer' \in [Client -> AnswerRow]
        /\ \A d \in Client : answer'[d].changed = answer[d].changed
                             /\ (answer'[d].pc = "idle" => answer[d].pc = "idle")
    BY <2>1, <2>2 DEF AnswerRow
  <2>4. /\ waiter' \in [future : Future, listed : BOOLEAN, by : Client \cup {Nobody}]
        /\ waiter'.future = "set" => \/ waiter.future = "set" /\ waiter'.by = waiter.by
                                     \/ answer[c].changed /\ waiter'.by = c
        /\ waiter.future = "cancelled" => waiter'.future = "cancelled"
    <3>1. CASE answer[c].changed /\ waiter.listed /\ waiter.future = "pending"
      BY <2>1, <3>1 DEF Woken
    <3>2. CASE ~(answer[c].changed /\ waiter.listed /\ waiter.future = "pending")
      <4>1. waiter' = [waiter EXCEPT !.listed = FALSE]
        BY <2>1, <3>2 DEF Woken
      <4> QED BY <4>1
    <3> QED BY <3>1, <3>2
  <2>5. question.by = c => question = [state |-> "resolved", by |-> c]
    OBVIOUS
  <2>6. InteractionTypeOK'
    BY <2>1, <2>3, <2>4 DEF AnswerRow
  <2> QED BY <2>1, <2>3, <2>4, <2>5, <2>6
<1>10. CASE TimePasses
  BY <1>10 DEF TimePasses
<1>11. CASE CoreStopsAndStarts
  <2>1. /\ \A c \in Client : answer'[c] \in AnswerRow /\ answer'[c].changed = answer[c].changed
                             /\ (answer'[c].pc = "idle" => answer[c].pc = "idle")
        /\ answer' = [c \in Client |-> answer'[c]]
    BY <1>11 DEF CoreStopsAndStarts, AnswerRow
  <2>2. /\ question' = Recovered /\ waiter' = NoWaiter /\ overdue' = overdue
        /\ asker' = [asker EXCEPT !.pc = "idle", !.changed = FALSE, !.got = Nobody]
        /\ deaths' \in 0..MaxDeaths
    BY <1>11 DEF CoreStopsAndStarts
  <2>3. /\ question' \in [state : QuestionState, by : Client \cup {Nobody}]
        /\ question'.by = question.by /\ question'.state # "pending"
        /\ question'.state = "resolved" <=> question.state = "resolved"
    BY <2>2 DEF Recovered
  <2>4. InteractionTypeOK'
    BY <2>1, <2>2, <2>3 DEF NoWaiter, AnswerRow
  <2> QED BY <2>1, <2>2, <2>3, <2>4 DEF NoWaiter
<1>12. CASE UNCHANGED ivars
  BY <1>12 DEF ivars
<1> QED BY <1>1, <1>2, <1>3, <1>4, <1>5, <1>6, <1>7, <1>8, <1>9, <1>10, <1>11, <1>12
        DEF InteractionNext

\* What holds of a question in every state.
THEOREM InteractionInvariant == InteractionSpec => []InteractionInv
<1>1. InteractionInit => InteractionInv
  <2> SUFFICES ASSUME InteractionInit PROVE InteractionInv
    OBVIOUS
  <2> USE InteractionAssumption DEF InteractionInit, QuestionState, AskerKind, AskerPc, Future, AnswerPc
  <2>1. 0 \in 0..MaxDeaths
    OBVIOUS
  <2>2. /\ asker \in [pc : AskerPc, kind : AskerKind, changed : BOOLEAN, got : Client \cup {Nobody}]
        /\ asker.pc = "idle" /\ asker.got = Nobody /\ asker.changed = FALSE
    OBVIOUS
  <2>3. InteractionTypeOK
    BY <2>1, <2>2 DEF InteractionTypeOK, NoWaiter, NoAnswer
  <2>4. RowInv /\ WaitInv /\ QuestionSound
    BY <2>2 DEF RowInv, WaitInv, QuestionSound, OneIsHeard, OpenHasAsker, NoWaiter, NoAnswer
  <2> QED BY <2>3, <2>4 DEF InteractionInv
<1>2. InteractionInv /\ [InteractionNext]_ivars => InteractionInv'
  BY InteractionStep
<1> QED BY <1>1, <1>2, PTL DEF InteractionSpec

\* resolve(), expire() and begin() agree on who was heard, and a question that is open has
\* someone who will hear the answer, or a turn that was cancelled, whoever answers when, and
\* however often Core stops.
THEOREM QuestionsCorrect == InteractionSpec => []QuestionSound
<1>1. InteractionInv => QuestionSound
  BY DEF InteractionInv
<1> QED BY <1>1, InteractionInvariant, PTL

\* The answer of a client has been overtaken.
Passed(c) == answer[c].early \/ \E d \in Client \ {c} : answer[d].pc # "idle"

\* The waiter is listed until somebody answers; and an answer that counted came before it
\* was registered, or has been overtaken, or is about to find it.
ToldInv ==
    /\ asker.pc = "waiting" => waiter.future \in {"pending", "set"}
    /\ asker.pc = "waiting" /\ waiter.future = "pending" /\ ~waiter.listed =>
         \E d \in Client : answer[d].pc # "idle"
    /\ \A c \in Client : question.by = c =>
         /\ asker.pc = "registering" => answer[c].early
         /\ asker.pc = "waiting" /\ waiter.future = "pending" =>
              Passed(c) \/ (waiter.listed /\ answer[c].pc = "waking")

\* Every step keeps it: only an answer removes the waiter, and what has been answered stays so.
LEMMA ToldStep == InteractionInv /\ ToldInv /\ [InteractionNext]_ivars => ToldInv'
<1> SUFFICES ASSUME InteractionInv, ToldInv, [InteractionNext]_ivars PROVE ToldInv'
  OBVIOUS
<1>t. /\ question \in [state : QuestionState, by : Client \cup {Nobody}]
      /\ asker \in [pc : AskerPc, kind : AskerKind, changed : BOOLEAN, got : Client \cup {Nobody}]
      /\ waiter \in [future : Future, listed : BOOLEAN, by : Client \cup {Nobody}]
      /\ answer \in [Client -> AnswerRow]
      /\ Nobody \notin Client
  BY InteractionAssumption DEF InteractionInv, InteractionTypeOK, AnswerRow
<1>w. \A c \in Client : question.by = c =>
         question.state = "resolved" /\ answer[c].changed /\ answer[c].pc # "idle"
  BY <1>t DEF InteractionInv, RowInv, QuestionSound, OneIsHeard
<1>1. CASE Ask
  <2>1. asker'.pc # "waiting"
    BY <1>1, <1>t DEF Ask
  <2>2. asker'.pc = "registering" => question.state = "none" /\ question'.by = question.by
    BY <1>1, <1>t DEF Ask
  <2>3. question.state = "none" => \A c \in Client : question.by # c
    BY <1>w
  <2> QED BY <2>1, <2>2, <2>3 DEF ToldInv
<1>2. CASE Register
  <2>1. /\ asker.pc = "registering" /\ asker'.pc = "waiting"
        /\ waiter'.future = "pending" /\ waiter'.listed
        /\ UNCHANGED <<question, answer>>
    BY <1>2, <1>t DEF Register
  <2>2. \A c \in Client : question'.by = c => Passed(c)'
    BY <2>1 DEF ToldInv, Passed
  <2> QED BY <2>1, <2>2 DEF ToldInv
<1>3. CASE WaitReturns \/ WaitTimesOut \/ TurnCancelled \/ Expire \/ Leave
  <2>1. asker'.pc \notin {"registering", "waiting"}
    BY <1>3, <1>t DEF WaitReturns, WaitTimesOut, TurnCancelled, Expire, Leave
  <2> QED BY <2>1 DEF ToldInv
<1>4. ASSUME NEW c \in Client, Resolve(c) PROVE ToldInv'
  <2>1. /\ answer[c].pc = "idle"
        /\ answer'[c].pc = "waking" /\ (asker.pc = "registering" => answer'[c].early)
        /\ \A d \in Client \ {c} : answer'[d] = answer[d]
        /\ question'.by = c \/ question'.by = question.by
        /\ UNCHANGED <<asker, waiter>>
    BY <1>4, <1>t DEF Resolve, AnswerRow
  <2>2. question.by # c
    BY <1>w, <2>1
  <2>3. CASE question'.by = c
    <3>1. asker.pc = "waiting" /\ waiter.future = "pending" /\ ~waiter.listed => Passed(c)'
      BY <2>1 DEF ToldInv, Passed
    <3> QED BY <2>1, <2>3, <3>1 DEF ToldInv
  <2>4. CASE question'.by = question.by
    <3>1. ASSUME NEW d \in Client, question.by = d
          PROVE  /\ answer'[d] = answer[d]
                 /\ Passed(d) => Passed(d)'
      <4>1. d # c
        BY <2>2, <3>1
      <4> QED BY <2>1, <4>1 DEF Passed
    <3> QED BY <2>1, <2>4, <3>1 DEF ToldInv
  <2> QED BY <2>1, <2>3, <2>4
<1>5. ASSUME NEW c \in Client, Wake(c) PROVE ToldInv'
  <2>1. /\ answer[c].pc = "waking" /\ answer'[c].pc = "done" /\ answer'[c].early = answer[c].early
        /\ \A d \in Client \ {c} : answer'[d] = answer[d]
        /\ waiter' = Woken(c)
        /\ UNCHANGED <<question, asker>>
    BY <1>5, <1>t DEF Wake, AnswerRow
  <2>2. /\ waiter'.future \in {waiter.future, "set"}
        /\ answer[c].changed /\ waiter.listed /\ waiter.future = "pending"
              => waiter'.future = "set"
    BY <1>t, <2>1 DEF Woken
  <2>3. ASSUME NEW d \in Client, question.by = d, asker.pc = "waiting",
               waiter'.future = "pending"
        PROVE  Passed(d)'
    <3>1. waiter.future = "pending"
      BY <2>2, <2>3 DEF ToldInv
    <3>2. CASE d = c
      <4>1. ~waiter.listed
        BY <1>w, <2>2, <2>3, <3>1, <3>2
      <4>2. Passed(d)
        BY <2>3, <3>1, <4>1 DEF ToldInv
      <4> QED BY <2>1, <4>2 DEF Passed
    <3>3. CASE d # c
      BY <2>1, <3>3 DEF Passed
    <3> QED BY <3>2, <3>3
  <2> QED BY <2>1, <2>2, <2>3 DEF ToldInv
<1>6. CASE TimePasses
  BY <1>6 DEF TimePasses, ToldInv, Passed
<1>7. CASE CoreStopsAndStarts
  <2>1. asker'.pc = "idle"
    BY <1>7, <1>t DEF CoreStopsAndStarts
  <2> QED BY <2>1 DEF ToldInv
<1>8. CASE UNCHANGED ivars
  BY <1>8 DEF ivars, ToldInv, Passed
<1> QED BY <1>1, <1>2, <1>3, <1>4, <1>5, <1>6, <1>7, <1>8 DEF InteractionNext

\* resolve() and begin(): while the asker waits for an answer that has counted, its future is
\* set, or the client whose answer it was is about to set it, unless it was overtaken, whoever
\* answers when, and however often Core stops.
THEOREM AnswersAreTold == InteractionSpec => []AnswerIsTold
<1>1. InteractionInit => ToldInv
  BY InteractionAssumption DEF InteractionInit, ToldInv
<1>2. InteractionInv /\ ToldInv => AnswerIsTold
  <2> SUFFICES ASSUME InteractionInv, ToldInv, question.by # Nobody, asker.pc = "waiting"
               PROVE  \/ waiter.future = "set"
                      \/ waiter.future = "pending" /\ waiter.listed
                         /\ answer[question.by].pc = "waking"
                      \/ Overtaken
    BY DEF AnswerIsTold
  <2>1. question.by \in Client
    BY DEF InteractionInv, InteractionTypeOK
  <2> PICK c \in Client : c = question.by
    BY <2>1
  <2>2. Passed(c) => Overtaken
    BY DEF Passed, Overtaken
  <2> QED BY <2>2 DEF ToldInv
<1>3. InteractionSpec => []ToldInv
  BY <1>1, InteractionInvariant, ToldStep, PTL DEF InteractionSpec
<1> QED BY <1>2, <1>3, InteractionInvariant, PTL

-----------------------------------------------------------------------------
(* Conversation, for any number of clients and restarts *)

\* Where a turn is once it is over or Core stops.
Ending == {"off", "closing", "sealing", "flushing"}

\* One tool call is proposed in a turn: who is where in its life, and that a turn which is
\* over is not executed.
CallInv ==
    /\ exec.pc # "off" \/ approval # "none" \/ orphan.job # "none" => turn # "none"
    /\ turn \in Over \/ orphan.job # "none" => exec.pc \in Ending
    /\ exec.pc = "requesting" => approval = "none"
    /\ exec.pc \in {"registering", "rechecking", "announcing", "waiting", "acting"} =>
         approval # "none" /\ effects = 0
    /\ effects > 0 => approval # "none" /\ effects = 1
    /\ future # "none" => approval # "none"
    /\ \A c \in Approver : reply[c].pc = "writing" => approval # "none"

\* As long as no write followed an outdated read, a yes on its way is the one of the record.
ApprovedInv ==
    ~odd.staleWrite =>
      /\ exec.pc = "acting" \/ future = "yes" \/ effects > 0 => approval = "approved"
      /\ \A c \in Approver :
           reply[c].pc = "waking" /\ reply[c].changed /\ reply[c].yes => approval = "approved"
      /\ turn \in Over => approval # "pending"

ConversationInv == ConversationTypeOK /\ CallInv /\ ApprovedInv

ReplyRow == [pc : {"idle", "writing", "waking", "done"}, yes : BOOLEAN, changed : BOOLEAN]
NoticeRow == {"none", "reading"} \cup Snapshot

LEMMA FewSignals == Cardinality({}) <= 1 /\ \A s : Cardinality({s}) <= 1
BY FS_EmptySet, FS_Singleton

LEMMA ConversationInitial == ConversationInit => ConversationInv
<1> SUFFICES ASSUME ConversationInit PROVE ConversationInv
  OBVIOUS
<1> USE ConversationAssumption DEF ConversationInit
<1>1. 0 \in 0..MaxRestarts
  OBVIOUS
<1>2. /\ turn \in TurnState /\ approval \in ApprovalState /\ future = "none" /\ effects \in 0..2
      /\ exec \in [pc : ExecPc, outcome : Over]
  BY DEF TurnState, ApprovalState, ExecOff, ExecPc, Over
<1>3. /\ reply \in [Approver -> ReplyRow]
      /\ cancel \in [pc : {"idle", "setting", "finding", "expiring", "waking", "done"},
                     found : BOOLEAN]
      /\ notice \in [Notifier -> NoticeRow]
  BY DEF NoReply, ReplyRow, NoCancel, NoNotice, NoticeRow
<1>4. /\ viewer \in [pc : {"absent", "off", "reading", "watching", "ended"}, queue : SUBSET Snapshot]
      /\ Cardinality(viewer.queue) <= 1
  BY FewSignals DEF NoViewer, Viewerless
<1>5. odd \in [staleWrite : BOOLEAN, lateRequest : BOOLEAN, staleNotice : BOOLEAN]
  OBVIOUS
<1>6. ConversationTypeOK
  BY <1>1, <1>2, <1>3, <1>4, <1>5 DEF ConversationTypeOK, ReplyRow, NoticeRow, NoOrphan, Over
<1>7. CallInv /\ ApprovedInv
  BY DEF CallInv, ApprovedInv, ExecOff, Over, NoReply, NoOrphan
<1> QED BY <1>6, <1>7 DEF ConversationInv

\* The types are kept: the tool has not run when it is about to.
LEMMA ConversationTypeStep ==
    ASSUME ConversationInv, [ConversationNext]_cvars
    PROVE  ConversationTypeOK'
<1> USE ConversationAssumption
    DEF ConversationInv, ConversationTypeOK, ExecAt, ExecGoes, CancelAt, CancelGoes
<1>a. ASSUME NEW n \in Notifier, Begun(n) PROVE notice' \in [Notifier -> {"none", "reading"} \cup Snapshot]
  BY <1>a DEF Begun
<1>b. {"creator", "exec", "later", "canceller"} \subseteq Notifier /\ Approver \subseteq Notifier
  BY DEF Notifier
<1>1. CASE CreateTurn
  BY <1>1, <1>a, <1>b DEF CreateTurn, ExecPc, TurnState
<1>2. CASE ApplyEvent
  BY <1>2, <1>a, <1>b DEF ApplyEvent
<1>3. CASE ProposeTool
  BY <1>3 DEF ProposeTool, ExecPc
<1>4. ASSUME NEW outcome \in Over, TurnEnds(outcome) PROVE ConversationTypeOK'
  BY <1>4 DEF TurnEnds, ExecPc
<1>5. CASE RequestApproval
  BY <1>5 DEF RequestApproval, Requested, ExecPc, TurnState, ApprovalState
<1>6. CASE RegisterFuture
  BY <1>6 DEF RegisterFuture, ExecPc
<1>7. CASE RecheckApproval
  BY <1>7, <1>a, <1>b DEF RecheckApproval, ExecPc
<1>8. CASE Announced
  BY <1>8 DEF Announced, ExecPc
<1>9. CASE ConfirmReturns
  BY <1>9 DEF ConfirmReturns, ExecPc
<1>10. CASE RunTool
  <2>1. effects' \in 0..2
    BY <1>10 DEF RunTool, CallInv
  <2> QED BY <1>10, <2>1 DEF RunTool, ExecPc
<1>11. CASE CheckpointReads \/ CheckpointWrites
  BY <1>11
     DEF CheckpointReads, CheckpointWrites, Written, ExecPc, TurnState, ApprovalClosed,
         ApprovalState
<1>12. CASE FlushNotify
  BY <1>12, <1>b DEF FlushNotify, Flushed, ExecPc
<1>13. ASSUME NEW c \in Approver, NEW yes \in BOOLEAN, ReplyReads(c, yes) PROVE ConversationTypeOK'
  <2> DEFINE new == [pc |-> IF approval = "pending" THEN "writing" ELSE "waking",
                     yes |-> yes, changed |-> approval = "pending"]
  <2>1. new \in ReplyRow
    BY DEF ReplyRow
  <2>2. reply' = [reply EXCEPT ![c] = new]
    BY <1>13 DEF ReplyReads
  <2> HIDE DEF new
  <2>3. reply' \in [Approver -> ReplyRow]
    BY <2>1, <2>2 DEF ReplyRow
  <2> QED BY <1>13, <2>3 DEF ReplyReads, ReplyRow
<1>14. ASSUME NEW c \in Approver, ReplyWrites(c) PROVE ConversationTypeOK'
  <2> DEFINE new == [reply[c] EXCEPT !.pc = "waking"]
  <2>1. reply' = [reply EXCEPT ![c] = new]
    BY <1>14 DEF ReplyWrites
  <2>2. new \in ReplyRow
    BY DEF ReplyRow
  <2> HIDE DEF new
  <2>3. reply' \in [Approver -> ReplyRow]
    BY <2>1, <2>2 DEF ReplyRow
  <2>4. odd' \in [staleWrite : BOOLEAN, lateRequest : BOOLEAN, staleNotice : BOOLEAN]
    BY <1>14 DEF ReplyWrites
  <2>5. turn' \in TurnState /\ approval' \in ApprovalState
    BY <1>14 DEF ReplyWrites, ApprovalState, TurnState
  <2> QED BY <1>14, <2>3, <2>4, <2>5 DEF ReplyWrites, ReplyRow
<1>15. ASSUME NEW c \in Approver, ReplyWakes(c) PROVE ConversationTypeOK'
  BY <1>15, <1>a, <1>b DEF ReplyWakes, Replied
<1>16. CASE RequestCancel
  BY <1>16 DEF RequestCancel
<1>17. CASE SetCancellation
  BY <1>17 DEF SetCancellation
<1>18. CASE FindPending
  BY <1>18 DEF FindPending
<1>19. CASE ExpirePending
  BY <1>19 DEF ExpirePending, ApprovalState
<1>20. CASE WakeRefused
  BY <1>20, <1>a, <1>b DEF WakeRefused, Refused
<1>21. ASSUME NEW n \in Notifier, NoticeReads(n) PROVE ConversationTypeOK'
  BY <1>21 DEF NoticeReads, Snapshot
<1>22. ASSUME NEW n \in Notifier, NoticePublished(n) PROVE ConversationTypeOK'
  BY <1>22, FewSignals DEF NoticePublished
<1>23. CASE ViewerSubscribes
  BY <1>23, FewSignals DEF ViewerSubscribes
<1>24. CASE ViewerReads
  BY <1>24 DEF ViewerReads
<1>25. CASE ViewerReceives
  BY <1>25, FewSignals DEF ViewerReceives
<1>26. CASE StopTurn
  <2>1. orphan' \in [job : {"none", "request", "reading", "writing"}, outcome : Over]
    BY <1>26 DEF StopTurn, Orphaned, NoOrphan, Over
  <2>2. exec' \in [pc : ExecPc, outcome : Over]
    BY <1>26 DEF StopTurn, ExecPc, Over
  <2> QED BY <1>26, <1>b, <2>1, <2>2 DEF StopTurn
<1>27. CASE OrphanRequests \/ OrphanReads \/ OrphanWrites
  <2>1. orphan' \in [job : {"none", "request", "reading", "writing"}, outcome : Over]
    BY <1>27 DEF OrphanRequests, OrphanReads, OrphanWrites, NoOrphan, Over
  <2> QED
    BY <1>27, <2>1
    DEF OrphanRequests, OrphanReads, OrphanWrites, Requested, Written, ApprovalClosed,
        ApprovalState, TurnState
<1>28. CASE RestartConversation
  <2> USE <1>28 DEF RestartConversation
  <2>1. /\ turn' \in TurnState /\ approval' \in ApprovalState
        /\ exec' \in [pc : ExecPc, outcome : Over]
    BY DEF Interrupted, ApprovalClosed, ExecOff, ExecPc, Over, TurnState, ApprovalState
  <2>2. /\ viewer' \in [pc : {"absent", "off", "reading", "watching", "ended"},
                        queue : SUBSET Snapshot]
        /\ Cardinality(viewer'.queue) <= 1
    BY FewSignals DEF NoViewer
  <2>3. /\ reply' \in [Approver -> ReplyRow]
        /\ cancel' \in [pc : {"idle", "setting", "finding", "expiring", "waking", "done"},
                        found : BOOLEAN]
        /\ notice' \in [Notifier -> NoticeRow]
    BY DEF NoReply, ReplyRow, NoCancel, NoNotice, NoticeRow
  <2>4. restarts' \in 0..MaxRestarts
    OBVIOUS
  <2> HIDE <1>28
  <2>5. /\ cancelSet' = FALSE /\ future' = "none"
        /\ orphan' \in [job : {"none", "request", "reading", "writing"}, outcome : Over]
        /\ UNCHANGED <<effects, odd>>
    BY <1>28 DEF RestartConversation, NoOrphan, Over
  <2> QED BY <2>1, <2>2, <2>3, <2>4, <2>5 DEF ReplyRow, NoticeRow
<1>29. CASE UNCHANGED cvars
  BY <1>29 DEF cvars
<1> QED
  BY <1>1, <1>2, <1>3, <1>4, <1>5, <1>6, <1>7, <1>8, <1>9, <1>10, <1>11, <1>12, <1>13, <1>14,
     <1>15, <1>16, <1>17, <1>18, <1>19, <1>20, <1>21, <1>22, <1>23, <1>24, <1>25, <1>26, <1>27,
     <1>28, <1>29
  DEF ConversationNext, Conversing, ExecStep, CancelStep, NoticeStep, ViewerStep, Replying,
      ReplyStep, Stopping

\* One call is confirmed, and every yes on its way to the tool is that of the record.
LEMMA ConversationCallStep ==
    ASSUME ConversationInv, [ConversationNext]_cvars
    PROVE  CallInv' /\ ApprovedInv'
<1> USE DEF ConversationInv, CallInv, ApprovedInv, Ending, ExecAt, ExecGoes, CancelAt, CancelGoes
<1>1. CASE CreateTurn
  BY <1>1 DEF CreateTurn, Over, ConversationTypeOK
<1>2. CASE ApplyEvent
  BY <1>2 DEF ApplyEvent
<1>3. CASE ProposeTool
  BY <1>3 DEF ProposeTool, Over, ConversationTypeOK
<1>4. ASSUME NEW outcome \in Over, TurnEnds(outcome) PROVE CallInv' /\ ApprovedInv'
  BY <1>4 DEF TurnEnds
<1>5. CASE RequestApproval
  BY <1>5 DEF RequestApproval, Requested, Over, ConversationTypeOK
<1>6. CASE RegisterFuture
  BY <1>6 DEF RegisterFuture, ConversationTypeOK
<1>7. CASE RecheckApproval
  BY <1>7 DEF RecheckApproval, ConversationTypeOK
<1>8. CASE Announced
  BY <1>8 DEF Announced, ConversationTypeOK
<1>9. CASE ConfirmReturns
  BY <1>9 DEF ConfirmReturns, MayAct, ConversationTypeOK
<1>10. CASE RunTool
  BY <1>10 DEF RunTool, ConversationTypeOK
<1>11. CASE CheckpointReads
  BY <1>11 DEF CheckpointReads, ConversationTypeOK
<1>30. CASE CheckpointWrites
  BY <1>30 DEF CheckpointWrites, Written, ApprovalClosed, Over, ConversationTypeOK
<1>12. CASE FlushNotify
  BY <1>12 DEF FlushNotify, ConversationTypeOK
<1>13. ASSUME NEW c \in Approver, NEW yes \in BOOLEAN, ReplyReads(c, yes)
       PROVE  CallInv' /\ ApprovedInv'
  BY <1>13 DEF ReplyReads, ConversationTypeOK
<1>14. ASSUME NEW c \in Approver, ReplyWrites(c) PROVE CallInv' /\ ApprovedInv'
  BY <1>14 DEF ReplyWrites, Over, ConversationTypeOK
<1>15. ASSUME NEW c \in Approver, ReplyWakes(c) PROVE CallInv' /\ ApprovedInv'
  BY <1>15 DEF ReplyWakes, Replied, ConversationTypeOK
<1>16. CASE RequestCancel
  BY <1>16 DEF RequestCancel
<1>17. CASE SetCancellation
  BY <1>17 DEF SetCancellation
<1>18. CASE FindPending
  BY <1>18 DEF FindPending
<1>19. CASE ExpirePending
  BY <1>19 DEF ExpirePending
<1>20. CASE WakeRefused
  BY <1>20 DEF WakeRefused, Refused
<1>21. ASSUME NEW n \in Notifier, NoticeReads(n) PROVE CallInv' /\ ApprovedInv'
  BY <1>21 DEF NoticeReads
<1>22. ASSUME NEW n \in Notifier, NoticePublished(n) PROVE CallInv' /\ ApprovedInv'
  BY <1>22 DEF NoticePublished, ConversationTypeOK
<1>23. CASE ViewerSubscribes
  BY <1>23 DEF ViewerSubscribes
<1>24. CASE ViewerReads
  BY <1>24 DEF ViewerReads
<1>25. CASE ViewerReceives
  BY <1>25 DEF ViewerReceives
<1>26. CASE StopTurn
  BY <1>26 DEF StopTurn, Orphaned, NoOrphan, ConversationTypeOK
<1>27. CASE OrphanRequests \/ OrphanReads \/ OrphanWrites
  BY <1>27
     DEF OrphanRequests, OrphanReads, OrphanWrites, Requested, Written, ApprovalClosed, NoOrphan,
         Over, ConversationTypeOK
<1>28. CASE RestartConversation
  BY <1>28
     DEF RestartConversation, Interrupted, ApprovalClosed, ExecOff, NoReply, NoOrphan, Over,
         ConversationTypeOK
<1>29. CASE UNCHANGED cvars
  BY <1>29 DEF cvars
<1> QED
  BY <1>1, <1>2, <1>3, <1>4, <1>5, <1>6, <1>7, <1>8, <1>9, <1>10, <1>11, <1>12, <1>13, <1>14,
     <1>15, <1>16, <1>17, <1>18, <1>19, <1>20, <1>21, <1>22, <1>23, <1>24, <1>25, <1>26, <1>27,
     <1>28, <1>29, <1>30
  DEF ConversationNext, Conversing, ExecStep, CancelStep, NoticeStep, ViewerStep, Replying,
      ReplyStep, Stopping

\* What holds of a turn in every state.
THEOREM ConversationInvariant == ConversationSpec => []ConversationInv
<1>1. ConversationInv /\ [ConversationNext]_cvars => ConversationInv'
  BY ConversationTypeStep, ConversationCallStep DEF ConversationInv
<1> QED BY <1>1, ConversationInitial, PTL DEF ConversationSpec

\* The tool of a turn runs at most once and only on an approval that the record keeps,
\* however many clients answer, cancel and come late, and however often Core stops.
THEOREM ActsAsApproved == ConversationSpec => []ActedAsApproved
<1>1. ConversationInv => ActedAsApproved
  BY DEF ConversationInv, CallInv, ApprovedInv, ActedAsApproved
<1> QED BY <1>1, ConversationInvariant, PTL

\* A turn that is over stays as it is: of the answers and checkpoints that come late, only one
\* whose write followed an outdated read changes it.
THEOREM TurnsStayOver == ConversationSpec => FinishedStaysFinished
<1>1. ASSUME ConversationInv, [ConversationNext]_cvars, turn \in Over, ~odd'.staleWrite
      PROVE  turn' = turn
  <2> USE <1>1 DEF ConversationInv, CallInv, ApprovedInv, Ending, Over, ExecAt
  <2>1. ~CreateTurn
    BY DEF CreateTurn
  <2>2. ~RequestApproval /\ ~CheckpointWrites
    BY DEF RequestApproval, CheckpointWrites, ConversationTypeOK
  <2>3. ASSUME NEW c \in Approver PROVE ~ReplyWrites(c)
    BY DEF ReplyWrites, ConversationTypeOK
  <2>4. ~OrphanRequests /\ ~OrphanWrites
    BY DEF OrphanRequests, OrphanWrites, ConversationTypeOK
  <2>5. CASE RestartConversation
    BY <2>5 DEF RestartConversation, Interrupted
  <2> QED
    BY <2>1, <2>2, <2>3, <2>4, <2>5
    DEF ConversationNext, Conversing, ExecStep, CancelStep, NoticeStep, ViewerStep, Replying,
        ReplyStep, Stopping, cvars, ApplyEvent, ProposeTool, TurnEnds, RegisterFuture,
        RecheckApproval, Announced, ConfirmReturns, RunTool, CheckpointReads, FlushNotify,
        OrphanReads, ReplyReads, ReplyWakes,
        RequestCancel, SetCancellation, FindPending, ExpirePending, WakeRefused, NoticeReads,
        NoticePublished, ViewerSubscribes, ViewerReads, ViewerReceives, StopTurn
<1>2. ConversationInv /\ [ConversationNext]_cvars
        => [(turn \in Over /\ ~odd'.staleWrite) => turn' = turn]_cvars
  BY <1>1
<1> QED BY <1>2, ConversationInvariant, PTL DEF ConversationSpec, FinishedStaysFinished

\* The row of the approval is there, and the answer to it is not yet.
Confirming == exec.pc \in {"registering", "rechecking", "announcing", "waiting"}
Hearing == exec.pc \in {"announcing", "waiting"} /\ future = "pending"

\* An answer that changed the row is about to wake the one who waits.
Answering(c) == reply[c].pc = "waking" /\ reply[c].changed

\* cancel() sets the cancellation before it looks for the approval, so one that was asked for
\* in time is found or has been answered; whoever closes it wakes the one who waits, who looks
\* again after the registration; and a notification that is on its way ends with the turn.
HearInv ==
    /\ turn = "none" => cancel.pc = "idle" /\ ~cancelSet
    /\ cancelSet /\ cancel.pc \in {"idle", "setting"} => exec.pc \in Ending
    /\ cancel.pc \notin {"idle", "setting"} /\ exec.pc # "off" => cancelSet
    /\ \A c \in Approver : reply[c].pc = "writing" => reply[c].changed
    /\ Confirming /\ approval = "pending" /\ ~odd.lateRequest =>
         cancel.pc \notin {"waking", "done"} /\ (cancel.pc = "expiring" => cancel.found)
    /\ Hearing /\ approval # "pending" /\ ~odd.lateRequest =>
         (cancel.pc = "waking" /\ cancel.found) \/ \E c \in Approver : Answering(c)
    /\ exec.pc = "off" => notice["later"] = "none"
    /\ EndIsNoticed

\* Every step keeps it.
LEMMA HearStep == ConversationInv /\ HearInv /\ [ConversationNext]_cvars => HearInv'
<1> SUFFICES ASSUME ConversationInv, HearInv, [ConversationNext]_cvars PROVE HearInv'
  OBVIOUS
<1>t. /\ exec \in [pc : ExecPc, outcome : Over]
      /\ reply \in [Approver -> ReplyRow]
      /\ cancel \in [pc : {"idle", "setting", "finding", "expiring", "waking", "done"},
                     found : BOOLEAN]
      /\ notice \in [Notifier -> NoticeRow]
      /\ viewer \in [pc : {"absent", "off", "reading", "watching", "ended"},
                     queue : SUBSET Snapshot]
      /\ odd \in [staleWrite : BOOLEAN, lateRequest : BOOLEAN, staleNotice : BOOLEAN]
      /\ orphan \in [job : {"none", "request", "reading", "writing"}, outcome : Over]
      /\ Cardinality(viewer.queue) <= 1
      /\ "none" \notin Over
  BY DEF ConversationInv, ConversationTypeOK, ReplyRow, NoticeRow, Over
<1>b. {"creator", "exec", "later", "canceller"} \subseteq Notifier /\ Approver \subseteq Notifier
  BY DEF Notifier
<1>c. /\ exec.pc # "off" \/ approval # "none" => turn # "none"
      /\ turn \in Over \/ orphan.job # "none" => exec.pc \in Ending
      /\ orphan.job # "none" => turn # "none"
  BY DEF ConversationInv, CallInv
<1> USE DEF HearInv, Ending, Confirming, Hearing, Answering, ExecAt, ExecGoes, CancelAt, CancelGoes
\* A notification that begins is not the one that is on its way, and takes nothing away.
<1>n. ASSUME NEW n \in Notifier, Begun(n)
      PROVE  /\ n # "later" => notice'["later"] = notice["later"]
             /\ notice'["exec"] \in {notice["exec"], "reading"}
  BY <1>t, <1>b, <1>n DEF Begun
<1>1. CASE CreateTurn
  <2>1. /\ turn = "none" /\ turn' = "running" /\ exec'.pc = "running"
        /\ UNCHANGED <<approval, cancelSet, future, reply, cancel, viewer, odd>>
    BY <1>1, <1>t DEF CreateTurn
  <2> QED BY <2>1 DEF EndIsNoticed, Over
<1>2. CASE ApplyEvent
  <2>1. /\ exec.pc = "running"
        /\ UNCHANGED <<turn, approval, exec, cancelSet, future, reply, cancel, viewer, odd>>
    BY <1>2 DEF ApplyEvent
  <2> QED BY <1>c, <2>1 DEF EndIsNoticed
<1>3. CASE ProposeTool
  <2>1. /\ exec.pc = "running" /\ exec'.pc = "requesting" /\ ~cancelSet
        /\ UNCHANGED <<turn, approval, cancelSet, future, reply, cancel, notice, viewer, odd>>
    BY <1>3, <1>t DEF ProposeTool
  <2> QED BY <1>c, <2>1 DEF EndIsNoticed
<1>4. ASSUME NEW outcome \in Over, TurnEnds(outcome) PROVE HearInv'
  <2>1. /\ exec.pc = "running" /\ exec'.pc = "ending"
        /\ UNCHANGED <<turn, approval, cancelSet, future, reply, cancel, notice, viewer, odd>>
    BY <1>4 DEF TurnEnds
  <2> QED BY <1>c, <2>1 DEF EndIsNoticed
<1>5. CASE RequestApproval
  <2>1. /\ exec.pc = "requesting" /\ exec'.pc = "registering"
        /\ approval' = "pending" /\ turn' = "waiting_approval"
        /\ odd'.lateRequest = cancelSet
        /\ UNCHANGED <<cancelSet, future, reply, cancel, notice, viewer>>
    BY <1>5, <1>t DEF RequestApproval, Requested
  <2> QED BY <1>c, <1>t, <2>1 DEF EndIsNoticed, Over
<1>6. CASE RegisterFuture
  <2>1. /\ exec.pc = "registering" /\ exec'.pc = "rechecking"
        /\ UNCHANGED <<turn, approval, cancelSet, reply, cancel, notice, viewer, odd>>
    BY <1>6, <1>t DEF RegisterFuture
  <2> QED BY <1>c, <2>1 DEF EndIsNoticed
<1>7. CASE RecheckApproval
  <2>1. /\ exec.pc = "rechecking" /\ exec'.pc = "announcing"
        /\ future' = "pending" => approval = "pending"
        /\ UNCHANGED <<turn, approval, cancelSet, reply, cancel, viewer, odd>>
    BY <1>7, <1>t DEF RecheckApproval
  <2> QED BY <1>c, <2>1 DEF EndIsNoticed
<1>8. CASE Announced
  <2>1. /\ exec.pc = "announcing" /\ exec'.pc = "waiting"
        /\ UNCHANGED <<turn, approval, cancelSet, future, reply, cancel, notice, viewer, odd>>
    BY <1>8, <1>t DEF Announced
  <2> QED BY <1>c, <2>1 DEF EndIsNoticed
<1>9. CASE ConfirmReturns
  <2>1. /\ exec.pc = "waiting" /\ exec'.pc \in {"acting", "running"} /\ cancelSet' = cancelSet
        /\ UNCHANGED <<turn, approval, reply, cancel, notice, viewer, odd>>
    BY <1>9, <1>t DEF ConfirmReturns
  <2> QED BY <1>c, <2>1 DEF EndIsNoticed
<1>10. CASE RunTool
  <2>1. /\ exec.pc = "acting" /\ exec'.pc = "running"
        /\ UNCHANGED <<turn, approval, cancelSet, future, reply, cancel, notice, viewer, odd>>
    BY <1>10, <1>t DEF RunTool
  <2> QED BY <1>c, <2>1 DEF EndIsNoticed
<1>11. CASE CheckpointReads
  <2>1. /\ exec.pc \in {"ending", "closing"}
        /\ exec'.pc \in {"flushing", IF exec.pc = "ending" THEN "saving" ELSE "sealing"}
        /\ turn \in Over => exec'.pc = "flushing"
        /\ UNCHANGED <<turn, approval, cancelSet, future, reply, cancel, notice, viewer, odd>>
    BY <1>11, <1>t DEF CheckpointReads
  <2> QED BY <1>c, <2>1 DEF EndIsNoticed
<1>29. CASE CheckpointWrites
  <2>1. /\ exec.pc \in {"saving", "sealing"} /\ exec'.pc = "flushing" /\ turn' # "none"
        /\ odd'.lateRequest = odd.lateRequest
        /\ UNCHANGED <<cancelSet, future, reply, cancel, notice, viewer>>
    BY <1>29, <1>t DEF CheckpointWrites, Written
  <2> QED BY <2>1 DEF EndIsNoticed
<1>12. CASE FlushNotify
  <2>1. /\ exec.pc = "flushing" /\ exec'.pc = "off"
        /\ notice'["later"] = "none"
        /\ viewer.pc = "watching" => notice'["exec"] = "reading"
        /\ UNCHANGED <<turn, approval, cancelSet, future, reply, cancel, viewer, odd>>
    BY <1>12, <1>t, <1>b DEF FlushNotify, Flushed, Unwatched
  <2> QED BY <1>c, <2>1 DEF EndIsNoticed
<1>13. ASSUME NEW c \in Approver, NEW yes \in BOOLEAN, ReplyReads(c, yes) PROVE HearInv'
  <2>1. /\ reply[c].pc = "idle"
        /\ reply'[c].pc = "writing" => reply'[c].changed
        /\ \A d \in Approver \ {c} : reply'[d] = reply[d]
        /\ UNCHANGED <<turn, approval, exec, cancelSet, future, cancel, notice, viewer, odd>>
    BY <1>13, <1>t DEF ReplyReads
  <2>2. \A d \in Approver : reply[d].pc = "waking" => d # c
    BY <2>1
  <2> QED BY <2>1, <2>2 DEF EndIsNoticed
<1>14. ASSUME NEW c \in Approver, ReplyWrites(c) PROVE HearInv'
  <2>1. /\ reply[c].pc = "writing" /\ reply'[c].pc = "waking"
        /\ reply'[c].changed = reply[c].changed
        /\ \A d \in Approver \ {c} : reply'[d] = reply[d]
        /\ approval' # "pending" /\ turn' = "running"
        /\ odd'.lateRequest = odd.lateRequest
        /\ UNCHANGED <<exec, cancelSet, future, cancel, notice, viewer>>
    BY <1>14, <1>t DEF ReplyWrites, ReplyRow
  <2>2. reply'[c].changed
    BY <2>1
  <2>3. turn # "none"
    BY <1>c, <2>1 DEF ConversationInv, CallInv
  <2> QED BY <2>1, <2>2, <2>3 DEF EndIsNoticed, Over
<1>15. ASSUME NEW c \in Approver, ReplyWakes(c) PROVE HearInv'
  <2>1. /\ reply[c].pc = "waking" /\ reply'[c].pc = "done"
        /\ \A d \in Approver \ {c} : reply'[d] = reply[d]
        /\ future' = "pending" => future = "pending" /\ ~reply[c].changed
        /\ Begun(c)
        /\ UNCHANGED <<turn, approval, exec, cancelSet, cancel, viewer, odd>>
    BY <1>15, <1>t DEF ReplyWakes, Replied
  <2>2. c \in Notifier /\ c # "later"
    BY <1>b, ConversationAssumption
  <2>3. notice'["exec"] \in {notice["exec"], "reading"}
    BY <1>n, <2>1, <2>2
  <2>4. exec.pc = "off" => notice'["later"] = "none"
    BY <1>n, <2>1, <2>2
  <2>5. EndIsNoticed'
    BY <2>1, <2>3 DEF EndIsNoticed
  <2>6. ASSUME Hearing', approval # "pending", ~odd.lateRequest
        PROVE  (cancel.pc = "waking" /\ cancel.found) \/ \E d \in Approver : Answering(d)'
    <3>1. Hearing /\ ~reply[c].changed
      BY <2>1, <2>6
    <3>2. ASSUME NEW d \in Approver, Answering(d) PROVE Answering(d)'
      <4>1. d # c
        BY <3>1, <3>2
      <4> QED BY <2>1, <3>2, <4>1
    <3>3. (cancel.pc = "waking" /\ cancel.found) \/ \E d \in Approver : Answering(d)
      BY <2>6, <3>1
    <3> HIDE DEF Answering
    <3> QED BY <3>2, <3>3
  <2>7. \A d \in Approver : reply'[d].pc = "writing" => reply'[d].changed
    BY <2>1
  <2>8. Confirming' = Confirming
    BY <2>1
  <2> HIDE DEF Hearing, Answering, Confirming
  <2> QED BY <2>1, <2>4, <2>5, <2>6, <2>7, <2>8
<1>16. CASE RequestCancel
  <2>1. /\ cancel.pc = "idle" /\ cancel'.pc = "setting" /\ turn # "none"
        /\ UNCHANGED <<turn, approval, exec, cancelSet, future, reply, notice, viewer, odd>>
    BY <1>16, <1>t DEF RequestCancel
  <2> QED BY <2>1 DEF EndIsNoticed
<1>17. CASE SetCancellation
  <2>1. /\ cancel.pc = "setting" /\ cancel'.pc = "finding" /\ cancelSet' = (exec.pc # "off")
        /\ UNCHANGED <<turn, approval, exec, future, reply, notice, viewer, odd>>
    BY <1>17, <1>t DEF SetCancellation
  <2> QED BY <2>1 DEF EndIsNoticed
<1>18. CASE FindPending
  <2>1. /\ cancel.pc = "finding" /\ cancel'.pc = "expiring"
        /\ cancel'.found = (approval = "pending")
        /\ UNCHANGED <<turn, approval, exec, cancelSet, future, reply, notice, viewer, odd>>
    BY <1>18, <1>t DEF FindPending
  <2> QED BY <2>1 DEF EndIsNoticed
<1>19. CASE ExpirePending
  <2>1. /\ cancel.pc = "expiring" /\ cancel'.pc = "waking" /\ cancel'.found = cancel.found
        /\ approval' # "pending"
        /\ UNCHANGED <<turn, exec, cancelSet, future, reply, notice, viewer, odd>>
    BY <1>19, <1>t DEF ExpirePending
  <2> QED BY <2>1 DEF EndIsNoticed
<1>20. CASE WakeRefused
  <2>1. /\ cancel.pc = "waking" /\ cancel'.pc = "done"
        /\ future' = "pending" => future = "pending" /\ ~cancel.found
        /\ Begun("canceller")
        /\ UNCHANGED <<turn, approval, exec, cancelSet, reply, viewer, odd>>
    BY <1>20, <1>t DEF WakeRefused, Refused
  <2>2. /\ notice'["later"] = notice["later"]
        /\ notice'["exec"] \in {notice["exec"], "reading"}
    BY <1>b, <1>n, <2>1
  <2> QED BY <2>1, <2>2 DEF EndIsNoticed
<1>21. ASSUME NEW n \in Notifier, NoticeReads(n) PROVE HearInv'
  <2>1. /\ notice[n] = "reading"
        /\ turn \in Over => notice'[n] = "over"
        /\ \A m \in Notifier \ {n} : notice'[m] = notice[m]
        /\ UNCHANGED <<turn, approval, exec, cancelSet, future, reply, cancel, viewer, odd>>
    BY <1>21, <1>t DEF NoticeReads
  <2>2. exec.pc = "off" => notice'["later"] = "none"
    BY <1>b, <2>1
  <2>3. EndIsNoticed'
    BY <1>b, <2>1 DEF EndIsNoticed
  <2> QED BY <2>1, <2>2, <2>3
<1>22. ASSUME NEW n \in Notifier, NoticePublished(n) PROVE HearInv'
  <2>1. /\ notice[n] \in {"live", "over"} /\ notice'[n] = "none"
        /\ \A m \in Notifier \ {n} : notice'[m] = notice[m]
        /\ viewer'.pc = viewer.pc
        /\ viewer.pc = "watching" => viewer'.queue = {notice[n]}
        /\ odd'.lateRequest = odd.lateRequest
        /\ odd'.staleNotice = (odd.staleNotice
                                  \/ (n # "later" /\ turn \in Over /\ notice[n] = "live"))
        /\ UNCHANGED <<turn, approval, exec, cancelSet, future, reply, cancel>>
    BY <1>22, <1>t DEF NoticePublished, Snapshot
  <2>2. exec.pc = "off" => notice'["later"] = "none"
    BY <1>b, <2>1
  <2>3. EndIsNoticed'
    <3> SUFFICES ASSUME turn \in Over, viewer.pc = "watching",
                        exec.pc \notin {"closing", "sealing", "flushing"}
                 PROVE  "over" \in viewer'.queue \/ odd'.staleNotice
      BY <2>1 DEF EndIsNoticed
    <3>1. exec.pc = "off" /\ n # "later"
      BY <1>c, <2>1
    <3> QED BY <2>1, <3>1
  <2> QED BY <2>1, <2>2, <2>3
<1>23. CASE ViewerSubscribes \/ ViewerReads
  <2>1. /\ turn \in Over => viewer'.pc # "watching"
        /\ UNCHANGED <<turn, approval, exec, cancelSet, future, reply, cancel, notice, odd>>
    BY <1>23, <1>t DEF ViewerSubscribes, ViewerReads
  <2> QED BY <2>1 DEF EndIsNoticed
<1>24. CASE ViewerReceives
  <2>1. PICK signal \in viewer.queue :
             viewer' = [pc |-> IF signal = "over" THEN "ended" ELSE "watching", queue |-> {}]
    BY <1>24 DEF ViewerReceives
  <2>2. viewer.pc = "watching"
        /\ UNCHANGED <<turn, approval, exec, cancelSet, future, reply, cancel, notice, odd>>
    BY <1>24 DEF ViewerReceives
  <2>3. viewer.queue = {signal}
    <3>1. IsFiniteSet(viewer.queue)
      <4>1. viewer.queue \subseteq {"live"} \cup {"over"}
        BY <1>t DEF Snapshot
      <4>2. IsFiniteSet({"live"} \cup {"over"})
        BY FS_Singleton, FS_AddElement
      <4> QED BY <4>1, <4>2, FS_Subset
    <3>2. ASSUME NEW other \in viewer.queue PROVE other = signal
      <4>1. CASE other # signal
        <5>0. IsFiniteSet({signal}) /\ Cardinality({signal}) = 1
          BY FS_Singleton
        <5>1. {signal} \cup {other} \subseteq viewer.queue
          BY <3>2
        <5>2. Cardinality({signal} \cup {other}) = 2
          <6>1. other \notin {signal}
            BY <4>1
          <6>2. Cardinality({signal} \cup {other}) = Cardinality({signal}) + 1
            BY ONLY <5>0, <6>1, FS_AddElement
          <6> QED BY ONLY <5>0, <6>2
        <5>3. Cardinality({signal} \cup {other}) <= Cardinality(viewer.queue)
          BY <3>1, <5>1, FS_Subset
        <5>4. Cardinality(viewer.queue) <= 1
          BY <1>t
        <5>5. Cardinality(viewer.queue) \in Nat
          BY <3>1, FS_CardinalityType
        <5> DEFINE one == Cardinality(viewer.queue)
                   two == Cardinality({signal} \cup {other})
        <5>6. two = 2 /\ two <= one /\ one <= 1 /\ one \in Nat
          BY <5>2, <5>3, <5>4, <5>5
        <5> HIDE DEF one, two
        <5> QED BY <5>6
      <4> QED BY <4>1
    <3> QED BY <3>2
  <2>4. EndIsNoticed'
    <3>1. CASE signal = "over"
      BY <2>1, <3>1 DEF EndIsNoticed
    <3>2. CASE signal # "over"
      BY <2>2, <2>3, <3>2 DEF EndIsNoticed
    <3> QED BY <3>1, <3>2
  <2> QED BY <2>2, <2>4
<1>25. CASE StopTurn
  <2>1. /\ exec.pc \notin Ending /\ exec'.pc \in {"closing", "flushing"} /\ cancelSet'
        /\ UNCHANGED <<turn, approval, reply, cancel, viewer, odd>>
    BY <1>25, <1>t DEF StopTurn
  <2> QED BY <1>c, <2>1 DEF EndIsNoticed
<1>26. CASE OrphanRequests
  <2>1. /\ exec.pc \in Ending /\ turn' = "waiting_approval"
        /\ approval' = "pending" /\ turn # "none"
        /\ odd'.lateRequest = odd.lateRequest /\ odd'.staleNotice = odd.staleNotice
        /\ UNCHANGED <<exec, cancelSet, future, reply, cancel, notice, viewer>>
    BY <1>26, <1>c, <1>t DEF OrphanRequests, Requested
  <2> QED BY <2>1 DEF EndIsNoticed, Over
<1>30. CASE OrphanReads
  BY <1>30 DEF OrphanReads, EndIsNoticed
<1>31. CASE OrphanWrites
  <2> DEFINE unheard == exec.pc = "off" /\ notice["exec"] # "reading" /\ turn \notin Over
  <2>1. /\ orphan.job # "none" /\ turn' = orphan.outcome /\ orphan.outcome \in Over
        /\ approval' # "pending"
        /\ UNCHANGED <<exec, cancelSet, future, reply, cancel, notice, viewer>>
    BY <1>31, <1>t DEF OrphanWrites, Written, ApprovalClosed
  <2>2. odd' = [odd EXCEPT !.staleWrite = @ \/ turn \in Over, !.staleNotice = @ \/ unheard]
    BY <1>31 DEF OrphanWrites
  <2> HIDE DEF unheard
  <2>3. odd'.lateRequest = odd.lateRequest /\ odd'.staleNotice = (odd.staleNotice \/ unheard)
    BY <1>t, <2>2
  <2>4. turn # "none" /\ turn' # "none" /\ exec.pc \in Ending
    BY <1>c, <1>t, <2>1
  <2>5. EndIsNoticed'
    BY <2>1, <2>3, <2>4 DEF unheard, EndIsNoticed
  <2> QED BY <2>1, <2>3, <2>4, <2>5
<1>27. CASE RestartConversation
  <2>1. /\ exec'.pc = "off" /\ cancelSet' = FALSE /\ cancel'.pc = "idle"
        /\ viewer'.pc # "watching"
        /\ notice'["later"] = "none"
        /\ \A c \in Approver : reply'[c].pc = "idle"
    BY <1>27, <1>b DEF RestartConversation, ExecOff, NoReply, NoCancel, NoNotice, NoViewer
  <2> QED BY <2>1 DEF EndIsNoticed
<1>28. CASE UNCHANGED cvars
  BY <1>28 DEF cvars, EndIsNoticed
<1> QED
  BY <1>1, <1>2, <1>3, <1>4, <1>5, <1>6, <1>7, <1>8, <1>9, <1>10, <1>11, <1>12, <1>13, <1>14,
     <1>15, <1>16, <1>17, <1>18, <1>19, <1>20, <1>21, <1>22, <1>23, <1>24, <1>25, <1>26, <1>27,
     <1>28, <1>29, <1>30, <1>31
  DEF ConversationNext, Conversing, ExecStep, CancelStep, NoticeStep, ViewerStep, Replying,
      ReplyStep, Stopping

LEMMA HearInvariant == ConversationSpec => []HearInv
<1>1. ConversationInit => HearInv
  <2> SUFFICES ASSUME ConversationInit PROVE HearInv
    OBVIOUS
  <2>1. /\ turn = "none" /\ exec.pc = "off" /\ cancel.pc = "idle" /\ ~cancelSet
        /\ viewer.pc # "watching"
        /\ \A c \in Approver : reply[c].pc = "idle"
        /\ "later" \in Notifier
    BY DEF ConversationInit, ExecOff, NoCancel, NoReply, Notifier, NoViewer, Viewerless
  <2>2. notice["later"] = "none"
    BY <2>1 DEF ConversationInit, NoNotice
  <2> QED BY <2>1, <2>2 DEF HearInv, Ending, Confirming, Hearing, EndIsNoticed
<1> QED BY <1>1, ConversationInvariant, HearStep, PTL DEF ConversationSpec

\* cancel(): a confirm() that waits in a turn that is cancelled is about to be woken, by the
\* cancel() itself or by the answer that came first, unless it asked after the turn was
\* cancelled, for any number of clients and restarts.
THEOREM CancelsAreHeard == ConversationSpec => []CancelIsHeard
<1>1. ConversationInv /\ HearInv => CancelIsHeard
  BY DEF ConversationInv, ConversationTypeOK, HearInv, Ending, Confirming, Hearing, Answering,
         CancelIsHeard, ExecAt, CancelAt
<1> QED BY <1>1, ConversationInvariant, HearInvariant, PTL

\* _flush_notify() and updates(): a client that watches a turn that is over is about to hear of
\* it, unless a notification of somebody else that read the turn before its end came after.
THEOREM EndsAreNoticed == ConversationSpec => []EndIsNoticed
<1>1. HearInv => EndIsNoticed
  BY DEF HearInv
<1> QED BY <1>1, HearInvariant, PTL

-----------------------------------------------------------------------------
(* TriggerDelivery, for any number of Resources, contents and attempts *)

\* What is known of an event that nobody has claimed.
Unclaimed == {"none", "baselined", "received"}

\* The events go with their trigger, and nothing was launched before it.
OwnerInv ==
    /\ trigger.state \in {"absent", "deleted"} => \A e \in Event : event[e].state = "none"
    /\ trigger.state = "absent" => disp.pc = "idle" /\ \A e \in Event : runs[e] = "absent"

KnownEvents(rows) == {e \in Event : rows[e].state # "none"}

\* The count is that of the events received, and those are known as long as the trigger is.
CountInv == trigger.state # "deleted" => trigger.count <= Cardinality(KnownEvents(event))

\* The dispatcher has an event in hand that was claimed, and it marks what is linked.
DispatchInv ==
    /\ disp.pc # "idle" /\ trigger.state # "deleted" => event[InHand].state \notin Unclaimed
    /\ disp.pc = "marking" => InHand \in links

\* An event that waits has an attempt left.
AttemptInv ==
    /\ \A e \in Event : /\ event[e].state = "received" => event[e].attempts = 0
                        /\ event[e].state = "retry_wait" => event[e].attempts < MaxDeliveryAttempts
    /\ bridge.pc = "receiving" => bridge.next \in Uri

TriggerInv == TriggerTypeOK /\ OwnerInv /\ CountInv /\ DispatchInv /\ AttemptInv /\ DeliveredOnlyNews

EventRow == [state : EventState, attempts : 0..MaxDeliveryAttempts, timer : EventTimer,
             at : 0..Cardinality(Event)]

LEMMA EventFacts ==
    /\ IsFiniteSet(Event) /\ Cardinality(Event) \in Nat
    /\ AnEvent \in Event
    /\ NoEvent \in EventRow
<1>1. IsFiniteSet(Uri) /\ IsFiniteSet(Content)
  BY TriggerAssumption, FS_Interval DEF Uri, Content
<1>2. IsFiniteSet(Event) /\ Cardinality(Event) \in Nat
  BY <1>1, FS_Product, FS_CardinalityType DEF Event
<1>3. AnEvent \in Event
  BY TriggerAssumption DEF AnEvent, Event, Uri, Content
<1> QED BY <1>2, <1>3, TriggerAssumption DEF NoEvent, EventRow, EventState, EventTimer

LEMMA EventStates ==
    /\ {"claimed", "task_created", "retry_wait", "dead", "received", "baselined"} \subseteq EventState
    /\ {"none", "running", "elapsed"} \subseteq EventTimer
BY DEF EventState, EventTimer

\* The rows that an attempt ends in.
LEMMA AttemptRows ==
    ASSUME NEW e \in Event, event[e] \in EventRow
    PROVE  /\ Deferred(e) \in EventRow /\ Failed(e) \in EventRow
           /\ Deferred(e).state = "retry_wait" /\ Deferred(e).attempts < MaxDeliveryAttempts
           /\ Failed(e).state \in {"retry_wait", "dead"}
           /\ Failed(e).state = "retry_wait" => Failed(e).attempts < MaxDeliveryAttempts
           /\ Failed(e).state = "dead" => Spent(e)
<1> DEFINE less == IF event[e].attempts > 0 THEN event[e].attempts - 1 ELSE 0
<1>1. event[e].attempts \in 0..MaxDeliveryAttempts
  BY DEF EventRow
<1>2. less \in 0..MaxDeliveryAttempts /\ less < MaxDeliveryAttempts
  BY <1>1, TriggerAssumption
<1>3. Deferred(e) = [event[e] EXCEPT !.state = "retry_wait", !.timer = "running", !.attempts = less]
  BY DEF Deferred
<1> HIDE DEF less
<1>4. /\ Deferred(e) \in EventRow
      /\ Deferred(e).state = "retry_wait" /\ Deferred(e).attempts < MaxDeliveryAttempts
  <2> DEFINE r == event[e]
  <2> HIDE DEF r
  <2>1. r \in EventRow
    BY DEF r
  <2>2. "retry_wait" \in EventState /\ "running" \in EventTimer
    BY EventStates
  <2>3. /\ [r EXCEPT !.state = "retry_wait", !.timer = "running", !.attempts = less] \in EventRow
        /\ [r EXCEPT !.state = "retry_wait", !.timer = "running", !.attempts = less].state
              = "retry_wait"
        /\ [r EXCEPT !.state = "retry_wait", !.timer = "running", !.attempts = less].attempts = less
    BY <1>2, <2>1, <2>2 DEF EventRow
  <2> QED BY <1>2, <1>3, <2>3 DEF r
<1>5. CASE Spent(e)
  <2>1. Failed(e) = [event[e] EXCEPT !.state = "dead", !.timer = "none"]
    BY <1>5 DEF Failed
  <2>2. Failed(e) \in EventRow /\ Failed(e).state = "dead"
    BY <2>1, EventStates DEF EventRow
  <2> QED BY <1>4, <1>5, <2>2
<1>6. CASE ~Spent(e)
  <2>1. Failed(e) = [event[e] EXCEPT !.state = "retry_wait", !.timer = "running"]
    BY <1>6 DEF Failed
  <2>2. /\ Failed(e) \in EventRow /\ Failed(e).state = "retry_wait"
        /\ Failed(e).attempts = event[e].attempts
    BY <2>1, EventStates DEF EventRow
  <2>3. event[e].attempts < MaxDeliveryAttempts
    BY <1>1, <1>6, TriggerAssumption DEF Spent
  <2> QED BY <1>4, <2>2, <2>3
<1> QED BY <1>5, <1>6

\* More rows that are known are more events; one more is one event more.
LEMMA KnownGrows ==
    ASSUME NEW old, NEW new,
           KnownEvents(old) \subseteq KnownEvents(new)
    PROVE  /\ Cardinality(KnownEvents(old)) \in Nat /\ Cardinality(KnownEvents(new)) \in Nat
           /\ Cardinality(KnownEvents(old)) <= Cardinality(KnownEvents(new))
           /\ Cardinality(KnownEvents(new)) <= Cardinality(Event)
           /\ \A e \in Event : KnownEvents(new) = KnownEvents(old) \cup {e} /\ e \notin KnownEvents(old)
                 => Cardinality(KnownEvents(new)) = Cardinality(KnownEvents(old)) + 1
<1>1. KnownEvents(old) \subseteq Event /\ KnownEvents(new) \subseteq Event
  BY DEF KnownEvents
<1>2. IsFiniteSet(KnownEvents(old)) /\ IsFiniteSet(KnownEvents(new))
  BY <1>1, EventFacts, FS_Subset
<1> QED BY <1>1, <1>2, EventFacts, FS_Subset, FS_CardinalityType, FS_AddElement

BridgeRow == [pc : BridgePc, fresh : BOOLEAN, next : 1..NumUris + 1, item : Event,
              inventory : SUBSET Event]

LEMMA BridgeIdles == BridgeIdle \in BridgeRow /\ BridgeIdle.pc = "idle"
BY EventFacts, TriggerAssumption DEF BridgeIdle, BridgeRow, BridgePc

LEMMA TriggerInitial == TriggerInit => TriggerInv
<1> SUFFICES ASSUME TriggerInit PROVE TriggerInv
  OBVIOUS
<1> USE TriggerAssumption DEF TriggerInit
<1>1. /\ resource \in [Uri -> Content]
      /\ trigger \in [state : TriggerState, observed : BOOLEAN, count : 0..Cardinality(Event)]
      /\ event \in [Event -> EventRow]
      /\ runs \in [Event -> RunPhase]
      /\ links \subseteq Event
  BY EventFacts DEF Uri, Content, TriggerState, RunPhase
<1>2. /\ disp \in [pc : DispPc, event : Event]
      /\ bridge \in BridgeRow
  BY EventFacts, BridgeIdles DEF DispIdle, DispPc
<1>3. manual \in BOOLEAN /\ changes \in 0..MaxChanges /\ mishaps \in 0..MaxMishaps
  <2>1. 0 \in 0..MaxChanges /\ 0 \in 0..MaxMishaps
    OBVIOUS
  <2> QED BY <2>1
<1>4. TriggerTypeOK
  BY <1>1, <1>2, <1>3 DEF TriggerTypeOK, EventRow, BridgeRow
<1>5. CountInv
  BY KnownGrows DEF CountInv
<1>6. OwnerInv /\ DispatchInv /\ AttemptInv /\ DeliveredOnlyNews
  <2>1. \A e \in Event : event[e].state = "none" /\ runs[e] = "absent"
    BY DEF NoEvent
  <2>2. disp.pc = "idle" /\ bridge.pc = "idle" /\ trigger.state = "absent"
    BY DEF DispIdle, BridgeIdle
  <2> HIDE DEF TriggerInit
  <2>3. OwnerInv
    BY <2>1, <2>2 DEF OwnerInv
  <2>4. DispatchInv /\ AttemptInv
    BY <2>1, <2>2 DEF DispatchInv, AttemptInv
  <2>5. DeliveredOnlyNews
    BY <2>1, <2>2 DEF DeliveredOnlyNews
  <2> QED BY <2>3, <2>4, <2>5
<1> QED BY <1>4, <1>5, <1>6 DEF TriggerInv

\* The types are kept: there are no more events received than there are events.
LEMMA TriggerTypeStep ==
    ASSUME TriggerInv, [TriggerNext]_tvars
    PROVE  TriggerTypeOK'
<1> DEFINE N == Cardinality(Event)
<1>n. N \in Nat
  BY EventFacts
<1>t. /\ resource \in [Uri -> Content]
      /\ trigger \in [state : TriggerState, observed : BOOLEAN, count : 0..N]
      /\ event \in [Event -> EventRow]
      /\ runs \in [Event -> RunPhase]
      /\ links \subseteq Event
      /\ manual \in BOOLEAN
      /\ disp \in [pc : DispPc, event : Event]
      /\ bridge \in BridgeRow
      /\ changes \in 0..MaxChanges
      /\ mishaps \in 0..MaxMishaps
  BY DEF TriggerInv, TriggerTypeOK, EventRow, BridgeRow
<1> DEFINE T ==
      /\ resource' \in [Uri -> Content]
      /\ trigger' \in [state : TriggerState, observed : BOOLEAN, count : 0..N]
      /\ event' \in [Event -> EventRow]
      /\ runs' \in [Event -> RunPhase]
      /\ links' \subseteq Event
      /\ manual' \in BOOLEAN
      /\ disp' \in [pc : DispPc, event : Event]
      /\ bridge' \in BridgeRow
      /\ changes' \in 0..MaxChanges
      /\ mishaps' \in 0..MaxMishaps
<1>q. T => TriggerTypeOK'
  BY DEF TriggerTypeOK, EventRow, BridgeRow
<1>r. ASSUME NEW e \in Event, NEW row \in EventRow, event' = [event EXCEPT ![e] = row]
      PROVE  event' \in [Event -> EventRow]
  BY <1>t, <1>r
<1>s. ASSUME NEW row \in BridgeRow, NEW pc \in BridgePc
      PROVE  [row EXCEPT !.pc = pc] \in BridgeRow
  BY DEF BridgeRow
<1>u. DispIdle \in [pc : DispPc, event : Event]
  BY EventFacts DEF DispIdle, DispPc
<1>v. \A e \in Event : event[e] \in EventRow
  BY <1>t
<1> HIDE DEF N
<1> USE TriggerAssumption, <1>n, <1>t DEF InHand, DispAt, DispGoto, Mishap
<1>1. CASE BridgeStarts
  <2>1. [BridgeIdle EXCEPT !.pc = "reading", !.fresh = NeedsBaseline] \in BridgeRow
    BY BridgeIdles DEF BridgeRow, BridgePc, NeedsBaseline
  <2> QED BY <1>1, <1>q, <2>1 DEF BridgeStarts
<1>2. CASE BridgeReads
  <2>1. <<bridge.next, resource[bridge.next]>> \in Event
    BY <1>2 DEF BridgeReads, Event
  <2> DEFINE item == <<bridge.next, resource[bridge.next]>>
  <2>2. bridge.next + 1 \in 1..NumUris + 1
    BY <1>2 DEF BridgeReads, Uri
  <2>3. /\ [bridge EXCEPT !.next = @ + 1, !.inventory = @ \cup {item}] \in BridgeRow
        /\ [bridge EXCEPT !.pc = "receiving", !.item = item] \in BridgeRow
    <3> HIDE DEF item
    <3> QED BY <2>1, <2>2 DEF BridgeRow, BridgePc, item
  <2>4. bridge' \in BridgeRow
    BY <1>2, <2>3 DEF BridgeReads
  <2> QED BY <1>2, <1>q, <2>4 DEF BridgeReads
<1>3. CASE BridgeReadFails
  <2>1. bridge.next + 1 \in 1..NumUris + 1
    BY <1>3 DEF BridgeReadFails, Uri
  <2>2. [bridge EXCEPT !.next = @ + 1] \in BridgeRow
    BY <2>1 DEF BridgeRow
  <2>3. bridge' \in BridgeRow
    BY <1>3, <2>2, BridgeIdles DEF BridgeReadFails
  <2> QED BY <1>3, <1>q, <2>3 DEF BridgeReadFails
<1>4. CASE BridgeHasRead
  <2>1. bridge' \in BridgeRow
    BY <1>4, <1>s, BridgeIdles DEF BridgeHasRead, BridgePc
  <2> QED BY <1>4, <1>q, <2>1 DEF BridgeHasRead
<1>5. CASE Receive
  <2>1. bridge' \in BridgeRow
    <3>1. bridge.pc = "receiving" /\ bridge.next \in Uri
      BY <1>5 DEF Receive, TriggerInv, AttemptInv
    <3>2. bridge.next + 1 \in 1..NumUris + 1
      BY <3>1 DEF Uri
    <3>3. [bridge EXCEPT !.pc = "reading", !.next = @ + 1, !.item = AnEvent] \in BridgeRow
      BY <3>2, EventFacts DEF BridgeRow, BridgePc
    <3> QED BY <1>5, <3>3, BridgeIdles DEF Receive
  <2>2. CASE trigger.state # "active" \/ Known(bridge.item)
    BY <1>5, <1>q, <2>1, <2>2 DEF Receive
  <2>3. CASE trigger.state = "active" /\ ~Known(bridge.item)
    <3> DEFINE item == bridge.item
               row == [NoEvent EXCEPT !.state = "received", !.at = trigger.count + 1]
    <3>1. /\ trigger' = [trigger EXCEPT !.observed = TRUE, !.count = @ + 1]
          /\ event' = [event EXCEPT ![item] = row]
          /\ UNCHANGED <<resource, runs, links, manual, disp, changes, mishaps>>
      BY <1>5, <2>3 DEF Receive
    <3>2. item \in Event /\ item \notin KnownEvents(event)
      BY <2>3 DEF Known, KnownEvents, BridgeRow
    <3>3. trigger.count + 1 <= N
      <4>1. KnownEvents(event) \subseteq Event /\ KnownEvents(event) # Event
        BY <3>2 DEF KnownEvents
      <4>2. Cardinality(KnownEvents(event)) < N /\ Cardinality(KnownEvents(event)) \in Nat
        BY <4>1, EventFacts, FS_Subset, FS_CardinalityType DEF N
      <4>3. trigger.count <= Cardinality(KnownEvents(event))
        BY <2>3 DEF TriggerInv, CountInv
      <4> QED BY <4>2, <4>3
    <3>4. row \in EventRow
      <4>1. trigger.count + 1 \in 0..N
        BY <3>3
      <4> QED BY <4>1, EventFacts, EventStates DEF EventRow, N
    <3> HIDE DEF row, item
    <3>5. event' \in [Event -> EventRow]
      BY <1>r, <3>1, <3>2, <3>4
    <3>6. trigger' \in [state : TriggerState, observed : BOOLEAN, count : 0..N]
      <4>1. trigger.count + 1 \in 0..N
        BY <3>3
      <4> QED BY <3>1, <4>1
    <3> QED BY <1>q, <2>1, <3>1, <3>5, <3>6
  <2> QED BY <2>2, <2>3
<1>6. CASE Baseline
  <2> DEFINE row == [NoEvent EXCEPT !.state = "baselined"]
  <2>1. row \in EventRow
    BY EventFacts DEF NoEvent, EventRow, EventState, EventTimer
  <2>2. event' \in [Event -> EventRow]
    BY <1>6, <2>1 DEF Baseline
  <2>3. trigger' \in [state : TriggerState, observed : BOOLEAN, count : 0..N]
    BY <1>6 DEF Baseline
  <2> QED BY <1>6, <1>q, <2>2, <2>3, BridgeIdles DEF Baseline
<1>7. ASSUME NEW e \in Event, GiveUpEvent(e) PROVE TriggerTypeOK'
  <2> DEFINE row == [event[e] EXCEPT !.state = "dead", !.timer = "none"]
  <2>1. row \in EventRow
    BY <1>v DEF EventRow, EventState, EventTimer
  <2>2. event' = [event EXCEPT ![e] = row]
    BY <1>7 DEF GiveUpEvent
  <2> HIDE DEF row
  <2>3. event' \in [Event -> EventRow]
    BY <1>r, <2>1, <2>2
  <2> QED BY <1>7, <1>q, <2>3 DEF GiveUpEvent
<1>8. ASSUME NEW e \in Event, ClaimEvent(e) PROVE TriggerTypeOK'
  <2> DEFINE row == [event[e] EXCEPT !.state = "claimed", !.timer = "running", !.attempts = @ + 1]
  <2>0. event[e].attempts < MaxDeliveryAttempts
    BY <1>8, <1>v DEF ClaimEvent, OldestDue, DueEvents, Spent, TriggerInv, AttemptInv, EventRow
  <2>3. event[e] \in EventRow /\ event[e].attempts + 1 \in 0..MaxDeliveryAttempts
    <3>1. event[e] \in EventRow /\ event[e].attempts \in 0..MaxDeliveryAttempts
      BY <1>v DEF EventRow
    <3> QED BY <2>0, <3>1
  <2>1. row \in EventRow
    BY <2>3, EventStates DEF EventRow
  <2>2. event' = [event EXCEPT ![e] = row]
    BY <1>8 DEF ClaimEvent
  <2> HIDE DEF row
  <2>4. event' \in [Event -> EventRow]
    BY <1>r, <2>1, <2>2
  <2> QED BY <1>8, <1>q, <2>4 DEF ClaimEvent, DispPc
<1>9. CASE ReadTrigger
  BY <1>9, <1>q DEF ReadTrigger, DispPc
<1>10. CASE CheckTask
  BY <1>10, <1>q DEF CheckTask, DispPc
<1>11. CASE LaunchFails
  BY <1>11, <1>q DEF LaunchFails, DispPc
<1>12. CASE CreateExecution
  <2>1. disp' \in [pc : DispPc, event : Event]
    BY <1>12 DEF CreateExecution, DispPc
  <2>2. runs' \in [Event -> RunPhase]
    BY <1>12 DEF CreateExecution, RunPhase
  <2> QED BY <1>12, <1>q, <2>1, <2>2 DEF CreateExecution
<1>13. CASE LinkExecution
  BY <1>13, <1>q DEF LinkExecution, Linked, DispPc
<1>14. CASE MarkCreated
  <2> DEFINE e == disp.event
             row == [event[e] EXCEPT !.state = "task_created", !.timer = "none"]
  <2>0. e \in Event /\ event[e] \in EventRow
    BY <1>v
  <2>1. row \in EventRow /\ e \in Event
    BY <2>0, EventStates DEF EventRow
  <2>2. event' = [event EXCEPT ![e] = row] \/ event' = event
    BY <1>14 DEF MarkCreated
  <2>3. disp' \in [pc : DispPc, event : Event]
    BY <1>14, <1>u DEF MarkCreated, DispPc
  <2> HIDE DEF row, e
  <2>4. event' \in [Event -> EventRow]
    BY <1>r, <2>1, <2>2
  <2> QED BY <1>14, <1>q, <2>3, <2>4 DEF MarkCreated
<1>15. CASE Record
  <2> DEFINE e == disp.event
             row == IF disp.pc = "deferring" THEN Deferred(e) ELSE Failed(e)
  <2>0. e \in Event
    OBVIOUS
  <2>1. Deferred(e) \in EventRow /\ Failed(e) \in EventRow
    BY <1>v, <2>0, AttemptRows
  <2>2. event' = [event EXCEPT ![e] = row] \/ event' = event
    BY <1>15 DEF Record
  <2>3. row \in EventRow
    BY <2>1
  <2> HIDE DEF row, e
  <2>4. event' \in [Event -> EventRow]
    BY <1>r, <2>0, <2>2, <2>3
  <2> QED BY <1>15, <1>q, <1>u, <2>4 DEF Record
<1>16. CASE RecordLost
  BY <1>16, <1>q, <1>u DEF RecordLost
<1>17. CASE CreateTrigger
  BY <1>17, <1>q DEF CreateTrigger, TriggerState
<1>18. ASSUME NEW paused \in BOOLEAN, SetPaused(paused) PROVE TriggerTypeOK'
  BY <1>18, <1>q DEF SetPaused, TriggerState
<1>19. CASE DeleteTrigger
  <2>1. event' \in [Event -> EventRow]
    BY <1>19, EventFacts DEF DeleteTrigger
  <2>2. trigger' \in [state : TriggerState, observed : BOOLEAN, count : 0..N]
    BY <1>19 DEF DeleteTrigger, TriggerState
  <2> QED BY <1>19, <1>q, <2>1, <2>2 DEF DeleteTrigger
<1>20. CASE ManualRun
  BY <1>20, <1>q DEF ManualRun
<1>21. ASSUME NEW u \in Uri, NEW c \in Content, ResourceChanges(u, c) PROVE TriggerTypeOK'
  BY <1>21, <1>q DEF ResourceChanges
<1>22. ASSUME NEW e \in Event, NEW to \in RunPhase, RunGoes(e, to) PROVE TriggerTypeOK'
  <2>1. runs' \in [Event -> RunPhase]
    BY <1>22 DEF RunGoes
  <2> QED BY <1>22, <1>q, <2>1 DEF RunGoes
<1>23. ASSUME NEW e \in Event, TimerRunsOut(e) PROVE TriggerTypeOK'
  <2> DEFINE row == [event[e] EXCEPT !.timer = "elapsed"]
  <2>1. row \in EventRow
    BY <1>v DEF EventRow, EventTimer
  <2>2. event' = [event EXCEPT ![e] = row]
    BY <1>23 DEF TimerRunsOut
  <2> HIDE DEF row
  <2>3. event' \in [Event -> EventRow]
    BY <1>r, <2>1, <2>2
  <2> QED BY <1>23, <1>q, <2>3 DEF TimerRunsOut
<1>24. CASE TriggerCrash
  BY <1>24, <1>q, <1>u, BridgeIdles DEF TriggerCrash
<1>25. CASE UNCHANGED tvars
  BY <1>25, <1>q DEF tvars
<1> QED
  BY <1>1, <1>2, <1>3, <1>4, <1>5, <1>6, <1>7, <1>8, <1>9, <1>10, <1>11, <1>12, <1>13, <1>14,
     <1>15, <1>16, <1>17, <1>18, <1>19, <1>20, <1>21, <1>22, <1>23, <1>24, <1>25
  DEF TriggerNext, BridgeStep, DispatchStep

\* The events known never become fewer than the trigger has received.
LEMMA TriggerCountStep ==
    ASSUME TriggerInv, [TriggerNext]_tvars
    PROVE  CountInv'
<1> SUFFICES ASSUME trigger'.state # "deleted"
             PROVE  trigger'.count <= Cardinality(KnownEvents(event'))
  BY DEF CountInv
<1>t. /\ \A e \in Event : event[e] \in EventRow
      /\ event = [e \in Event |-> event[e]]
      /\ disp.event \in Event /\ bridge.item \in Event
      /\ trigger \in [state : TriggerState, observed : BOOLEAN, count : 0..Cardinality(Event)]
  BY DEF TriggerInv, TriggerTypeOK, EventRow
<1>c. trigger.state # "deleted" => trigger.count <= Cardinality(KnownEvents(event))
  BY DEF TriggerInv, CountInv
<1>g. ASSUME trigger.state # "deleted", trigger'.count = trigger.count,
             KnownEvents(event) \subseteq KnownEvents(event')
      PROVE  trigger'.count <= Cardinality(KnownEvents(event'))
  BY <1>c, <1>g, <1>t, KnownGrows, EventFacts
<1>h. UNCHANGED <<trigger, event>> => trigger'.count <= Cardinality(KnownEvents(event'))
  BY <1>c
<1>r. ASSUME NEW e \in Event, NEW row, event' = [event EXCEPT ![e] = row], row.state # "none"
      PROVE  KnownEvents(event) \subseteq KnownEvents(event')
  BY <1>r, <1>t DEF KnownEvents
<1>1. CASE Receive
  <2>1. CASE trigger.state # "active" \/ Known(bridge.item)
    BY <1>1, <1>h, <2>1 DEF Receive
  <2>2. CASE trigger.state = "active" /\ ~Known(bridge.item)
    <3> DEFINE item == bridge.item
               row == [NoEvent EXCEPT !.state = "received", !.at = trigger.count + 1]
    <3>1. trigger'.count = trigger.count + 1 /\ event' = [event EXCEPT ![item] = row]
      BY <1>1, <1>t, <2>2 DEF Receive
    <3>2. row.state = "received"
      BY DEF NoEvent
    <3> HIDE DEF row
    <3>3. KnownEvents(event') = KnownEvents(event) \cup {item} /\ item \notin KnownEvents(event)
      BY <1>t, <2>2, <3>1, <3>2 DEF KnownEvents, Known
    <3>4. /\ Cardinality(KnownEvents(event')) = Cardinality(KnownEvents(event)) + 1
          /\ Cardinality(KnownEvents(event)) \in Nat
      BY <1>t, <3>3, KnownGrows
    <3>5. trigger.count <= Cardinality(KnownEvents(event)) /\ trigger.count \in Nat
      BY <1>c, <1>t, <2>2, EventFacts
    <3> QED BY <3>1, <3>4, <3>5
  <2> QED BY <2>1, <2>2
<1>2. CASE Baseline
  <2>1. CASE trigger.state # "active" \/ trigger.observed
    BY <1>2, <1>h, <2>1 DEF Baseline
  <2>2. CASE trigger.state = "active" /\ ~trigger.observed
    <3>1. trigger'.count = trigger.count
      BY <1>2, <1>t, <2>2 DEF Baseline
    <3>2. \A e \in Event : event[e].state # "none" => event'[e] = event[e]
      BY <1>2, <2>2 DEF Baseline, Known
    <3>3. KnownEvents(event) \subseteq KnownEvents(event')
      BY <3>2 DEF KnownEvents
    <3> QED BY <1>g, <2>2, <3>1, <3>3
  <2> QED BY <2>1, <2>2
<1>3. ASSUME NEW e \in Event, GiveUpEvent(e) \/ ClaimEvent(e)
      PROVE  trigger'.count <= Cardinality(KnownEvents(event'))
  <2>1. \A f \in Event : event[f].state # "none" => event'[f].state # "none"
    <3>1. CASE GiveUpEvent(e)
      BY <1>t, <3>1 DEF GiveUpEvent, EventRow
    <3>2. CASE ClaimEvent(e)
      BY <1>t, <3>2 DEF ClaimEvent, EventRow
    <3> QED BY <1>3, <3>1, <3>2
  <2>2. UNCHANGED trigger
    BY <1>3 DEF GiveUpEvent, ClaimEvent
  <2>3. KnownEvents(event) \subseteq KnownEvents(event')
    BY <2>1 DEF KnownEvents
  <2> QED BY <1>g, <2>2, <2>3
<1>4. CASE MarkCreated
  <2>1. \A f \in Event : event[f].state # "none" => event'[f].state # "none"
    BY <1>4, <1>t DEF MarkCreated, InHand, EventRow
  <2>2. UNCHANGED trigger
    BY <1>4 DEF MarkCreated
  <2>3. KnownEvents(event) \subseteq KnownEvents(event')
    BY <2>1 DEF KnownEvents
  <2> QED BY <1>g, <2>2, <2>3
<1>5. CASE Record
  <2>1. Deferred(disp.event).state # "none" /\ Failed(disp.event).state # "none"
    BY <1>t, AttemptRows
  <2>2. \A f \in Event : event[f].state # "none" => event'[f].state # "none"
    BY <1>5, <1>t, <2>1 DEF Record, InHand
  <2>3. UNCHANGED trigger
    BY <1>5 DEF Record
  <2>4. KnownEvents(event) \subseteq KnownEvents(event')
    BY <2>2 DEF KnownEvents
  <2> QED BY <1>g, <2>3, <2>4
<1>6. ASSUME NEW e \in Event, TimerRunsOut(e)
      PROVE  trigger'.count <= Cardinality(KnownEvents(event'))
  <2>1. \A f \in Event : event'[f].state = event[f].state
    BY <1>6, <1>t DEF TimerRunsOut, EventRow
  <2>2. UNCHANGED trigger
    BY <1>6 DEF TimerRunsOut
  <2>3. KnownEvents(event) \subseteq KnownEvents(event')
    BY <2>1 DEF KnownEvents
  <2> QED BY <1>g, <2>2, <2>3
<1>7. ~DeleteTrigger
  BY <1>t DEF DeleteTrigger
<1>8. CASE CreateTrigger \/ \E paused \in BOOLEAN : SetPaused(paused)
  <2>1. /\ event' = event /\ trigger'.count = trigger.count /\ trigger.state # "deleted"
    BY <1>8, <1>t DEF CreateTrigger, SetPaused
  <2> QED BY <1>g, <2>1
<1>9. CASE UNCHANGED <<trigger, event>>
  BY <1>9, <1>h
<1> QED
  BY <1>1, <1>2, <1>3, <1>4, <1>5, <1>6, <1>7, <1>8, <1>9
  DEF TriggerNext, BridgeStep, DispatchStep, tvars, BridgeStarts, BridgeReads, BridgeHasRead,
      BridgeReadFails, ReadTrigger, CheckTask, CreateExecution, LinkExecution, LaunchFails,
      RecordLost, ManualRun, ResourceChanges, RunGoes, TriggerCrash

\* Who has an event in hand, and what was launched, linked and attempted.
LEMMA TriggerHandStep ==
    ASSUME TriggerInv, [TriggerNext]_tvars
    PROVE  OwnerInv' /\ DispatchInv' /\ AttemptInv' /\ DeliveredOnlyNews'
<1> DEFINE I == OwnerInv /\ DispatchInv /\ AttemptInv /\ DeliveredOnlyNews
<1>t. /\ event \in [Event -> EventRow]
      /\ runs \in [Event -> RunPhase]
      /\ disp \in [pc : DispPc, event : Event]
      /\ bridge \in BridgeRow
      /\ trigger \in [state : TriggerState, observed : BOOLEAN, count : 0..Cardinality(Event)]
  BY DEF TriggerInv, TriggerTypeOK, EventRow, BridgeRow
<1>e. \A e \in Event : event[e] \in EventRow
  BY <1>t
<1>i. I
  BY DEF TriggerInv
<1> SUFFICES I'
  OBVIOUS
<1> USE TriggerAssumption, <1>i
    DEF OwnerInv, DispatchInv, AttemptInv, DeliveredOnlyNews, Unclaimed, InHand, DispAt, DispGoto
<1>1. CASE BridgeStarts
  BY <1>1 DEF BridgeStarts, BridgeIdle
<1>2. CASE BridgeReads
  BY <1>2, <1>t DEF BridgeReads, BridgeRow
<1>3. CASE BridgeReadFails
  BY <1>3, <1>t DEF BridgeReadFails, BridgeRow, BridgeIdle
<1>4. CASE BridgeHasRead
  BY <1>4, <1>t DEF BridgeHasRead, BridgeRow, BridgeIdle
<1>5. CASE Receive
  <2>1. bridge'.pc # "receiving"
    <3>1. bridge' = BridgeIdle
            \/ bridge' = [bridge EXCEPT !.pc = "reading", !.next = @ + 1, !.item = AnEvent]
      BY <1>5 DEF Receive
    <3>2. [bridge EXCEPT !.pc = "reading", !.next = @ + 1, !.item = AnEvent].pc = "reading"
      BY <1>t DEF BridgeRow
    <3> QED BY <3>1, <3>2, BridgeIdles
  <2>2. CASE trigger.state # "active" \/ Known(bridge.item)
    BY <1>5, <2>1, <2>2 DEF Receive
  <2>3. CASE trigger.state = "active" /\ ~Known(bridge.item)
    <3> DEFINE item == bridge.item
               row == [NoEvent EXCEPT !.state = "received", !.at = trigger.count + 1]
    <3>1. /\ trigger'.state = "active"
          /\ event' = [event EXCEPT ![item] = row]
          /\ UNCHANGED <<runs, links, disp>>
      BY <1>5, <1>t, <2>3 DEF Receive
    <3>2. item \in Event /\ event[item].state = "none"
      BY <1>t, <2>3 DEF Known, BridgeRow
    <3>3. row.state = "received" /\ row.attempts = 0
      BY DEF NoEvent
    <3> HIDE DEF row, item
    <3>4. event'[item] = row /\ \A f \in Event \ {item} : event'[f] = event[f]
      BY <1>t, <3>1, <3>2
    <3>5. runs[item] = "absent" /\ (disp.pc # "idle" => disp.event # item)
      BY <2>3, <3>2
    <3> QED BY <1>t, <2>1, <2>3, <3>1, <3>2, <3>3, <3>4, <3>5
  <2> QED BY <2>2, <2>3
<1>6. CASE Baseline
  <2>1. bridge'.pc # "receiving"
    BY <1>6 DEF Baseline, BridgeIdle
  <2>2. CASE trigger.state # "active" \/ trigger.observed
    BY <1>6, <2>1, <2>2 DEF Baseline
  <2>3. CASE trigger.state = "active" /\ ~trigger.observed
    <3>1. /\ trigger'.state = "active" /\ UNCHANGED <<runs, links, disp>>
          /\ \A e \in Event : \/ event'[e] = event[e]
                              \/ event[e].state = "none" /\ event'[e].state = "baselined"
      BY <1>6, <1>t, <2>3 DEF Baseline, Known, NoEvent
    <3> QED BY <1>t, <2>1, <2>3, <3>1
  <2> QED BY <2>2, <2>3
<1>7. ASSUME NEW e \in Event, GiveUpEvent(e) PROVE I'
  <2>1. /\ event[e].state = "claimed" /\ trigger.state = "active"
        /\ event'[e].state = "dead" /\ \A f \in Event \ {e} : event'[f] = event[f]
        /\ UNCHANGED <<trigger, runs, links, disp, bridge>>
    BY <1>7, <1>t, <1>e DEF GiveUpEvent, EventRow
  <2> QED BY <1>t, <2>1
<1>8. ASSUME NEW e \in Event, ClaimEvent(e) PROVE I'
  <2>1. /\ event'[e].state = "claimed" /\ \A f \in Event \ {e} : event'[f] = event[f]
        /\ disp' = [pc |-> "reading", event |-> e] /\ trigger.state = "active"
        /\ UNCHANGED <<trigger, runs, links, bridge>>
    BY <1>8, <1>t, <1>e DEF ClaimEvent, EventRow
  <2> QED BY <1>t, <2>1
<1>9. CASE ReadTrigger
  BY <1>9, <1>t DEF ReadTrigger
<1>10. CASE CheckTask
  BY <1>10, <1>t DEF CheckTask
<1>11. CASE LaunchFails
  BY <1>11, <1>t DEF LaunchFails
<1>12. CASE CreateExecution
  <2>1. /\ disp'.event = disp.event /\ disp'.pc \in {"linking", "failing"} /\ disp.pc = "creating"
        /\ \A e \in Event \ {disp.event} : runs'[e] = runs[e]
        /\ UNCHANGED <<trigger, event, links, bridge>>
    BY <1>12, <1>t DEF CreateExecution
  <2> QED BY <1>t, <2>1
<1>13. CASE LinkExecution
  BY <1>13, <1>t DEF LinkExecution, Linked
<1>14. CASE MarkCreated
  <2>1. CASE event[disp.event].state \in {"claimed", "task_created"}
    <3>1. /\ event'[disp.event].state = "task_created" /\ disp.event \in links
          /\ \A f \in Event \ {disp.event} : event'[f] = event[f]
          /\ disp'.pc = "idle" /\ disp.event \in Event
          /\ UNCHANGED <<trigger, runs, links, bridge>>
      BY <1>14, <1>t, <1>e, <2>1 DEF MarkCreated, DispIdle, EventRow
    <3> QED BY <1>t, <2>1, <3>1
  <2>2. CASE event[disp.event].state \notin {"claimed", "task_created"}
    BY <1>14, <1>t, <2>2 DEF MarkCreated
  <2> QED BY <2>1, <2>2
<1>15. CASE Record
  <2>1. CASE event[disp.event].state = "claimed"
    <3> DEFINE e == disp.event
               row == IF disp.pc = "deferring" THEN Deferred(e) ELSE Failed(e)
    <3>1. /\ event' = [event EXCEPT ![e] = row] /\ e \in Event /\ disp'.pc = "idle"
          /\ UNCHANGED <<trigger, runs, links, bridge>>
      BY <1>15, <1>t, <2>1 DEF Record, DispIdle
    <3>2. /\ row.state \in {"retry_wait", "dead"}
          /\ row.state = "retry_wait" => row.attempts < MaxDeliveryAttempts
      BY <1>e, <3>1, AttemptRows
    <3> HIDE DEF row, e
    <3>3. event'[e] = row /\ \A f \in Event \ {e} : event'[f] = event[f]
      BY <1>t, <3>1
    <3>4. event[e].state = "claimed"
      BY <2>1 DEF e
    <3> QED BY <1>t, <3>1, <3>2, <3>3, <3>4
  <2>2. CASE event[disp.event].state # "claimed"
    BY <1>15, <2>2 DEF Record, DispIdle
  <2> QED BY <2>1, <2>2
<1>16. CASE RecordLost
  BY <1>16 DEF RecordLost, DispIdle
<1>17. CASE CreateTrigger
  BY <1>17, <1>t DEF CreateTrigger
<1>18. ASSUME NEW paused \in BOOLEAN, SetPaused(paused) PROVE I'
  BY <1>18, <1>t DEF SetPaused
<1>19. CASE DeleteTrigger
  <2>1. /\ \A e \in Event : event'[e].state = "none" /\ trigger'.state = "deleted"
        /\ UNCHANGED <<runs, links, disp, bridge>>
    BY <1>19, <1>t DEF DeleteTrigger, NoEvent
  <2>2. trigger'.state = "deleted"
    BY <1>19, <1>t DEF DeleteTrigger
  <2> QED BY <1>t, <2>1, <2>2
<1>20. ASSUME NEW e \in Event, NEW to \in RunPhase, RunGoes(e, to) PROVE I'
  <2>1. /\ \A f \in Event : runs'[f] = "absent" <=> runs[f] = "absent"
        /\ UNCHANGED <<trigger, event, links, disp, bridge>>
    BY <1>20, <1>t DEF RunGoes
  <2> QED BY <1>t, <2>1
<1>21. ASSUME NEW e \in Event, TimerRunsOut(e) PROVE I'
  <2>1. /\ \A f \in Event : event'[f].state = event[f].state
                            /\ event'[f].attempts = event[f].attempts
        /\ UNCHANGED <<trigger, runs, links, disp, bridge>>
    BY <1>21, <1>t, <1>e DEF TimerRunsOut, EventRow
  <2> QED BY <1>t, <2>1
<1>22. CASE TriggerCrash
  BY <1>22 DEF TriggerCrash, DispIdle, BridgeIdle
<1>23. CASE UNCHANGED <<trigger, event, runs, links, disp, bridge>>
  BY <1>23
<1> HIDE DEF I
<1> QED
  BY <1>1, <1>2, <1>3, <1>4, <1>5, <1>6, <1>7, <1>8, <1>9, <1>10, <1>11, <1>12, <1>13, <1>14,
     <1>15, <1>16, <1>17, <1>18, <1>19, <1>20, <1>21, <1>22, <1>23
  DEF TriggerNext, BridgeStep, DispatchStep, tvars, ManualRun, ResourceChanges

LEMMA TriggerStep ==
    ASSUME TriggerInv, [TriggerNext]_tvars
    PROVE  TriggerInv'
BY TriggerTypeStep, TriggerCountStep, TriggerHandStep DEF TriggerInv

\* What holds of a trigger in every state.
THEOREM TriggerInvariant == TriggerSpec => []TriggerInv
<1>1. TriggerInv /\ [TriggerNext]_tvars => TriggerInv'
  BY TriggerStep
<1> QED BY <1>1, TriggerInitial, PTL DEF TriggerSpec

\* What was there when the trigger first looked is never delivered, what was delivered is
\* never news again, and an event that says its Task was created has a linked execution.
THEOREM OnlyNewsDelivered == TriggerSpec => []DeliveredOnlyNews
<1>1. TriggerInv => DeliveredOnlyNews
  BY DEF TriggerInv
<1> QED BY <1>1, TriggerInvariant, PTL

\* An event is given up only after all its attempts, never by an execution that runs, and
\* one that is settled stays as it is until the trigger goes.
THEOREM EventsStaySettled == TriggerSpec => SettledStays
<1> DEFINE Stays == \A e \in Event :
                      /\ event[e].state \in Settled /\ trigger'.state # "deleted"
                            => event'[e].state = event[e].state
                      /\ event'[e].state = "dead" /\ event[e].state # "dead"
                            => Spent(e) /\ ~DispAt("deferring")
<1>1. ASSUME TriggerInv, [TriggerNext]_tvars PROVE Stays \/ UNCHANGED tvars
  <2> USE DEF Settled
  <2>e. /\ event = [e \in Event |-> event[e]]
        /\ \A e \in Event : event[e] \in EventRow
        /\ disp.event \in Event /\ bridge.item \in Event /\ trigger.observed \in BOOLEAN
    BY <1>1 DEF TriggerInv, TriggerTypeOK, EventRow
  <2>0. UNCHANGED event => Stays
    OBVIOUS
  <2>1. CASE Receive
    <3>1. CASE Known(bridge.item) \/ trigger.state # "active"
      BY <2>0, <2>1, <3>1 DEF Receive
    <3>2. CASE ~Known(bridge.item) /\ trigger.state = "active"
      <4>1. /\ event'[bridge.item].state = "received" /\ event[bridge.item].state = "none"
            /\ \A e \in Event \ {bridge.item} : event'[e] = event[e]
        BY <2>1, <2>e, <3>2 DEF Receive, Known, NoEvent
      <4> QED BY <2>e, <4>1
    <3> QED BY <3>1, <3>2
  <2>2. CASE Baseline
    <3>1. \A e \in Event : \/ event'[e] = event[e]
                           \/ event[e].state = "none" /\ event'[e].state = "baselined"
      <4>1. CASE trigger.state # "active" \/ trigger.observed
        BY <2>2, <2>e, <4>1 DEF Baseline
      <4>2. CASE ~(trigger.state # "active" \/ trigger.observed)
        BY <2>2, <2>e, <4>2 DEF Baseline, Known, NoEvent
      <4> QED BY <4>1, <4>2
    <3> QED BY <3>1
  <2>3. ASSUME NEW e \in Event, GiveUpEvent(e) PROVE Stays
    BY <2>3, <2>e DEF GiveUpEvent, DispAt, EventRow
  <2>4. ASSUME NEW e \in Event, ClaimEvent(e) PROVE Stays
    BY <2>4, <2>e DEF ClaimEvent, OldestDue, DueEvents, EventRow
  <2>5. CASE MarkCreated
    BY <2>5, <2>e DEF MarkCreated, InHand, EventRow
  <2>6. CASE Record
    <3>1. CASE event[disp.event].state # "claimed"
      BY <2>0, <2>6, <3>1 DEF Record, InHand
    <3>2. CASE event[disp.event].state = "claimed"
      <4>1. /\ event'[disp.event] = IF disp.pc = "deferring" THEN Deferred(disp.event)
                                    ELSE Failed(disp.event)
            /\ \A e \in Event \ {disp.event} : event'[e] = event[e]
        BY <2>6, <2>e, <3>2 DEF Record, InHand, DispAt
      <4>2. event'[disp.event].state = "dead" => Spent(disp.event) /\ disp.pc # "deferring"
        BY <2>e, <4>1, AttemptRows
      <4> QED BY <2>e, <3>2, <4>1, <4>2 DEF DispAt
    <3> QED BY <3>1, <3>2
  <2>7. CASE DeleteTrigger
    BY <2>7, <2>e, <1>1 DEF DeleteTrigger, NoEvent, TriggerInv, TriggerTypeOK
  <2>8. ASSUME NEW e \in Event, TimerRunsOut(e) PROVE Stays
    BY <2>8, <2>e DEF TimerRunsOut, EventRow
  <2> HIDE DEF Stays
  <2> QED
    BY <1>1, <2>0, <2>1, <2>2, <2>3, <2>4, <2>5, <2>6, <2>7, <2>8
    DEF TriggerNext, BridgeStep, DispatchStep, tvars, BridgeStarts, BridgeReads, BridgeHasRead,
        BridgeReadFails, ReadTrigger, CheckTask, CreateExecution, LinkExecution, LaunchFails,
        RecordLost, CreateTrigger, SetPaused, ManualRun, ResourceChanges, RunGoes, TriggerCrash
<1>2. TriggerInv /\ [TriggerNext]_tvars => [Stays]_tvars
  BY <1>1
<1> QED BY <1>2, TriggerInvariant, PTL DEF TriggerSpec, SettledStays

-----------------------------------------------------------------------------
(* TriggerDelivery keeps the promise of BoundedDelivery *)

\* What the dispatcher has in hand is claimed, unless the trigger was deleted under it; a
\* claim has counted, and an event nobody knows has none.
GraspInv ==
    /\ \A e \in Event : /\ event[e].state = "none" => event[e].attempts = 0
                        /\ event[e].state = "claimed" => event[e].attempts > 0
    /\ disp.pc # "idle" /\ trigger.state # "deleted" => event[InHand].state = "claimed"

\* Nobody else takes what the dispatcher has in hand: it claims only when it has nothing,
\* and the bridge leaves alone what is known.
LEMMA GraspStep == TriggerInv /\ GraspInv /\ [TriggerNext]_tvars => GraspInv'
<1> SUFFICES ASSUME TriggerInv, GraspInv, [TriggerNext]_tvars PROVE GraspInv'
  OBVIOUS
<1>t. /\ event \in [Event -> EventRow]
      /\ disp \in [pc : DispPc, event : Event]
      /\ bridge \in BridgeRow
      /\ trigger \in [state : TriggerState, observed : BOOLEAN, count : 0..Cardinality(Event)]
  BY DEF TriggerInv, TriggerTypeOK, EventRow, BridgeRow
<1>e. \A e \in Event : event[e] \in EventRow /\ event[e].attempts \in Nat
  BY <1>t DEF EventRow
<1> USE TriggerAssumption DEF GraspInv, InHand, DispAt, DispGoto
<1>1. CASE UNCHANGED <<trigger, event, disp>>
  BY <1>1
<1>2. CASE Receive
  <2>1. CASE trigger.state # "active" \/ Known(bridge.item)
    BY <1>2, <2>1 DEF Receive
  <2>2. CASE trigger.state = "active" /\ ~Known(bridge.item)
    <3> DEFINE item == bridge.item
               row == [NoEvent EXCEPT !.state = "received", !.at = trigger.count + 1]
    <3>1. /\ trigger'.state = "active"
          /\ event' = [event EXCEPT ![item] = row]
          /\ UNCHANGED disp
      BY <1>2, <1>t, <2>2 DEF Receive
    <3>2. item \in Event /\ event[item].state = "none"
      BY <1>t, <2>2 DEF Known, BridgeRow
    <3>3. row.state = "received"
      BY DEF NoEvent
    <3> HIDE DEF row, item
    <3>4. event'[item] = row /\ \A f \in Event \ {item} : event'[f] = event[f]
      BY <1>t, <3>1, <3>2
    <3> QED BY <1>t, <2>2, <3>1, <3>2, <3>3, <3>4
  <2> QED BY <2>1, <2>2
<1>3. CASE Baseline
  <2>1. CASE trigger.state # "active" \/ trigger.observed
    BY <1>3, <2>1 DEF Baseline
  <2>2. CASE trigger.state = "active" /\ ~trigger.observed
    <3>1. /\ trigger'.state = "active" /\ UNCHANGED disp
          /\ \A e \in Event : \/ event'[e] = event[e]
                              \/ event[e].state = "none" /\ event'[e].state = "baselined"
      BY <1>3, <1>t, <2>2 DEF Baseline, Known, NoEvent
    <3> QED BY <1>t, <2>2, <3>1
  <2> QED BY <2>1, <2>2
<1>4. ASSUME NEW e \in Event, GiveUpEvent(e) PROVE GraspInv'
  <2>1. /\ disp.pc = "idle" /\ disp' = disp
        /\ event'[e].state = "dead" /\ \A f \in Event \ {e} : event'[f] = event[f]
    BY <1>4, <1>t, <1>e DEF GiveUpEvent, EventRow
  <2> QED BY <1>t, <2>1
<1>5. ASSUME NEW e \in Event, ClaimEvent(e) PROVE GraspInv'
  <2>1. /\ event'[e].state = "claimed" /\ event'[e].attempts = event[e].attempts + 1
        /\ \A f \in Event \ {e} : event'[f] = event[f]
        /\ disp' = [pc |-> "reading", event |-> e] /\ trigger' = trigger
    BY <1>5, <1>t, <1>e DEF ClaimEvent, EventRow
  <2>2. event'[e].attempts > 0
    BY <1>e, <2>1
  <2> QED BY <1>t, <2>1, <2>2
<1>6. CASE ReadTrigger \/ CheckTask \/ LaunchFails \/ CreateExecution \/ LinkExecution
  <2>1. disp.pc # "idle" /\ disp'.event = disp.event /\ UNCHANGED <<trigger, event>>
    BY <1>6, <1>t DEF ReadTrigger, CheckTask, LaunchFails, CreateExecution, LinkExecution
  <2> QED BY <2>1
<1>7. CASE MarkCreated
  <2>1. CASE event[disp.event].state \in {"claimed", "task_created"}
    <3>1. /\ event'[disp.event].state = "task_created"
          /\ \A f \in Event \ {disp.event} : event'[f] = event[f]
          /\ disp'.pc = "idle" /\ disp.event \in Event
      BY <1>7, <1>t, <1>e, <2>1 DEF MarkCreated, DispIdle, EventRow
    <3> QED BY <1>t, <3>1
  <2>2. CASE event[disp.event].state \notin {"claimed", "task_created"}
    BY <1>7, <1>t, <2>2 DEF MarkCreated
  <2> QED BY <2>1, <2>2
<1>8. CASE Record
  <2>1. CASE event[disp.event].state = "claimed"
    <3> DEFINE e == disp.event
               row == IF disp.pc = "deferring" THEN Deferred(e) ELSE Failed(e)
    <3>1. event' = [event EXCEPT ![e] = row] /\ e \in Event /\ disp'.pc = "idle"
      BY <1>8, <1>t, <2>1 DEF Record, DispIdle
    <3>2. row.state \in {"retry_wait", "dead"}
      BY <1>e, <3>1, AttemptRows
    <3> HIDE DEF row, e
    <3>3. event'[e] = row /\ \A f \in Event \ {e} : event'[f] = event[f]
      BY <1>t, <3>1
    <3> QED BY <1>t, <3>1, <3>2, <3>3
  <2>2. CASE event[disp.event].state # "claimed"
    BY <1>8, <2>2 DEF Record, DispIdle
  <2> QED BY <2>1, <2>2
<1>9. CASE RecordLost \/ TriggerCrash
  BY <1>9 DEF RecordLost, TriggerCrash, DispIdle
<1>10. CASE CreateTrigger \/ \E paused \in BOOLEAN : SetPaused(paused)
  <2>1. /\ trigger.state # "deleted" /\ UNCHANGED <<event, disp>>
    BY <1>10 DEF CreateTrigger, SetPaused
  <2> QED BY <2>1
<1>11. CASE DeleteTrigger
  <2>1. /\ \A e \in Event : event'[e].state = "none" /\ event'[e].attempts = 0
        /\ trigger'.state = "deleted"
    BY <1>11, <1>t DEF DeleteTrigger, NoEvent
  <2> QED BY <1>t, <2>1
<1>12. ASSUME NEW e \in Event, TimerRunsOut(e) PROVE GraspInv'
  <2>1. /\ \A f \in Event : event'[f].state = event[f].state
                            /\ event'[f].attempts = event[f].attempts
        /\ UNCHANGED <<trigger, disp>>
    BY <1>12, <1>t, <1>e DEF TimerRunsOut, EventRow
  <2> QED BY <1>t, <2>1
<1> QED
  BY <1>1, <1>2, <1>3, <1>4, <1>5, <1>6, <1>7, <1>8, <1>9, <1>10, <1>11, <1>12
  DEF TriggerNext, BridgeStep, DispatchStep, tvars, BridgeStarts, BridgeReads, BridgeReadFails,
      BridgeHasRead, ManualRun, ResourceChanges, RunGoes

LEMMA GraspInitial == TriggerInit => GraspInv
BY DEF TriggerInit, GraspInv, NoEvent, DispIdle

\* How the states of an event are called in the promise.
LEMMA EventStageNames ==
    /\ EventStages["none"] = "unknown"
    /\ EventStages["baselined"] = "ignored"
    /\ EventStages["received"] = "waiting"
    /\ EventStages["claimed"] = "claimed"
    /\ EventStages["retry_wait"] = "waiting"
    /\ EventStages["task_created"] = "delivered"
    /\ EventStages["dead"] = "given_up"
BY DEF EventStages

\* A step that changes the row of one event, and neither links nor deletes.
OnlyEvent(e) ==
    /\ trigger'.state = "deleted" <=> trigger.state = "deleted"
    /\ links' = links
    /\ \A f \in Event \ {e} : event'[f] = event[f]

\* To the promise, such a step moves the one item and touches nothing else.
LEMMA EventMoves ==
    ASSUME NEW e \in Event, OnlyEvent(e), NEW to, EventStages[event'[e].state] = to
    PROVE  /\ [f \in Event |-> EventStages[event[f].state]]'
                = [[f \in Event |-> EventStages[event[f].state]] EXCEPT ![e] = to]
           /\ [f \in Event |-> EventStages[event[f].state]][e] = EventStages[event[e].state]
           /\ [f \in Event |-> event[f].attempts][e] = event[e].attempts
           /\ UNCHANGED <<links, trigger.state = "deleted">>
BY DEF OnlyEvent

\* A step that changes no state and no attempt of an event, links none and does not delete
\* the trigger is no step of the promise.
LEMMA NoEventMoves ==
    ASSUME trigger'.state = "deleted" <=> trigger.state = "deleted", links' = links,
           \A f \in Event : /\ event'[f].state = event[f].state
                            /\ event'[f].attempts = event[f].attempts
    PROVE  UNCHANGED Promise!promise
<1>1. [f \in Event |-> EventStages[event[f].state]]' = [f \in Event |-> EventStages[event[f].state]]
  OBVIOUS
<1>2. [f \in Event |-> event[f].attempts]' = [f \in Event |-> event[f].attempts]
  OBVIOUS
<1>3. (trigger.state = "deleted")' = (trigger.state = "deleted")
  OBVIOUS
<1> QED BY <1>1, <1>2, <1>3 DEF Promise!promise

\* A claim of an event that has attempts left.
LEMMA ClaimMoves ==
    ASSUME NEW e \in Event, OnlyEvent(e), trigger.state # "deleted",
           event[e].state \in {"received", "retry_wait", "claimed"},
           event'[e].state = "claimed", event[e].attempts < MaxDeliveryAttempts,
           event'[e].attempts = event[e].attempts + 1
    PROVE  Promise!Claim(e)
<1>1. /\ EventStages[event[e].state] \in {"unknown", "waiting", "claimed"}
      /\ EventStages[event'[e].state] = "claimed"
  BY EventStageNames
<1>2. [f \in Event |-> event[f].attempts]'
        = [[f \in Event |-> event[f].attempts] EXCEPT
              ![e] = [f \in Event |-> event[f].attempts][e] + 1]
  BY DEF OnlyEvent
<1>3. [f \in Event |-> event[f].attempts][e] < MaxDeliveryAttempts
  OBVIOUS
<1>4. [f \in Event |-> EventStages[event[f].state]][e] \in {"unknown", "waiting", "claimed"}
  BY <1>1
<1>5. /\ [f \in Event |-> EventStages[event[f].state]]'
             = [[f \in Event |-> EventStages[event[f].state]] EXCEPT ![e] = "claimed"]
      /\ UNCHANGED <<links, trigger.state = "deleted">>
  BY <1>1, EventMoves, Zenon
<1> QED BY <1>2, <1>3, <1>4, <1>5, Zenon DEF Promise!Claim, Promise!Move

\* A claim ends: the event is delivered, given up, or waits, with an attempt less if it
\* was deferred.
LEMMA ClaimEnds ==
    ASSUME NEW e \in Event, OnlyEvent(e), event[e].state = "claimed"
    PROVE  /\ (/\ event'[e].state = "task_created" /\ e \in links
               /\ event'[e].attempts = event[e].attempts)
                => Promise!Deliver(e)
           /\ (/\ event'[e].state = "retry_wait" /\ event[e].attempts < MaxDeliveryAttempts
               /\ event'[e].attempts = event[e].attempts)
                => Promise!Fail(e)
           /\ (/\ event'[e].state = "retry_wait" /\ event[e].attempts > 0
               /\ event'[e].attempts = event[e].attempts - 1)
                => Promise!PutOff(e)
           /\ (/\ event'[e].state = "dead" /\ event[e].attempts >= MaxDeliveryAttempts
               /\ event'[e].attempts = event[e].attempts)
                => Promise!GiveUpOn(e)
<1>1. [f \in Event |-> EventStages[event[f].state]][e] \in {"claimed"}
  BY EventStageNames
<1>2. event'[e].attempts = event[e].attempts =>
        [f \in Event |-> event[f].attempts]'
          = [[f \in Event |-> event[f].attempts] EXCEPT ![e] = [f \in Event |-> event[f].attempts][e]]
  BY DEF OnlyEvent
<1>3. [f \in Event |-> event[f].attempts][e] = event[e].attempts
  OBVIOUS
<1>4. ASSUME NEW to, EventStages[event'[e].state] = to
      PROVE  /\ [f \in Event |-> EventStages[event[f].state]]'
                   = [[f \in Event |-> EventStages[event[f].state]] EXCEPT ![e] = to]
             /\ UNCHANGED <<links, trigger.state = "deleted">>
  BY <1>4, EventMoves, Zenon
<1>5. ASSUME event'[e].state = "task_created", e \in links,
             event'[e].attempts = event[e].attempts
      PROVE  Promise!Deliver(e)
  <2>1. EventStages[event'[e].state] = "delivered"
    BY <1>5, EventStageNames
  <2> QED BY <1>1, <1>2, <1>4, <1>5, <2>1, Zenon DEF Promise!Deliver, Promise!Move
<1>6. ASSUME event'[e].state = "retry_wait", event[e].attempts < MaxDeliveryAttempts,
             event'[e].attempts = event[e].attempts
      PROVE  Promise!Fail(e)
  <2>1. EventStages[event'[e].state] = "waiting"
    BY <1>6, EventStageNames
  <2>2. [f \in Event |-> event[f].attempts][e] < MaxDeliveryAttempts
    BY <1>3, <1>6
  <2> QED BY <1>1, <1>2, <1>4, <1>6, <2>1, <2>2, Zenon DEF Promise!Fail, Promise!Move
<1>7. ASSUME event'[e].state = "retry_wait", event[e].attempts > 0,
             event'[e].attempts = event[e].attempts - 1
      PROVE  Promise!PutOff(e)
  <2>1. EventStages[event'[e].state] = "waiting"
    BY <1>7, EventStageNames
  <2>2. [f \in Event |-> event[f].attempts][e] > 0
    BY <1>3, <1>7
  <2>3. [f \in Event |-> event[f].attempts]'
          = [[f \in Event |-> event[f].attempts] EXCEPT
                ![e] = [f \in Event |-> event[f].attempts][e] - 1]
    BY <1>7 DEF OnlyEvent
  <2> QED BY <1>1, <1>4, <2>1, <2>2, <2>3, Zenon DEF Promise!PutOff, Promise!Move
<1>8. ASSUME event'[e].state = "dead", event[e].attempts >= MaxDeliveryAttempts,
             event'[e].attempts = event[e].attempts
      PROVE  Promise!GiveUpOn(e)
  <2>1. EventStages[event'[e].state] = "given_up"
    BY <1>8, EventStageNames
  <2>2. [f \in Event |-> event[f].attempts][e] >= MaxDeliveryAttempts
    BY <1>3, <1>8
  <2> QED BY <1>1, <1>2, <1>4, <1>8, <2>1, <2>2, Zenon DEF Promise!GiveUpOn, Promise!Move
<1> QED BY <1>5, <1>6, <1>7, <1>8

\* Every step of the bridge, the dispatcher and the owner is a step of the promise, or none
\* of its business.
LEMMA TriggerKeepsPromise ==
    TriggerInv /\ GraspInv /\ [TriggerNext]_tvars => [Promise!PromiseNext]_(Promise!promise)
<1> SUFFICES ASSUME TriggerInv, GraspInv, [TriggerNext]_tvars
             PROVE  Promise!PromiseNext \/ UNCHANGED Promise!promise
  OBVIOUS
<1> DEFINE G == Promise!PromiseNext \/ UNCHANGED Promise!promise
<1>t. /\ event \in [Event -> EventRow]
      /\ disp \in [pc : DispPc, event : Event]
      /\ bridge \in BridgeRow
      /\ trigger \in [state : TriggerState, observed : BOOLEAN, count : 0..Cardinality(Event)]
  BY DEF TriggerInv, TriggerTypeOK, EventRow, BridgeRow
<1>e. \A e \in Event : event[e] \in EventRow /\ event[e].attempts \in 0..MaxDeliveryAttempts
  BY <1>t DEF EventRow
<1>m. MaxDeliveryAttempts \in Nat \ {0}
  BY TriggerAssumption
<1>1. CASE UNCHANGED <<trigger, event, links>>
  BY <1>1, NoEventMoves
<1>2. CASE Receive
  <2>1. CASE trigger.state # "active" \/ Known(bridge.item)
    <3>1. UNCHANGED <<trigger, event, links>>
      BY <1>2, <2>1 DEF Receive
    <3> QED BY <3>1, NoEventMoves
  <2>2. CASE trigger.state = "active" /\ ~Known(bridge.item)
    <3> DEFINE row == [NoEvent EXCEPT !.state = "received", !.at = trigger.count + 1]
    <3> PICK e \in Event : e = bridge.item
      BY <1>t DEF BridgeRow
    <3>1. /\ trigger'.state = "active" /\ links' = links
          /\ event' = [event EXCEPT ![e] = row]
      BY <1>2, <1>t, <2>2 DEF Receive
    <3>2. event[e].state = "none"
      BY <2>2 DEF Known
    <3>3. row.state = "received" /\ row.attempts = 0
      BY DEF NoEvent
    <3> HIDE DEF row
    <3>4. event'[e] = row /\ \A f \in Event \ {e} : event'[f] = event[f]
      BY <1>t, <3>1
    <3>5. OnlyEvent(e)
      BY <2>2, <3>1, <3>4 DEF OnlyEvent
    <3>6. EventStages[event'[e].state] = "waiting"
      BY <3>3, <3>4, EventStageNames
    <3>7. [f \in Event |-> EventStages[event[f].state]][e] \in {"unknown"}
      BY <3>2, EventStageNames
    <3>8. [f \in Event |-> event[f].attempts]' = [[f \in Event |-> event[f].attempts] EXCEPT ![e] = 0]
      BY <3>3, <3>4
    <3>9. /\ [f \in Event |-> EventStages[event[f].state]]'
                 = [[f \in Event |-> EventStages[event[f].state]] EXCEPT ![e] = "waiting"]
          /\ UNCHANGED <<links, trigger.state = "deleted">>
      BY <3>5, <3>6, EventMoves, Zenon
    <3>10. trigger.state # "deleted"
      BY <2>2
    <3>11. Promise!Accept(e)
      BY <3>7, <3>8, <3>9, <3>10, Zenon DEF Promise!Accept, Promise!Move
    <3> QED BY <3>11 DEF Promise!PromiseNext
  <2> QED BY <2>1, <2>2
<1>3. CASE Baseline
  <2>1. CASE trigger.state # "active" \/ trigger.observed
    <3>1. UNCHANGED <<trigger, event, links>>
      BY <1>3, <2>1 DEF Baseline
    <3> QED BY <3>1, NoEventMoves
  <2>2. CASE trigger.state = "active" /\ ~trigger.observed
    <3> PICK S \in SUBSET Event : S = {e \in bridge.inventory \cap Event : ~Known(e)}
      OBVIOUS
    <3>1. /\ trigger'.state = "active" /\ UNCHANGED links
          /\ event' = [e \in Event |-> IF e \in bridge.inventory /\ ~Known(e)
                                       THEN [NoEvent EXCEPT !.state = "baselined"]
                                       ELSE event[e]]
      BY <1>3, <1>t, <2>2 DEF Baseline
    <3>2. \A e \in S : event[e].state = "none" /\ event[e].attempts = 0
      BY DEF Known, GraspInv
    <3>3. \A e \in Event : /\ event'[e].state = IF e \in S THEN "baselined" ELSE event[e].state
                           /\ event'[e].attempts = event[e].attempts
      <4> TAKE e \in Event
      <4>1. CASE e \in S
        <5>1. event'[e] = [NoEvent EXCEPT !.state = "baselined"]
          BY <3>1, <4>1
        <5> QED BY <3>2, <4>1, <5>1 DEF NoEvent
      <4>2. CASE e \notin S
        BY <3>1, <4>2
      <4> QED BY <4>1, <4>2
    <3>4. [f \in Event |-> EventStages[event[f].state]]'
            = [f \in Event |-> IF f \in S THEN "ignored"
                               ELSE [g \in Event |-> EventStages[event[g].state]][f]]
      BY <3>3, EventStageNames
    <3>5. [f \in Event |-> event[f].attempts]' = [f \in Event |-> event[f].attempts]
      BY <3>3
    <3>6. \A f \in S : [g \in Event |-> EventStages[event[g].state]][f] = "unknown"
      BY <3>2, EventStageNames
    <3>7. trigger.state # "deleted" /\ UNCHANGED <<links, trigger.state = "deleted">>
      BY <2>2, <3>1
    <3>8. Promise!Ignore(S)
      BY <3>4, <3>5, <3>6, <3>7, Zenon DEF Promise!Ignore
    <3> QED BY <3>8 DEF Promise!PromiseNext
  <2> QED BY <2>1, <2>2
<1>4. ASSUME NEW e \in Event, GiveUpEvent(e) PROVE G
  <2>1. /\ event[e].state = "claimed" /\ event[e].attempts >= MaxDeliveryAttempts
        /\ event'[e].state = "dead" /\ event'[e].attempts = event[e].attempts
        /\ \A f \in Event \ {e} : event'[f] = event[f]
        /\ UNCHANGED <<trigger, links>>
    BY <1>4, <1>t, <1>e DEF GiveUpEvent, Spent, EventRow
  <2>2. OnlyEvent(e)
    BY <2>1 DEF OnlyEvent
  <2>3. Promise!GiveUpOn(e)
    BY <2>1, <2>2, ClaimEnds
  <2> QED BY <2>3 DEF Promise!PromiseNext
<1>5. ASSUME NEW e \in Event, ClaimEvent(e) PROVE G
  <2>1. /\ event[e].state \in {"received", "retry_wait", "claimed"} /\ trigger.state = "active"
        /\ event[e].state = "claimed" => ~Spent(e)
    BY <1>5 DEF ClaimEvent, OldestDue, DueEvents
  <2>2. event[e].attempts < MaxDeliveryAttempts
    BY <1>e, <1>m, <2>1 DEF Spent, TriggerInv, AttemptInv
  <2>3. /\ event'[e].state = "claimed" /\ event'[e].attempts = event[e].attempts + 1
        /\ \A f \in Event \ {e} : event'[f] = event[f]
        /\ UNCHANGED <<trigger, links>>
    BY <1>5, <1>t, <1>e DEF ClaimEvent, EventRow
  <2>4. OnlyEvent(e)
    BY <2>3 DEF OnlyEvent
  <2>5. Promise!Claim(e)
    BY <2>1, <2>2, <2>3, <2>4, ClaimMoves
  <2> QED BY <2>5 DEF Promise!PromiseNext
<1>6. CASE LinkExecution
  <2> PICK e \in Event : e = disp.event
    BY <1>t
  <2>1. /\ disp.pc = "linking" /\ links' = links \cup {e} /\ UNCHANGED <<trigger, event>>
    BY <1>6 DEF LinkExecution, Linked, DispAt, InHand
  <2>2. trigger.state = "deleted" \/ [f \in Event |-> EventStages[event[f].state]][e] = "claimed"
    BY <2>1, EventStageNames DEF GraspInv, InHand
  <2>3. Promise!Start(e)
    BY <2>1, <2>2 DEF Promise!Start
  <2> QED BY <2>3 DEF Promise!PromiseNext
<1>7. CASE MarkCreated
  <2> PICK e \in Event : e = disp.event
    BY <1>t
  <2>1. /\ disp.pc = "marking" /\ e \in links /\ UNCHANGED <<trigger, links>>
    BY <1>7 DEF MarkCreated, DispAt, TriggerInv, DispatchInv, InHand
  <2>2. CASE trigger.state = "deleted"
    <3>1. event' = event
      BY <1>7, <2>2 DEF MarkCreated, TriggerInv, OwnerInv, InHand
    <3> QED BY <2>1, <3>1, NoEventMoves
  <2>3. CASE trigger.state # "deleted"
    <3>1. event[e].state = "claimed"
      BY <2>1, <2>3 DEF GraspInv, InHand
    <3>2. event' = [event EXCEPT ![e].state = "task_created", ![e].timer = "none"]
      BY <1>7, <3>1 DEF MarkCreated, InHand
    <3>3. /\ event'[e].state = "task_created" /\ event'[e].attempts = event[e].attempts
          /\ \A f \in Event \ {e} : event'[f] = event[f]
      BY <1>t, <1>e, <3>2 DEF EventRow
    <3>4. OnlyEvent(e)
      BY <2>1, <3>3 DEF OnlyEvent
    <3>5. Promise!Deliver(e)
      BY <2>1, <3>1, <3>3, <3>4, ClaimEnds
    <3> QED BY <3>5 DEF Promise!PromiseNext
  <2> QED BY <2>2, <2>3
<1>8. CASE Record
  <2> PICK e \in Event : e = disp.event
    BY <1>t
  <2>1. UNCHANGED <<trigger, links>>
    BY <1>8 DEF Record
  <2>2. CASE event[e].state # "claimed"
    <3>1. event' = event
      BY <1>8, <2>2 DEF Record, InHand
    <3> QED BY <2>1, <3>1, NoEventMoves
  <2>3. CASE event[e].state = "claimed"
    <3>1. event[e].attempts > 0 /\ event[e] \in EventRow
      BY <1>e, <2>3 DEF GraspInv
    <3>2. CASE disp.pc = "deferring"
      <4>1. event' = [event EXCEPT ![e] = Deferred(e)]
        BY <1>8, <2>3, <3>2 DEF Record, InHand, DispAt
      <4>2. Deferred(e).state = "retry_wait" /\ Deferred(e).attempts = event[e].attempts - 1
        BY <3>1 DEF Deferred, EventRow
      <4>3. event'[e] = Deferred(e) /\ \A f \in Event \ {e} : event'[f] = event[f]
        BY <1>t, <4>1
      <4>4. OnlyEvent(e)
        BY <2>1, <4>3 DEF OnlyEvent
      <4>5. Promise!PutOff(e)
        BY <2>3, <3>1, <4>2, <4>3, <4>4, ClaimEnds
      <4> QED BY <4>5 DEF Promise!PromiseNext
    <3>3. CASE disp.pc # "deferring"
      <4>1. event' = [event EXCEPT ![e] = Failed(e)]
        BY <1>8, <2>3, <3>3 DEF Record, InHand, DispAt
      <4>2. /\ Failed(e).state = IF Spent(e) THEN "dead" ELSE "retry_wait"
            /\ Failed(e).attempts = event[e].attempts
        BY <3>1 DEF Failed, EventRow
      <4>3. event'[e] = Failed(e) /\ \A f \in Event \ {e} : event'[f] = event[f]
        BY <1>t, <4>1
      <4>4. OnlyEvent(e)
        BY <2>1, <4>3 DEF OnlyEvent
      <4>5. Promise!GiveUpOn(e) \/ Promise!Fail(e)
        BY <1>e, <1>m, <2>3, <4>2, <4>3, <4>4, ClaimEnds DEF Spent
      <4> QED BY <4>5 DEF Promise!PromiseNext
    <3> QED BY <3>2, <3>3
  <2> QED BY <2>2, <2>3
<1>9. CASE CreateTrigger \/ \E paused \in BOOLEAN : SetPaused(paused)
  <2>1. /\ trigger.state # "deleted" /\ trigger'.state # "deleted"
        /\ UNCHANGED <<event, links>>
    BY <1>9, <1>t DEF CreateTrigger, SetPaused
  <2> QED BY <2>1, NoEventMoves
<1>10. CASE DeleteTrigger
  <2>1. /\ trigger.state # "deleted" /\ trigger'.state = "deleted" /\ links' = links
        /\ \A e \in Event : event'[e].state = "none" /\ event'[e].attempts = 0
    BY <1>10, <1>t DEF DeleteTrigger, NoEvent
  <2>2. [f \in Event |-> EventStages[event[f].state]]' = [f \in Event |-> "unknown"]
    BY <2>1, EventStageNames
  <2>3. [f \in Event |-> event[f].attempts]' = [f \in Event |-> 0]
    BY <2>1
  <2>4. Promise!Withdraw
    BY <2>1, <2>2, <2>3 DEF Promise!Withdraw
  <2> QED BY <2>4 DEF Promise!PromiseNext
<1>11. ASSUME NEW e \in Event, TimerRunsOut(e) PROVE G
  <2>1. /\ \A f \in Event : event'[f].state = event[f].state
                            /\ event'[f].attempts = event[f].attempts
        /\ UNCHANGED <<trigger, links>>
    BY <1>11, <1>t, <1>e DEF TimerRunsOut, EventRow
  <2> QED BY <2>1, NoEventMoves
<1> HIDE DEF G
<1> QED
  BY <1>1, <1>2, <1>3, <1>4, <1>5, <1>6, <1>7, <1>8, <1>9, <1>10, <1>11
  DEF G, TriggerNext, BridgeStep, DispatchStep, tvars, BridgeStarts, BridgeReads,
      BridgeReadFails, BridgeHasRead, ReadTrigger, CheckTask, LaunchFails, CreateExecution,
      RecordLost, ManualRun, ResourceChanges, RunGoes, TriggerCrash

LEMMA TriggerPromised == TriggerInit => Promise!PromiseInit
BY EventStageNames DEF TriggerInit, NoEvent, Promise!PromiseInit

\* The tables of the triggers, the bridge and the dispatcher keep the promise of
\* BoundedDelivery: through deferrals, failing launches, lost records, lapsed leases,
\* deletion and crashes, every step is one of its moves or leaves it alone.
THEOREM EventsArePromised == TriggerSpec => EventsAsPromised
<1>1. TriggerSpec => [](TriggerInv /\ GraspInv)
  <2>1. TriggerInv /\ [TriggerNext]_tvars => TriggerInv'
    BY TriggerStep
  <2> QED BY <2>1, TriggerInitial, GraspInitial, GraspStep, PTL DEF TriggerSpec
<1> QED
  BY <1>1, TriggerPromised, TriggerKeepsPromise, PTL
     DEF TriggerSpec, EventsAsPromised, Promise!PromiseSpec

\* A row that says claimed or retry_wait has a lease or a backoff.
Timed(row) == row.state \in {"claimed", "retry_wait"} => row.timer # "none"

TimedInv == \A e \in Event : Timed(event[e])

\* Whoever writes such a row starts a timer in the same statement.
LEMMA TimedStep == TriggerInv /\ TimedInv /\ [TriggerNext]_tvars => TimedInv'
<1> SUFFICES ASSUME TriggerInv, TimedInv, [TriggerNext]_tvars PROVE TimedInv'
  OBVIOUS
<1>t. /\ event \in [Event -> EventRow]
      /\ disp \in [pc : DispPc, event : Event]
      /\ bridge \in BridgeRow
  BY DEF TriggerInv, TriggerTypeOK, EventRow, BridgeRow
<1> SUFFICES \A e \in Event : event'[e] = event[e] \/ Timed(event'[e])
  BY DEF TimedInv
<1>1. CASE UNCHANGED event
  BY <1>1
<1>2. CASE Receive
  <2> DEFINE item == bridge.item
             row == [NoEvent EXCEPT !.state = "received", !.at = trigger.count + 1]
  <2>1. UNCHANGED event \/ event' = [event EXCEPT ![item] = row]
    BY <1>2 DEF Receive
  <2>2. item \in Event /\ Timed(row)
    BY <1>t DEF NoEvent, BridgeRow, Timed
  <2> HIDE DEF item, row
  <2> QED BY <1>t, <2>1, <2>2
<1>3. CASE Baseline
  <2>1. \A e \in Event : event'[e] = event[e] \/ event'[e].state = "baselined"
    BY <1>3, <1>t DEF Baseline, NoEvent
  <2> QED BY <2>1 DEF Timed
<1>4. ASSUME NEW e \in Event, GiveUpEvent(e) \/ ClaimEvent(e) \/ TimerRunsOut(e)
      PROVE  \A f \in Event : event'[f] = event[f] \/ Timed(event'[f])
  <2>1. event[e] \in EventRow
    BY <1>t
  <2>2. /\ \/ event'[e].state = "dead"
           \/ event'[e].timer \in {"running", "elapsed"}
        /\ \A f \in Event \ {e} : event'[f] = event[f]
    BY <1>4, <1>t, <2>1 DEF GiveUpEvent, ClaimEvent, TimerRunsOut, EventRow
  <2> QED BY <2>2 DEF Timed
<1>5. CASE MarkCreated
  <2>1. CASE event[InHand].state \in {"claimed", "task_created"}
    <3>1. InHand \in Event /\ event[InHand] \in EventRow
      BY <1>t DEF InHand
    <3>2. /\ event'[InHand].state = "task_created"
          /\ \A f \in Event \ {InHand} : event'[f] = event[f]
      BY <1>5, <1>t, <2>1, <3>1 DEF MarkCreated, EventRow
    <3> QED BY <3>2 DEF Timed
  <2>2. CASE event[InHand].state \notin {"claimed", "task_created"}
    BY <1>5, <2>2 DEF MarkCreated
  <2> QED BY <2>1, <2>2
<1>6. CASE Record
  <2>1. CASE event[InHand].state = "claimed"
    <3>1. InHand \in Event /\ event[InHand] \in EventRow
      BY <1>t DEF InHand
    <3>2. /\ event'[InHand] = Deferred(InHand) \/ event'[InHand] = Failed(InHand)
          /\ \A f \in Event \ {InHand} : event'[f] = event[f]
      BY <1>6, <1>t, <2>1, <3>1 DEF Record
    <3>3. Timed(Deferred(InHand)) /\ Timed(Failed(InHand))
      BY <3>1 DEF Deferred, Failed, Timed, EventRow
    <3> QED BY <3>2, <3>3
  <2>2. CASE event[InHand].state # "claimed"
    BY <1>6, <2>2 DEF Record
  <2> QED BY <2>1, <2>2
<1>7. CASE DeleteTrigger
  <2>1. \A e \in Event : event'[e].state = "none"
    BY <1>7 DEF DeleteTrigger, NoEvent
  <2> QED BY <2>1 DEF Timed
<1>8. CASE UNCHANGED tvars
  BY <1>1, <1>8 DEF tvars
<1>9. CASE \/ BridgeStarts \/ BridgeReads \/ BridgeHasRead \/ BridgeReadFails
           \/ ReadTrigger \/ CheckTask \/ CreateExecution \/ LinkExecution
           \/ LaunchFails \/ RecordLost \/ CreateTrigger
           \/ \E paused \in BOOLEAN : SetPaused(paused)
           \/ ManualRun
           \/ \E u \in Uri, c \in Content : ResourceChanges(u, c)
           \/ \E e \in Event, to \in RunPhase : RunGoes(e, to)
           \/ TriggerCrash
  BY <1>1, <1>9
  DEF BridgeStarts, BridgeReads, BridgeHasRead, BridgeReadFails, ReadTrigger, CheckTask,
      CreateExecution, LinkExecution, LaunchFails, RecordLost, CreateTrigger, SetPaused,
      ManualRun, ResourceChanges, RunGoes, TriggerCrash
<1> QED
  BY <1>2, <1>3, <1>4, <1>5, <1>6, <1>7, <1>8, <1>9
  DEF TriggerNext, BridgeStep, DispatchStep

\* The dispatcher and the repository: no crash, no lost record and no late answer leaves an
\* event that is not settled where nothing would ever bring it up again.
THEOREM EventsAreAttended == TriggerSpec => []EventIsAttended
<1>1. TriggerInit => TimedInv
  BY DEF TriggerInit, TimedInv, Timed, NoEvent
<1>2. TriggerInv /\ TimedInv => EventIsAttended
  <2> SUFFICES ASSUME TriggerInv, TimedInv, NEW e \in Event,
                      event[e].state \notin Settled \cup {"none"}
               PROVE  e \in DueEvents \/ event[e].timer = "running"
    BY DEF EventIsAttended
  <2>1. event[e] \in EventRow
    BY DEF TriggerInv, TriggerTypeOK, EventRow
  <2>2. /\ event[e].state \in {"received", "claimed", "retry_wait"}
        /\ event[e].timer \in {"none", "running", "elapsed"}
    BY <2>1 DEF EventRow, EventState, EventTimer, Settled
  <2> QED BY <2>2 DEF TimedInv, Timed, DueEvents
<1>3. TriggerSpec => []TimedInv
  BY <1>1, TriggerInvariant, TimedStep, PTL DEF TriggerSpec
<1> QED BY <1>2, <1>3, TriggerInvariant, PTL

-----------------------------------------------------------------------------
(* EventStream, for any capacities, page limit and length of the journal *)

\* All of a sequence are at most n; it counts on from n; it does so and ends in an error.
UpTo(s, n) == \A i \in 1..Len(s) : s[i] <= n
CountsOn(s, n) == \A i \in 1..Len(s) : s[i] = n + i
BreaksOff(s, n) == s # <<>> /\ s[Len(s)] = Error /\ \A i \in 1..Len(s) - 1 : s[i] = n + i

\* No queue and no reader is ahead of the journal.
BehindInv ==
    /\ version + Cardinality(unpublished) <= Len(journal)
    /\ UpTo(hub.queue, Len(journal))
    /\ stream.last <= Len(journal)
    /\ stream.pc = "sending" => stream.last < stream.upto /\ stream.upto <= Len(journal)
    /\ UpTo(client.buffer, Len(journal)) /\ client.seen <= Len(journal)

\* The feed's reader is not ahead of the rows of the feed.
FeedInv ==
    /\ feed.cursor <= FeedLength
    /\ feed.pc = "yielding" => feed.cursor < feed.upto /\ feed.upto <= FeedLength

\* What is buffered goes on where the client is, and the stream where the buffer ends; an error
\* is the last of a buffer and of its stream.
OrderInv ==
    /\ \/ CountsOn(client.buffer, client.seen)
       \/ stream.pc = "off" /\ BreaksOff(client.buffer, client.seen)
    /\ stream.pc # "off" => stream.last = client.seen + Len(client.buffer)
    /\ stream.then # "sending"

StreamInv == StreamTypeOK /\ BehindInv /\ FeedInv /\ OrderInv

HubRow == [open : BOOLEAN, queue : Seq(0..MaxEvents)]
StreamRow == [pc : StreamPc, last : 0..MaxEvents, upto : 0..MaxEvents, then : StreamPc]
ClientRow == [state : ClientState, buffer : Seq(0..MaxEvents), seen : 0..MaxEvents]
FeedRow == [pc : FeedPc, cursor : 0..MaxEvents, upto : 0..MaxEvents, version : 0..MaxEvents]

\* What Append, Head and Tail do to a sequence.
LEMMA Appended ==
    ASSUME NEW S, NEW s \in Seq(S), NEW x \in S
    PROVE  /\ Append(s, x) \in Seq(S) /\ Len(Append(s, x)) = Len(s) + 1
           /\ \A i \in 1..Len(s) : Append(s, x)[i] = s[i]
           /\ Append(s, x)[Len(s) + 1] = x
OBVIOUS

LEMMA OneLong ==
    ASSUME NEW S, NEW x \in S
    PROVE  <<x>> \in Seq(S) /\ Len(<<x>>) = 1 /\ <<x>>[1] = x
OBVIOUS

LEMMA NoneLong == ASSUME NEW S PROVE <<>> \in Seq(S) /\ Len(<<>>) = 0
OBVIOUS

LEMMA Rest ==
    ASSUME NEW S, NEW s \in Seq(S), s # <<>>
    PROVE  /\ Len(s) \in Nat \ {0} /\ Head(s) = s[1] /\ Head(s) \in S
           /\ Tail(s) \in Seq(S) /\ Len(Tail(s)) = Len(s) - 1
           /\ \A i \in 1..Len(s) - 1 : Tail(s)[i] = s[i + 1]
BY HeadTailProperties, EmptySeq

LEMMA UpToKept ==
    ASSUME NEW s \in Seq(Nat), NEW n \in Nat, UpTo(s, n)
    PROVE  /\ \A m \in Nat : n <= m => UpTo(s, m)
           /\ \A x \in Nat : x <= n => UpTo(Append(s, x), n)
           /\ s # <<>> => UpTo(Tail(s), n) /\ Head(s) <= n
<1>1. Len(s) \in Nat /\ \A i \in 1..Len(s) : s[i] \in Nat
  BY ElementOfSeq
<1>2. ASSUME NEW m \in Nat, n <= m PROVE UpTo(s, m)
  BY <1>1, <1>2 DEF UpTo
<1>3. ASSUME NEW x \in Nat, x <= n PROVE UpTo(Append(s, x), n)
  <2> DEFINE t == Append(s, x)
  <2>1. Len(t) = Len(s) + 1 /\ t[Len(s) + 1] = x /\ \A i \in 1..Len(s) : t[i] = s[i]
    BY Appended
  <2> HIDE DEF t
  <2>2. \A i \in 1..Len(t) : t[i] <= n
    BY <1>1, <1>3, <2>1 DEF UpTo
  <2> QED BY <2>2 DEF UpTo, t
<1>4. ASSUME s # <<>> PROVE UpTo(Tail(s), n) /\ Head(s) <= n
  <2> DEFINE t == Tail(s)
  <2>1. /\ Len(s) \in Nat \ {0} /\ Len(t) = Len(s) - 1 /\ Head(s) = s[1]
        /\ \A i \in 1..Len(s) - 1 : t[i] = s[i + 1]
    BY <1>4, Rest
  <2> HIDE DEF t
  <2>2. ASSUME NEW i \in 1..Len(t) PROVE t[i] <= n
    <3>1. i \in 1..Len(s) - 1 /\ i + 1 \in 1..Len(s)
      BY <2>1
    <3> QED BY <2>1, <3>1 DEF UpTo
  <2>3. s[1] <= n
    BY <2>1 DEF UpTo
  <2> QED BY <2>1, <2>2, <2>3 DEF UpTo, t
<1> QED BY <1>2, <1>3, <1>4

LEMMA UpToShort == \A n \in Nat : UpTo(<<>>, n) /\ UpTo(<<Error>>, n)
<1>1. Len(<<>>) = 0 /\ Len(<<Error>>) = 1 /\ <<Error>>[1] = 0
  BY OneLong DEF Error
<1> QED BY <1>1 DEF UpTo

\* A buffer that counts on goes on doing so when its reader takes the first and its writer adds
\* the next, and may break off.
LEMMA CountsOnKept ==
    ASSUME NEW s \in Seq(Nat), NEW n \in Nat, CountsOn(s, n)
    PROVE  /\ CountsOn(Append(s, n + Len(s) + 1), n)
           /\ BreaksOff(Append(s, Error), n)
           /\ s # <<>> => Head(s) = n + 1 /\ CountsOn(Tail(s), n + 1)
<1>1. Len(s) \in Nat /\ Error \in Nat
  BY DEF Error
<1>2. CountsOn(Append(s, n + Len(s) + 1), n)
  <2> DEFINE t == Append(s, n + Len(s) + 1)
  <2>1. /\ Len(t) = Len(s) + 1 /\ t[Len(s) + 1] = n + Len(s) + 1
        /\ \A i \in 1..Len(s) : t[i] = s[i]
    BY <1>1, Appended
  <2> HIDE DEF t
  <2>2. ASSUME NEW i \in 1..Len(t) PROVE t[i] = n + i
    <3>1. CASE i = Len(s) + 1
      BY <1>1, <2>1, <3>1
    <3>2. CASE i # Len(s) + 1
      <4>1. i \in 1..Len(s)
        BY <1>1, <2>1, <3>2
      <4> QED BY <2>1, <4>1 DEF CountsOn
    <3> QED BY <3>1, <3>2
  <2> QED BY <2>2 DEF CountsOn, t
<1>3. BreaksOff(Append(s, Error), n)
  <2> DEFINE t == Append(s, Error)
  <2>1. /\ Len(t) = Len(s) + 1 /\ t[Len(s) + 1] = Error /\ t \in Seq(Nat)
        /\ \A i \in 1..Len(s) : t[i] = s[i]
    BY <1>1, Appended
  <2> HIDE DEF t
  <2>2. t # <<>> /\ t[Len(t)] = Error /\ \A i \in 1..Len(t) - 1 : t[i] = n + i
    BY <1>1, <2>1 DEF CountsOn
  <2> QED BY <2>2 DEF BreaksOff, t
<1>4. ASSUME s # <<>> PROVE Head(s) = n + 1 /\ CountsOn(Tail(s), n + 1)
  <2> DEFINE t == Tail(s)
  <2>1. /\ Len(s) \in Nat \ {0} /\ Len(t) = Len(s) - 1 /\ Head(s) = s[1]
        /\ \A i \in 1..Len(s) - 1 : t[i] = s[i + 1]
    BY <1>4, Rest
  <2> HIDE DEF t
  <2>2. \A i \in 1..Len(t) : t[i] = n + 1 + i
    BY <1>1, <2>1 DEF CountsOn
  <2>3. s[1] = n + 1
    BY <2>1 DEF CountsOn
  <2> QED BY <2>1, <2>2, <2>3 DEF CountsOn, t
<1> QED BY <1>2, <1>3, <1>4

LEMMA BreaksOffKept ==
    ASSUME NEW s \in Seq(Nat), NEW n \in Nat, BreaksOff(s, n), Head(s) # Error
    PROVE  Head(s) = n + 1 /\ BreaksOff(Tail(s), n + 1)
<1> DEFINE t == Tail(s)
<1>1. /\ Len(s) \in Nat \ {0} /\ Len(t) = Len(s) - 1 /\ Head(s) = s[1] /\ t \in Seq(Nat)
      /\ \A i \in 1..Len(s) - 1 : t[i] = s[i + 1]
  BY Rest DEF BreaksOff
<1> HIDE DEF t
<1>2. Len(s) # 1
  BY <1>1 DEF BreaksOff
<1>3. s[1] = n + 1
  BY <1>1, <1>2 DEF BreaksOff
<1>4. t # <<>> /\ t[Len(t)] = Error
  BY <1>1, <1>2 DEF BreaksOff
<1>5. ASSUME NEW i \in 1..Len(t) - 1 PROVE t[i] = n + 1 + i
  <2>0. Len(t) \in Nat /\ Len(t) - 1 = Len(s) - 2
    BY <1>1
  <2>1. i \in 1..Len(s) - 1 /\ i + 1 \in 1..Len(s) - 1
    BY <1>1, <2>0
  <2>2. t[i] = s[i + 1]
    BY <1>1, <2>1
  <2>3. s[i + 1] = n + (i + 1)
    BY <2>1 DEF BreaksOff
  <2> QED BY <1>1, <2>2, <2>3
<1> QED BY <1>1, <1>3, <1>4, <1>5 DEF BreaksOff, t

LEMMA CountsShort == \A n \in Nat : CountsOn(<<>>, n) /\ BreaksOff(<<Error>>, n)
<1>1. Len(<<>>) = 0 /\ Len(<<Error>>) = 1 /\ <<Error>>[1] = Error /\ <<Error>> # <<>>
  BY OneLong
<1> QED BY <1>1 DEF CountsOn, BreaksOff

\* The rows of the feed are some of the journal, and a longer journal has no fewer.
LEMMA FeedBounds ==
    ASSUME NEW j \in Seq(EventKind)
    PROVE  /\ IsFiniteSet({e \in DOMAIN j : j[e] # "private"})
           /\ Cardinality({e \in DOMAIN j : j[e] # "private"}) \in 0..Len(j)
<1>1. DOMAIN j = 1..Len(j) /\ Len(j) \in Nat
  OBVIOUS
<1>2. IsFiniteSet(1..Len(j)) /\ Cardinality(1..Len(j)) = Len(j)
  BY <1>1, FS_Interval
<1>3. {e \in DOMAIN j : j[e] # "private"} \subseteq 1..Len(j)
  BY <1>1
<1> QED BY <1>1, <1>2, <1>3, FS_Subset, FS_CardinalityType

LEMMA FeedLengthType == journal \in Seq(EventKind) => FeedLength \in 0..Len(journal)
<1>1. ASSUME journal \in Seq(EventKind)
      PROVE  Cardinality({e \in DOMAIN journal : journal[e] # "private"}) \in 0..Len(journal)
  BY <1>1, FeedBounds
<1> QED BY <1>1 DEF FeedLength

LEMMA FeedGrows ==
    ASSUME NEW kind \in EventKind, journal \in Seq(EventKind), journal' = Append(journal, kind)
    PROVE  FeedLength <= FeedLength'
<1> DEFINE old == {e \in DOMAIN journal : journal[e] # "private"}
           new == {e \in DOMAIN journal' : journal'[e] # "private"}
<1>1. journal' \in Seq(EventKind) /\ Len(journal') = Len(journal) + 1
  BY Appended
<1>2. old \subseteq new
  <2>1. DOMAIN journal = 1..Len(journal) /\ DOMAIN journal' = 1..Len(journal')
    BY <1>1
  <2>2. \A e \in 1..Len(journal) : journal'[e] = journal[e]
    BY Appended
  <2> QED BY <1>1, <2>1, <2>2
<1>3. IsFiniteSet(new)
  BY <1>1, FeedBounds
<1>4. Cardinality(old) <= Cardinality(new)
  BY <1>2, <1>3, FS_Subset
<1> QED BY <1>4 DEF FeedLength

LEMMA StreamTypes ==
    StreamTypeOK <=>
      /\ journal \in Seq(EventKind) /\ Len(journal) <= MaxEvents
      /\ unpublished \subseteq DOMAIN journal
      /\ hub \in HubRow /\ Len(hub.queue) <= Capacity
      /\ version \in 0..MaxEvents
      /\ stream \in StreamRow
      /\ client \in ClientRow /\ Len(client.buffer) <= ClientCapacity
      /\ feed \in FeedRow
      /\ opens \in 0..MaxOpens
      /\ faults \in 0..MaxStreamFaults
BY DEF StreamTypeOK, HubRow, StreamRow, ClientRow, FeedRow

\* The rows everything begins with, and begins again.
LEMMA StreamStarts ==
    /\ Closed \in HubRow /\ Closed.queue = <<>> /\ Closed.open = FALSE
    /\ StreamOff \in StreamRow /\ StreamOff.pc = "off" /\ StreamOff.last = 0
    /\ \A c \in 0..MaxEvents : FeedOff(c) \in FeedRow /\ FeedOff(c).pc = "off"
                               /\ FeedOff(c).cursor = c
<1>1. 0 \in 0..MaxEvents /\ <<>> \in Seq(0..MaxEvents)
  BY StreamAssumption
<1> QED BY <1>1 DEF Closed, HubRow, StreamOff, StreamRow, StreamPc, FeedOff, FeedRow, FeedPc

LEMMA StreamInitial == StreamInit => StreamInv
<1> SUFFICES ASSUME StreamInit PROVE StreamInv
  OBVIOUS
<1>1. /\ journal = <<>> /\ Len(journal) = 0 /\ journal \in Seq(EventKind) /\ DOMAIN journal = {}
      /\ unpublished = {} /\ version = 0 /\ hub = Closed /\ stream = StreamOff
      /\ client = [state |-> "idle", buffer |-> <<>>, seen |-> 0] /\ Len(client.buffer) = 0
      /\ feed = FeedOff(0) /\ opens = 0 /\ faults = 0
  BY DEF StreamInit
<1>2. 0 \in 0..MaxEvents /\ 0 \in 0..MaxOpens /\ 0 \in 0..MaxStreamFaults /\ 0 \in 0..Capacity
      /\ 0 <= ClientCapacity
  BY StreamAssumption
<1>3. client \in ClientRow
  BY <1>1, <1>2 DEF ClientRow, ClientState
<1>4. Len(hub.queue) = 0
  BY <1>1, StreamStarts
<1>5. StreamTypeOK
  BY <1>1, <1>2, <1>3, <1>4, StreamStarts, StreamTypes
<1>6. BehindInv
  <2>1. UpTo(hub.queue, Len(journal)) /\ UpTo(client.buffer, Len(journal))
    BY <1>1, StreamStarts, UpToShort
  <2> QED BY <1>1, <2>1, StreamStarts, FS_EmptySet DEF BehindInv
<1>7. FeedInv
  <2>1. FeedLength \in Nat
    BY <1>1, FeedLengthType
  <2> QED BY <1>1, <1>2, <2>1, StreamStarts DEF FeedInv
<1>8. OrderInv
  <2>1. CountsOn(client.buffer, client.seen)
    BY <1>1, CountsShort
  <2>2. stream.pc = "off" /\ stream.then = "off"
    BY <1>1 DEF StreamOff
  <2> QED BY <2>1, <2>2 DEF OrderInv
<1> QED BY <1>5, <1>6, <1>7, <1>8 DEF StreamInv

\* The types are kept: no version, cursor or position goes beyond the journal.
LEMMA StreamTypeStep ==
    ASSUME StreamInv, [StreamNext]_svars
    PROVE  StreamTypeOK'
<1>t. /\ journal \in Seq(EventKind) /\ Len(journal) <= MaxEvents
      /\ unpublished \subseteq DOMAIN journal
      /\ hub \in HubRow /\ Len(hub.queue) <= Capacity
      /\ version \in 0..MaxEvents
      /\ stream \in StreamRow
      /\ client \in ClientRow /\ Len(client.buffer) <= ClientCapacity
      /\ feed \in FeedRow
      /\ opens \in 0..MaxOpens
      /\ faults \in 0..MaxStreamFaults
  BY StreamTypes DEF StreamInv
<1>l. /\ Len(journal) \in Nat /\ DOMAIN journal = 1..Len(journal) /\ MaxEvents \in Nat
      /\ hub.queue \in Seq(0..MaxEvents) /\ client.buffer \in Seq(0..MaxEvents)
      /\ Len(hub.queue) \in Nat /\ Len(client.buffer) \in Nat
      /\ unpublished \subseteq 1..Len(journal)
      /\ Capacity \in Nat \ {0} /\ ClientCapacity \in Nat \ {0} /\ PageLimit \in Nat \ {0}
  BY <1>t, StreamAssumption, LenProperties DEF HubRow, ClientRow
<1> DEFINE T ==
      /\ journal' \in Seq(EventKind) /\ Len(journal') <= MaxEvents
      /\ unpublished' \subseteq DOMAIN journal'
      /\ hub' \in HubRow /\ Len(hub'.queue) <= Capacity
      /\ version' \in 0..MaxEvents
      /\ stream' \in StreamRow
      /\ client' \in ClientRow /\ Len(client'.buffer) <= ClientCapacity
      /\ feed' \in FeedRow
      /\ opens' \in 0..MaxOpens
      /\ faults' \in 0..MaxStreamFaults
<1>q. T => StreamTypeOK'
  BY DEF StreamTypeOK, HubRow, StreamRow, ClientRow, FeedRow
<1>e. 0 \in 0..MaxEvents /\ Len(<<>>) = 0 /\ <<>> \in Seq(0..MaxEvents)
      /\ <<Error>> \in Seq(0..MaxEvents) /\ Len(<<Error>>) = 1
  BY <1>l, OneLong, NoneLong DEF Error
<1>f. faults' = faults + 1 /\ faults < MaxStreamFaults => faults' \in 0..MaxStreamFaults
  BY <1>t, StreamAssumption
<1>d. ASSUME Disconnected
      PROVE  /\ hub' \in HubRow /\ Len(hub'.queue) <= Capacity
             /\ stream' \in StreamRow
             /\ client' \in ClientRow /\ Len(client'.buffer) <= ClientCapacity
  <2>1. [client EXCEPT !.buffer = <<Error>>] \in ClientRow
        /\ [client EXCEPT !.buffer = <<Error>>].buffer = <<Error>>
    BY <1>t, <1>e DEF ClientRow
  <2> QED BY <1>d, <1>t, <1>l, <1>e, <2>1, StreamStarts DEF Disconnected
<1>c. ASSUME NEW new \in Seq(0..MaxEvents), client' = [client EXCEPT !.buffer = new]
      PROVE  client' \in ClientRow /\ client'.buffer = new
  BY <1>t, <1>c DEF ClientRow
<1>p. \A pc \in StreamPc : [stream EXCEPT !.pc = pc] \in StreamRow
  BY <1>t DEF StreamRow
<1>g. \A pc \in FeedPc : [feed EXCEPT !.pc = pc] \in FeedRow
  BY <1>t DEF FeedRow
<1>1. ASSUME NEW kind \in EventKind, Commit(kind) PROVE StreamTypeOK'
  <2>1. journal' \in Seq(EventKind) /\ Len(journal') = Len(journal) + 1
    BY <1>1, <1>t, Appended DEF Commit
  <2>2. DOMAIN journal' = 1..Len(journal')
    BY <2>1
  <2>3. unpublished' \subseteq DOMAIN journal'
    <3>1. unpublished' = unpublished \cup {Len(journal) + 1}
      BY <1>1 DEF Commit
    <3>2. 1..Len(journal) \subseteq 1..Len(journal') /\ Len(journal) + 1 \in 1..Len(journal')
      BY <1>l, <2>1
    <3> QED BY <1>l, <2>2, <3>1, <3>2
  <2> QED BY <1>1, <1>t, <1>l, <1>q, <2>1, <2>3 DEF Commit
<1>2. ASSUME NEW e \in 1..MaxEvents, Publish(e) PROVE StreamTypeOK'
  <2>1. Fanned(e) \in HubRow /\ Len(Fanned(e).queue) <= Capacity
    <3>1. CASE ~hub.open
      BY <1>t, <3>1 DEF Fanned
    <3>2. CASE hub.open /\ Len(hub.queue) < Capacity
      <4>1. /\ Append(hub.queue, e) \in Seq(0..MaxEvents)
            /\ Len(Append(hub.queue, e)) = Len(hub.queue) + 1
        <5>1. e \in 0..MaxEvents
          BY <1>l
        <5> QED BY <1>l, <5>1, Appended
      <4>2. Fanned(e) = [hub EXCEPT !.queue = Append(hub.queue, e)]
        BY <1>t, <3>2 DEF Fanned, HubRow
      <4>3. Fanned(e) \in HubRow /\ Fanned(e).queue = Append(hub.queue, e)
        BY <1>t, <4>1, <4>2 DEF HubRow
      <4> QED BY <1>l, <3>2, <4>1, <4>3
    <3>3. CASE hub.open /\ ~(Len(hub.queue) < Capacity)
      BY <1>l, <1>e, <3>3 DEF Fanned, HubRow
    <3> QED BY <1>t, <3>1, <3>2, <3>3 DEF HubRow
  <2>2. version + 1 \in 0..MaxEvents
    <3>1. IsFiniteSet(unpublished)
      <4>1. IsFiniteSet(1..Len(journal))
        BY <1>l, FS_Interval
      <4> QED BY <1>l, <4>1, FS_Subset
    <3>2. Cardinality(unpublished) \in Nat /\ Cardinality(unpublished) # 0
      BY <1>2, <3>1, FS_CardinalityType, FS_EmptySet DEF Publish
    <3>3. version + Cardinality(unpublished) <= Len(journal)
      BY DEF StreamInv, BehindInv
    <3> QED BY <1>t, <1>l, <3>2, <3>3
  <2> QED BY <1>2, <1>t, <1>q, <2>1, <2>2 DEF Publish
<1>3. ASSUME NEW e \in 1..MaxEvents, LosePublication(e) PROVE StreamTypeOK'
  BY <1>3, <1>t, <1>f, <1>q DEF LosePublication
<1>4. CASE ClientSubscribes
  <2>1. opens' \in 0..MaxOpens
    BY <1>4, <1>t, StreamAssumption DEF ClientSubscribes
  <2>2. client' \in ClientRow /\ client'.buffer = <<>>
    BY <1>4, <1>t, <1>e DEF ClientSubscribes, ClientRow, ClientState
  <2>3. stream' \in StreamRow
    BY <1>4, <1>t, StreamStarts DEF ClientSubscribes, StreamRow, StreamPc, ClientRow
  <2> QED BY <1>4, <1>t, <1>l, <1>e, <1>q, <2>1, <2>2, <2>3 DEF ClientSubscribes
<1>5. CASE ClientReceives
  <2> DEFINE b == client.buffer
  <2>1. /\ Head(b) \in 0..MaxEvents /\ Tail(b) \in Seq(0..MaxEvents)
        /\ Len(Tail(b)) = Len(b) - 1
    BY <1>5, <1>l, Rest DEF ClientReceives
  <2> HIDE DEF b
  <2>2. \/ client' = [client EXCEPT !.state = "failed", !.buffer = <<>>]
        \/ client' = [state |-> "returned", buffer |-> Tail(b), seen |-> Head(b)]
        \/ client' = [state |-> "watching", buffer |-> Tail(b), seen |-> Head(b)]
    BY <1>5 DEF ClientReceives, b
  <2>3. client' \in ClientRow /\ client'.buffer \in {<<>>, Tail(b)}
    <3> DEFINE rest == Tail(b)
               item == Head(b)
    <3> HIDE DEF rest, item
    <3>1. CASE client' = [client EXCEPT !.state = "failed", !.buffer = <<>>]
      BY <1>t, <1>e, <3>1 DEF ClientRow, ClientState
    <3>2. CASE client' = [state |-> "returned", buffer |-> rest, seen |-> item]
      BY <2>1, <3>2 DEF ClientRow, ClientState, rest, item
    <3>3. CASE client' = [state |-> "watching", buffer |-> rest, seen |-> item]
      BY <2>1, <3>3 DEF ClientRow, ClientState, rest, item
    <3> QED BY <2>2, <3>1, <3>2, <3>3 DEF rest, item
  <2>4. Len(Tail(b)) <= ClientCapacity /\ Len(<<>>) <= ClientCapacity
    BY <1>t, <1>l, <1>e, <2>1 DEF b
  <2>5. Len(client'.buffer) <= ClientCapacity
    BY <2>3, <2>4
  <2> QED BY <1>5, <1>t, <1>q, <2>3, <2>5 DEF ClientReceives
<1>6. CASE ConnectionDrops
  BY <1>6, <1>d, <1>t, <1>f, <1>q DEF ConnectionDrops
<1>7. CASE CoreRestarts
  <2>1. feed' \in FeedRow
    BY <1>7, <1>t, StreamStarts DEF CoreRestarts, FeedRow
  <2> QED BY <1>7, <1>d, <1>t, <1>e, <1>f, <1>q, <2>1 DEF CoreRestarts
<1>8. CASE StreamSubscribes
  <2>1. hub' \in HubRow /\ Len(hub'.queue) <= Capacity
    BY <1>8, <1>e, <1>l DEF StreamSubscribes, HubRow
  <2>2. stream' \in StreamRow
    BY <1>8, <1>p DEF StreamSubscribes, StreamPc
  <2> QED BY <1>8, <1>t, <1>q, <2>1, <2>2 DEF StreamSubscribes
<1>9. CASE StreamReplays
  <2> DEFINE upto == AtMost(stream.last + PageLimit, Len(journal))
  <2>1. upto \in 0..MaxEvents
    BY <1>t, <1>l DEF AtMost, StreamRow
  <2>2. \/ stream' = [stream EXCEPT !.pc = "checking"]
        \/ stream' = [stream EXCEPT !.pc = "sending", !.upto = upto, !.then = "replaying"]
        \/ stream' = [stream EXCEPT !.pc = "sending", !.upto = upto, !.then = "checking"]
    BY <1>9 DEF StreamReplays
  <2> HIDE DEF upto
  <2>3. stream' \in StreamRow
    BY <1>t, <2>1, <2>2 DEF StreamRow, StreamPc
  <2> QED BY <1>9, <1>t, <1>q, <2>3 DEF StreamReplays
<1>10. CASE StreamChecks
  <2>1. stream' \in StreamRow
    BY <1>10, <1>p, StreamStarts DEF StreamChecks, StreamPc
  <2>2. hub' \in HubRow /\ Len(hub'.queue) <= Capacity
    BY <1>10, <1>t, <1>l, <1>e, StreamStarts DEF StreamChecks
  <2> QED BY <1>10, <1>t, <1>q, <2>1, <2>2 DEF StreamChecks
<1>11. CASE StreamReceives
  <2> DEFINE q == hub.queue
             entry == Head(q)
  <2>1. /\ entry \in 0..MaxEvents /\ Tail(q) \in Seq(0..MaxEvents) /\ Len(Tail(q)) = Len(q) - 1
    BY <1>11, <1>l, Rest DEF StreamReceives
  <2>2. CASE entry = Error
    <3>1. /\ stream' = StreamOff /\ hub' = Closed
          /\ client' = [client EXCEPT !.buffer = IF Len(client.buffer) < ClientCapacity
                                                 THEN Append(client.buffer, Error) ELSE <<Error>>]
          /\ UNCHANGED <<journal, unpublished, version, feed, opens, faults>>
      BY <1>11, <2>2 DEF StreamReceives
    <3>2. /\ Append(client.buffer, Error) \in Seq(0..MaxEvents)
          /\ Len(Append(client.buffer, Error)) = Len(client.buffer) + 1
      BY <1>l, <1>e, Appended DEF Error
    <3>3. client' \in ClientRow /\ Len(client'.buffer) <= ClientCapacity
      <4> DEFINE new == IF Len(client.buffer) < ClientCapacity
                        THEN Append(client.buffer, Error) ELSE <<Error>>
      <4>1. new \in Seq(0..MaxEvents) /\ Len(new) <= ClientCapacity
        <5>1. CASE Len(client.buffer) < ClientCapacity
          BY <1>l, <3>2, <5>1
        <5>2. CASE ~(Len(client.buffer) < ClientCapacity)
          BY <1>l, <1>e, <5>2
        <5> QED BY <5>1, <5>2
      <4>2. client' = [client EXCEPT !.buffer = new]
        BY <3>1
      <4> HIDE DEF new
      <4> QED BY <1>c, <4>1, <4>2
    <3> QED BY <1>t, <1>l, <1>e, <1>q, <3>1, <3>3, StreamStarts
  <2>3. CASE entry # Error
    <3>1. /\ hub' = [hub EXCEPT !.queue = Tail(q)]
          /\ \/ stream' = stream
             \/ stream' = [pc |-> "sending", last |-> stream.last, upto |-> entry, then |-> "live"]
          /\ UNCHANGED <<client, journal, unpublished, version, feed, opens, faults>>
      BY <1>11, <1>t, <2>3 DEF StreamReceives, FillFrom, HubRow
    <3> HIDE DEF q, entry
    <3>2. hub' \in HubRow /\ hub'.queue = Tail(q)
      BY <1>t, <2>1, <3>1 DEF HubRow
    <3>3. stream' \in StreamRow
      BY <1>t, <2>1, <3>1 DEF StreamRow, StreamPc
    <3>4. Len(hub'.queue) <= Capacity
      BY <1>t, <1>l, <2>1, <3>2 DEF q
    <3> QED BY <1>t, <1>q, <3>1, <3>2, <3>3, <3>4
  <2> QED BY <2>2, <2>3
<1>12. CASE StreamSends
  <2>1. CASE Len(client.buffer) = ClientCapacity
    BY <1>12, <1>d, <1>t, <1>q, <2>1 DEF StreamSends
  <2>2. CASE Len(client.buffer) # ClientCapacity
    <3> DEFINE entry == stream.last + 1
    <3>1. entry \in 0..MaxEvents
      BY <1>12, <1>t, <1>l DEF StreamSends, StreamInv, BehindInv, StreamRow
    <3>2. /\ client' = [client EXCEPT !.buffer = Append(client.buffer, entry)]
          /\ \/ stream' = StreamOff /\ hub' = Closed
             \/ stream' = [stream EXCEPT !.last = entry] /\ hub' = hub
             \/ stream' = [StreamOff EXCEPT !.pc = stream.then, !.last = entry] /\ hub' = hub
          /\ UNCHANGED <<journal, unpublished, version, feed, opens, faults>>
      BY <1>12, <1>t, <2>2 DEF StreamSends, ClientRow
    <3> HIDE DEF entry
    <3>3. /\ Append(client.buffer, entry) \in Seq(0..MaxEvents)
          /\ Len(Append(client.buffer, entry)) = Len(client.buffer) + 1
      BY <1>l, <3>1, Appended
    <3>4. client' \in ClientRow /\ Len(client'.buffer) <= ClientCapacity
      <4> DEFINE new == Append(client.buffer, entry)
      <4> HIDE DEF new
      <4>1. new \in Seq(0..MaxEvents) /\ Len(new) <= ClientCapacity
        BY <1>t, <1>l, <2>2, <3>3 DEF new
      <4>2. client' = [client EXCEPT !.buffer = new]
        BY <3>2 DEF new
      <4> QED BY <1>c, <4>1, <4>2
    <3>5. stream' \in StreamRow
      BY <1>t, <3>1, <3>2, StreamStarts DEF StreamRow
    <3>6. hub' \in HubRow /\ Len(hub'.queue) <= Capacity
      BY <1>t, <1>l, <1>e, <3>2, StreamStarts
    <3> QED BY <1>t, <1>q, <3>2, <3>4, <3>5, <3>6
  <2> QED BY <2>1, <2>2
<1>13. CASE FeedOpens
  <2>1. feed' \in FeedRow
    BY <1>13, <1>t DEF FeedOpens, FeedRow, FeedPc
  <2> QED BY <1>13, <1>t, <1>q, <2>1 DEF FeedOpens
<1>14. CASE FeedLists
  <2> DEFINE upto == AtMost(feed.cursor + PageLimit, FeedLength)
  <2>1. upto \in 0..MaxEvents
    BY SMTT(20), <1>t, <1>l, FeedLengthType DEF AtMost, FeedRow
  <2> HIDE DEF upto
  <2>2. \/ feed' = [feed EXCEPT !.pc = "waiting"]
        \/ feed' = [feed EXCEPT !.pc = "yielding", !.upto = upto]
    BY <1>14 DEF FeedLists, upto
  <2>3. feed' \in FeedRow
    BY <1>t, <2>1, <2>2 DEF FeedRow, FeedPc
  <2> QED BY <1>14, <1>t, <1>q, <2>3 DEF FeedLists
<1>15. CASE FeedYields
  <2>1. feed.cursor + 1 \in 0..MaxEvents
    BY <1>15, <1>t, <1>l, FeedLengthType DEF FeedYields, StreamInv, FeedInv, FeedRow
  <2>2. \/ feed' = [feed EXCEPT !.cursor = feed.cursor + 1, !.pc = "listing"]
        \/ feed' = [feed EXCEPT !.cursor = feed.cursor + 1, !.pc = feed.pc]
    BY <1>15, <1>t DEF FeedYields, FeedRow
  <2>3. feed' \in FeedRow
    BY <1>t, <2>1, <2>2 DEF FeedRow, FeedPc
  <2> QED BY <1>15, <1>t, <1>q, <2>3 DEF FeedYields
<1>16. CASE FeedWakes
  <2>1. feed' \in FeedRow
    BY <1>16, <1>t DEF FeedWakes, FeedRow, FeedPc
  <2> QED BY <1>16, <1>t, <1>q, <2>1 DEF FeedWakes
<1>17. CASE UNCHANGED svars
  BY <1>17, <1>t, <1>q DEF svars
<1> QED
  BY <1>1, <1>2, <1>3, <1>4, <1>5, <1>6, <1>7, <1>8, <1>9, <1>10, <1>11, <1>12, <1>13, <1>14,
     <1>15, <1>16, <1>17
  DEF StreamNext, Writing, Watching, StreamStep, FeedStep

\* Whatever a coroutine publishes, a stream sends or a client buffers is in the journal.
LEMMA StreamBehindStep ==
    ASSUME StreamInv, StreamTypeOK', [StreamNext]_svars
    PROVE  BehindInv'
<1>t. /\ journal \in Seq(EventKind) /\ Len(journal) <= MaxEvents
      /\ unpublished \subseteq DOMAIN journal
      /\ hub \in HubRow
      /\ version \in 0..MaxEvents
      /\ stream \in StreamRow
      /\ client \in ClientRow
  BY StreamTypes DEF StreamInv
<1>l. /\ Len(journal) \in Nat /\ MaxEvents \in Nat
      /\ hub.queue \in Seq(Nat) /\ client.buffer \in Seq(Nat) /\ client.seen \in Nat
      /\ Len(hub.queue) \in Nat /\ Len(client.buffer) \in Nat
      /\ unpublished \subseteq 1..Len(journal)
      /\ stream.last \in 0..MaxEvents /\ stream.upto \in 0..MaxEvents
      /\ PageLimit \in Nat \ {0}
  <2>1. MaxEvents \in Nat /\ 0..MaxEvents \subseteq Nat
    BY StreamAssumption
  <2>2. hub.queue \in Seq(0..MaxEvents) /\ client.buffer \in Seq(0..MaxEvents)
    BY <1>t DEF HubRow, ClientRow
  <2>3. hub.queue \in Seq(Nat) /\ client.buffer \in Seq(Nat)
    BY <2>1, <2>2, SeqMonotonic
  <2> QED BY <1>t, <2>1, <2>3, StreamAssumption, LenProperties DEF ClientRow, StreamRow
<1>u. IsFiniteSet(unpublished) /\ Cardinality(unpublished) \in Nat
  <2>1. IsFiniteSet(1..Len(journal))
    BY <1>l, FS_Interval
  <2> QED BY <1>l, <2>1, FS_Subset, FS_CardinalityType
<1> DEFINE Counted == version + Cardinality(unpublished) <= Len(journal)
           Queued == UpTo(hub.queue, Len(journal))
           Sent == /\ stream.last <= Len(journal)
                   /\ stream.pc = "sending"
                        => stream.last < stream.upto /\ stream.upto <= Len(journal)
           Buffered == UpTo(client.buffer, Len(journal)) /\ client.seen <= Len(journal)
<1>b. Counted /\ Queued /\ Sent /\ Buffered
  BY DEF StreamInv, BehindInv
<1>q. Counted' /\ Queued' /\ Sent' /\ Buffered' => BehindInv'
  BY DEF BehindInv
<1>c. UNCHANGED <<journal, unpublished, version>> => Counted'
  BY <1>b
<1>h. ASSUME UNCHANGED journal, hub' = hub \/ hub' = Closed PROVE Queued'
  BY <1>h, <1>b, <1>l, StreamStarts, UpToShort
<1>s. ASSUME UNCHANGED journal, stream' = stream \/ stream' = StreamOff PROVE Sent'
  BY <1>s, <1>b, <1>l, StreamStarts
<1>f. UNCHANGED <<journal, client>> => Buffered'
  BY <1>b
<1>d. ASSUME UNCHANGED journal, Disconnected PROVE Queued' /\ Sent' /\ Buffered'
  <2>1. Queued' /\ Sent'
    BY <1>d, <1>h, <1>s DEF Disconnected
  <2>2. (client' = client \/ client'.buffer = <<Error>>) /\ client'.seen = client.seen
    BY <1>d, <1>t DEF Disconnected, ClientRow
  <2>3. Buffered'
    BY <1>d, <1>b, <1>l, <2>2, UpToShort
  <2> QED BY <2>1, <2>3
<1> HIDE DEF Counted, Queued, Sent, Buffered
<1>1. ASSUME NEW kind \in EventKind, Commit(kind) PROVE BehindInv'
  <2>1. Len(journal') = Len(journal) + 1 /\ UNCHANGED <<hub, version, stream, client>>
    BY <1>1, <1>t, Appended DEF Commit
  <2>2. Cardinality(unpublished') <= Cardinality(unpublished) + 1
        /\ Cardinality(unpublished') \in Nat
    <3> DEFINE c == Cardinality(unpublished)
               d == Cardinality(unpublished')
    <3>1. unpublished' = unpublished \cup {Len(journal) + 1}
      BY <1>1 DEF Commit
    <3>2. d = c \/ d = c + 1
      BY <1>u, <3>1, FS_AddElement
    <3>3. c \in Nat
      BY <1>u
    <3> HIDE DEF c, d
    <3>4. d <= c + 1 /\ d \in Nat
      BY <3>2, <3>3
    <3> QED BY <3>4 DEF c, d
  <2>3. Counted'
    BY <1>b, <1>t, <1>l, <1>u, <2>1, <2>2 DEF Counted
  <2>4. Queued'
    BY <1>b, <1>l, <2>1, UpToKept DEF Queued
  <2>5. Sent'
    BY <1>b, <1>l, <2>1 DEF Sent
  <2>6. Buffered'
    BY <1>b, <1>l, <2>1, UpToKept DEF Buffered
  <2> QED BY <1>q, <2>3, <2>4, <2>5, <2>6
<1>2. ASSUME NEW e \in 1..MaxEvents, Publish(e) PROVE BehindInv'
  <2>1. Counted'
    <3>1. Cardinality(unpublished') = Cardinality(unpublished) - 1
      BY <1>2, <1>u, FS_RemoveElement DEF Publish
    <3> QED BY <1>2, <1>b, <1>t, <1>l, <1>u, <3>1 DEF Counted, Publish
  <2>2. Queued'
    <3>1. UNCHANGED journal /\ hub' = Fanned(e) /\ e \in unpublished
      BY <1>2 DEF Publish
    <3>2. CASE ~hub.open
      BY <1>h, <3>1, <3>2 DEF Fanned
    <3>3. CASE hub.open /\ Len(hub.queue) < Capacity
      <4>1. hub'.queue = Append(hub.queue, e)
        BY <1>t, <3>1, <3>3 DEF Fanned, HubRow
      <4>2. e \in Nat /\ e <= Len(journal)
        BY <1>l, <3>1
      <4> QED BY <1>b, <1>l, <3>1, <4>1, <4>2, UpToKept DEF Queued
    <3>4. CASE hub.open /\ ~(Len(hub.queue) < Capacity)
      <4>1. hub'.queue = <<Error>>
        BY <3>1, <3>4 DEF Fanned
      <4> QED BY <1>l, <3>1, <4>1, UpToShort DEF Queued
    <3> QED BY <1>t, <3>2, <3>3, <3>4 DEF HubRow
  <2> QED BY <1>2, <1>q, <1>f, <1>s, <2>1, <2>2 DEF Publish
<1>3. ASSUME NEW e \in 1..MaxEvents, LosePublication(e) PROVE BehindInv'
  <2>1. Counted'
    <3>1. Cardinality(unpublished') = Cardinality(unpublished) - 1
      BY <1>3, <1>u, FS_RemoveElement DEF LosePublication
    <3> QED BY <1>3, <1>b, <1>t, <1>l, <1>u, <3>1 DEF Counted, LosePublication
  <2> QED BY <1>3, <1>q, <1>h, <1>f, <1>s, <2>1 DEF LosePublication
<1>4. CASE ClientSubscribes
  <2>1. client'.buffer = <<>> /\ client'.seen = client.seen /\ UNCHANGED journal
    BY <1>4, <1>t DEF ClientSubscribes, ClientRow
  <2>2. Buffered'
    BY <1>b, <1>l, <2>1, UpToShort DEF Buffered
  <2>3. stream'.pc = "subscribing" /\ stream'.last = client.seen
    BY <1>4, StreamStarts DEF ClientSubscribes, StreamRow
  <2>4. client.seen <= Len(journal)
    BY <1>b DEF Buffered
  <2>5. Sent'
    BY <2>1, <2>3, <2>4 DEF Sent
  <2> QED BY <1>4, <1>q, <1>c, <1>h, <2>2, <2>5 DEF ClientSubscribes
<1>5. CASE ClientReceives
  <2> DEFINE b == client.buffer
  <2>1. UpTo(Tail(b), Len(journal)) /\ Head(b) <= Len(journal)
    BY <1>5, <1>b, <1>l, UpToKept DEF ClientReceives, Buffered
  <2>2. /\ UNCHANGED journal
        /\ \/ client'.buffer = <<>> /\ client'.seen = client.seen
           \/ client'.buffer = Tail(b) /\ client'.seen = Head(b)
    BY <1>5, <1>t DEF ClientReceives, ClientRow
  <2>3. Buffered'
    BY <1>b, <1>l, <2>1, <2>2, UpToShort DEF Buffered
  <2> QED BY <1>5, <1>q, <1>c, <1>h, <1>s, <2>3 DEF ClientReceives
<1>6. CASE ConnectionDrops
  BY <1>6, <1>c, <1>d, <1>q DEF ConnectionDrops
<1>7. CASE CoreRestarts
  <2>1. Counted'
    BY <1>7, <1>l, FS_EmptySet DEF CoreRestarts, Counted
  <2> QED BY <1>7, <1>d, <1>q, <2>1 DEF CoreRestarts
<1>8. CASE StreamSubscribes
  <2>1. Queued'
    <3>1. hub'.queue = <<>> /\ UNCHANGED journal
      BY <1>8 DEF StreamSubscribes
    <3> QED BY <1>l, <3>1, UpToShort DEF Queued
  <2>2. Sent'
    BY <1>8, <1>b, <1>t DEF StreamSubscribes, Sent, StreamRow
  <2> QED BY <1>8, <1>q, <1>c, <1>f, <2>1, <2>2 DEF StreamSubscribes
<1>9. CASE StreamReplays
  <2> DEFINE upto == AtMost(stream.last + PageLimit, Len(journal))
  <2>1. upto <= Len(journal) /\ upto \in Int
    BY <1>l DEF AtMost
  <2>2. \/ stream' = [stream EXCEPT !.pc = "checking"]
        \/ /\ stream' = [stream EXCEPT !.pc = "sending", !.upto = upto, !.then = "replaying"]
           /\ upto > stream.last
        \/ /\ stream' = [stream EXCEPT !.pc = "sending", !.upto = upto, !.then = "checking"]
           /\ upto > stream.last
    <3>1. ~(upto <= stream.last) => upto > stream.last
      BY <1>l, <2>1
    <3> QED BY <1>9, <3>1 DEF StreamReplays
  <2> HIDE DEF upto
  <2>3. /\ stream'.last = stream.last
        /\ \/ stream'.pc = "checking"
           \/ stream'.upto = upto /\ upto > stream.last
    BY <1>t, <2>2 DEF StreamRow
  <2>4. Sent'
    BY <1>9, <1>b, <1>l, <2>1, <2>3 DEF Sent, StreamReplays
  <2> QED BY <1>9, <1>q, <1>c, <1>h, <1>f, <2>4 DEF StreamReplays
<1>10. CASE StreamChecks
  <2>1. \/ stream' = StreamOff /\ hub' = Closed
        \/ stream' = [stream EXCEPT !.pc = "live"] /\ hub' = hub
    BY <1>10 DEF StreamChecks
  <2>2. Sent'
    BY <1>10, <1>b, <1>t, <1>s, <2>1 DEF StreamChecks, StreamRow, Sent
  <2> QED BY <1>10, <1>q, <1>c, <1>h, <1>f, <2>1, <2>2 DEF StreamChecks
<1>11. CASE StreamReceives
  <2> DEFINE q == hub.queue
             entry == Head(q)
  <2>0. UNCHANGED <<journal, unpublished, version>>
    BY <1>11 DEF StreamReceives
  <2>1. UpTo(Tail(q), Len(journal)) /\ entry \in Nat
    BY <1>11, <1>b, <1>l, Rest, UpToKept DEF StreamReceives, Queued
  <2>2. entry <= Len(journal)
    BY <1>11, <1>b, <1>l, UpToKept DEF StreamReceives, Queued
  <2>3. CASE entry = Error
    <3>1. /\ stream' = StreamOff /\ hub' = Closed
          /\ client'.buffer = Append(client.buffer, Error) \/ client'.buffer = <<Error>>
          /\ client'.seen = client.seen
      BY <1>11, <1>t, <2>3 DEF StreamReceives, ClientRow
    <3>2. UpTo(Append(client.buffer, Error), Len(journal)) /\ UpTo(<<Error>>, Len(journal))
      <4>1. Error \in Nat /\ Error <= Len(journal)
        BY <1>l DEF Error
      <4> QED BY <1>b, <1>l, <4>1, UpToKept, UpToShort DEF Buffered
    <3>3. Buffered'
      BY <1>b, <2>0, <3>1, <3>2 DEF Buffered
    <3> QED BY <1>q, <1>c, <1>h, <1>s, <2>0, <3>1, <3>3
  <2>4. CASE entry # Error
    <3>1. /\ hub'.queue = Tail(q)
          /\ \/ stream' = stream
             \/ /\ stream' = [pc |-> "sending", last |-> stream.last, upto |-> entry, then |-> "live"]
                /\ ~(entry <= stream.last)
          /\ UNCHANGED client
      BY <1>11, <1>t, <2>4 DEF StreamReceives, FillFrom, HubRow
    <3>2. Queued'
      BY <2>0, <2>1, <3>1 DEF Queued
    <3>3. Sent'
      BY <1>b, <1>l, <2>0, <2>1, <2>2, <3>1 DEF Sent
    <3> QED BY <1>q, <1>c, <1>f, <2>0, <3>1, <3>2, <3>3
  <2> QED BY <2>3, <2>4
<1>12. CASE StreamSends
  <2>0. UNCHANGED <<journal, unpublished, version>>
    BY <1>12 DEF StreamSends
  <2>1. CASE Len(client.buffer) = ClientCapacity
    BY <1>12, <1>q, <1>c, <1>d, <2>0, <2>1 DEF StreamSends
  <2>2. CASE Len(client.buffer) # ClientCapacity
    <3> DEFINE entry == stream.last + 1
    <3>1. entry \in Nat /\ entry <= stream.upto /\ stream.upto <= Len(journal)
      BY <1>12, <1>b, <1>l, <1>t DEF StreamSends, Sent
    <3>2. /\ client'.buffer = Append(client.buffer, entry) /\ client'.seen = client.seen
          /\ \/ stream' = StreamOff /\ hub' = Closed
             \/ stream' = [stream EXCEPT !.last = entry] /\ hub' = hub /\ entry < stream.upto
             \/ stream' = [StreamOff EXCEPT !.pc = stream.then, !.last = entry] /\ hub' = hub
      BY <1>12, <1>t, <2>2 DEF StreamSends, ClientRow
    <3>3. \/ stream' = StreamOff
          \/ stream'.last = entry /\ stream'.upto = stream.upto /\ entry < stream.upto
          \/ stream'.last = entry /\ stream'.pc = stream.then
      <4>1. CASE stream' = [stream EXCEPT !.last = entry]
        BY ZenonT(30), <1>t, <3>2, <4>1, StreamStarts DEF StreamRow
      <4>2. CASE stream' = [StreamOff EXCEPT !.pc = stream.then, !.last = entry]
        BY <4>2 DEF StreamOff
      <4> QED BY <3>2, <4>1, <4>2
    <3>4. stream.then # "sending"
      BY <1>12 DEF StreamSends, StreamInv, OrderInv
    <3>5. Sent'
      BY <1>b, <1>l, <1>s, <2>0, <3>1, <3>3, <3>4 DEF Sent
    <3> HIDE DEF entry
    <3>6. UpTo(Append(client.buffer, entry), Len(journal))
      <4>1. entry <= Len(journal)
        BY <1>l, <3>1
      <4>2. UpTo(client.buffer, Len(journal))
        BY <1>b DEF Buffered
      <4> QED BY <1>l, <3>1, <4>1, <4>2, UpToKept
    <3>7. Buffered'
      BY <1>b, <2>0, <3>2, <3>6 DEF Buffered
    <3> QED BY <1>q, <1>c, <1>h, <2>0, <3>2, <3>5, <3>7
  <2> QED BY <2>1, <2>2
<1>13. CASE FeedOpens \/ FeedLists \/ FeedYields \/ FeedWakes
  BY <1>13, <1>q, <1>c, <1>h, <1>s, <1>f DEF FeedOpens, FeedLists, FeedYields, FeedWakes
<1>14. CASE UNCHANGED svars
  BY <1>14, <1>q, <1>c, <1>h, <1>s, <1>f DEF svars
<1> QED
  BY <1>1, <1>2, <1>3, <1>4, <1>5, <1>6, <1>7, <1>8, <1>9, <1>10, <1>11, <1>12, <1>13, <1>14
  DEF StreamNext, Writing, Watching, StreamStep, FeedStep

\* The reader of the feed keeps behind the rows, which only grow.
LEMMA StreamFeedStep ==
    ASSUME StreamInv, [StreamNext]_svars
    PROVE  FeedInv'
<1>t. journal \in Seq(EventKind) /\ feed \in FeedRow /\ PageLimit \in Nat \ {0}
  BY StreamTypes, StreamAssumption DEF StreamInv
<1>l. /\ FeedLength \in Nat
      /\ feed.cursor \in Nat /\ feed.upto \in Nat /\ feed.cursor <= FeedLength
      /\ feed.pc = "yielding" => feed.cursor < feed.upto /\ feed.upto <= FeedLength
  <2>1. FeedLength \in 0..Len(journal) /\ Len(journal) \in Nat /\ MaxEvents \in Nat
    BY <1>t, FeedLengthType, StreamAssumption
  <2> QED BY <1>t, <2>1 DEF FeedRow, StreamInv, FeedInv
<1>n. journal' = journal => FeedLength' = FeedLength
  BY DEF FeedLength
<1>k. UNCHANGED <<journal, feed>> => FeedInv'
  BY <1>l, <1>n DEF FeedInv
<1>1. ASSUME NEW kind \in EventKind, Commit(kind) PROVE FeedInv'
  <2>1. journal' = Append(journal, kind) /\ UNCHANGED feed
    BY <1>1 DEF Commit
  <2>2. FeedLength' \in Nat
    <3>1. journal' \in Seq(EventKind)
      BY <1>t, <2>1, Appended
    <3>2. Cardinality({e \in DOMAIN journal' : journal'[e] # "private"}) \in 0..Len(journal')
      BY <3>1, FeedBounds
    <3>3. Len(journal') \in Nat
      BY <3>1
    <3> QED BY <3>2, <3>3 DEF FeedLength
  <2>3. FeedLength <= FeedLength'
    BY <1>t, <2>1, FeedGrows
  <2> QED BY <1>l, <2>1, <2>2, <2>3 DEF FeedInv
<1>2. ASSUME NEW e \in 1..MaxEvents, Publish(e) \/ LosePublication(e) PROVE FeedInv'
  BY <1>2, <1>k DEF Publish, LosePublication
<1>3. CASE ClientSubscribes \/ ClientReceives \/ ConnectionDrops
  BY <1>3, <1>k DEF ClientSubscribes, ClientReceives, ConnectionDrops
<1>4. CASE StreamStep
  BY <1>4, <1>k DEF StreamStep, StreamSubscribes, StreamReplays, StreamChecks, StreamReceives,
                    StreamSends
<1>5. CASE FeedOpens \/ FeedWakes
  <2>1. UNCHANGED journal /\ feed'.cursor = feed.cursor /\ feed'.pc = "listing"
    BY <1>5, <1>t DEF FeedOpens, FeedWakes, FeedRow
  <2> QED BY <1>l, <1>n, <2>1 DEF FeedInv
<1>6. CASE FeedLists
  <2>1. UNCHANGED journal
    BY <1>6 DEF FeedLists
  <2>2. CASE FeedLength <= feed.cursor
    <3>1. feed'.cursor = feed.cursor /\ feed'.pc = "waiting"
      BY <1>6, <1>t, <2>2 DEF FeedLists, FeedRow
    <3> QED BY <1>l, <1>n, <2>1, <3>1 DEF FeedInv
  <2>3. CASE ~(FeedLength <= feed.cursor)
    <3> DEFINE upto == AtMost(feed.cursor + PageLimit, FeedLength)
    <3>1. feed.cursor < upto /\ upto <= FeedLength
      BY <1>l, <1>t, <2>3 DEF AtMost
    <3>2. feed' = [feed EXCEPT !.pc = "yielding", !.upto = upto]
      BY <1>6, <2>3 DEF FeedLists
    <3> HIDE DEF upto
    <3>3. feed'.cursor = feed.cursor /\ feed'.upto = upto
      BY <1>t, <3>2 DEF FeedRow
    <3> QED BY <1>l, <1>n, <2>1, <3>1, <3>3 DEF FeedInv
  <2> QED BY <2>2, <2>3
<1>7. CASE FeedYields
  <2>1. UNCHANGED journal /\ feed.pc = "yielding"
    BY <1>7 DEF FeedYields
  <2>2. /\ feed'.cursor = feed.cursor + 1 /\ feed'.upto = feed.upto
        /\ feed.cursor + 1 = feed.upto => feed'.pc = "listing"
    BY <1>7, <1>t DEF FeedYields, FeedRow
  <2> QED BY <1>l, <1>n, <2>1, <2>2 DEF FeedInv
<1>8. CASE CoreRestarts
  <2>1. UNCHANGED journal /\ feed'.cursor = feed.cursor /\ feed'.pc = "off"
    BY <1>8 DEF CoreRestarts, FeedOff
  <2> QED BY <1>l, <1>n, <2>1 DEF FeedInv
<1>9. CASE UNCHANGED svars
  BY <1>9, <1>k DEF svars
<1> QED
  BY <1>1, <1>2, <1>3, <1>4, <1>5, <1>6, <1>7, <1>8, <1>9
  DEF StreamNext, Writing, Watching, FeedStep

\* What a stream sends follows what is buffered, and an error is the last of both.
LEMMA StreamOrderStep ==
    ASSUME StreamInv, [StreamNext]_svars
    PROVE  OrderInv'
<1>t. stream \in StreamRow /\ client \in ClientRow
  BY StreamTypes DEF StreamInv
<1>l. /\ client.buffer \in Seq(Nat) /\ client.seen \in Nat /\ Len(client.buffer) \in Nat
      /\ stream.last \in Nat
  <2>1. 0..MaxEvents \subseteq Nat /\ client.buffer \in Seq(0..MaxEvents)
    BY <1>t, StreamAssumption DEF ClientRow
  <2>2. client.buffer \in Seq(Nat)
    BY <2>1, SeqMonotonic
  <2> QED BY <1>t, <2>1, <2>2, LenProperties DEF ClientRow, StreamRow
<1> DEFINE on == stream.pc # "off"
           Listed == \/ CountsOn(client.buffer, client.seen)
                     \/ stream.pc = "off" /\ BreaksOff(client.buffer, client.seen)
           Level == stream.pc # "off" => stream.last = client.seen + Len(client.buffer)
           Next1 == stream.then # "sending"
<1>b. Listed /\ Level /\ Next1
  BY DEF StreamInv, OrderInv
<1>q. Listed' /\ Level' /\ Next1' => OrderInv'
  BY DEF OrderInv
<1>o. stream.pc # "off" => CountsOn(client.buffer, client.seen)
  BY <1>b
<1>f. ASSUME stream' = stream \/ stream' = StreamOff, UNCHANGED client PROVE OrderInv'
  BY <1>f, <1>b, <1>q DEF StreamOff
<1>g. ASSUME stream.pc # "off", UNCHANGED client, stream'.last = stream.last,
             stream'.then # "sending"
      PROVE  OrderInv'
  BY <1>g, <1>b, <1>q
<1>d. ASSUME Disconnected PROVE OrderInv'
  <2>1. stream' = StreamOff
    BY <1>d DEF Disconnected
  <2>2. CASE client.state = "watching"
    <3>1. client'.buffer = <<Error>> /\ client'.seen = client.seen
      BY <1>d, <1>t, <2>2 DEF Disconnected, ClientRow
    <3>2. BreaksOff(client'.buffer, client'.seen)
      BY <1>l, <3>1, CountsShort
    <3> QED BY <1>q, <2>1, <3>2 DEF StreamOff
  <2>3. CASE client.state # "watching"
    BY <1>d, <1>f, <2>1, <2>3 DEF Disconnected
  <2> QED BY <2>2, <2>3
<1> HIDE DEF Listed, Level, Next1
<1>1. ASSUME NEW kind \in EventKind, Commit(kind) PROVE OrderInv'
  BY <1>1, <1>f DEF Commit
<1>2. ASSUME NEW e \in 1..MaxEvents, Publish(e) \/ LosePublication(e) PROVE OrderInv'
  BY <1>2, <1>f DEF Publish, LosePublication
<1>3. CASE ClientSubscribes
  <2>1. client'.buffer = <<>> /\ client'.seen = client.seen
    BY <1>3, <1>t DEF ClientSubscribes, ClientRow
  <2>2. stream'.last = client.seen /\ stream'.then = "off"
    BY <1>3 DEF ClientSubscribes, StreamOff
  <2>3. Listed'
    BY <1>l, <2>1, CountsShort DEF Listed
  <2>4. Level'
    <3>1. Len(client'.buffer) = 0
      BY <2>1
    <3> QED BY <1>l, <2>1, <2>2, <3>1 DEF Level
  <2> QED BY <1>q, <2>2, <2>3, <2>4 DEF Next1
<1>4. CASE ClientReceives
  <2> DEFINE b == client.buffer
  <2>1. b # <<>> /\ UNCHANGED stream
    BY <1>4 DEF ClientReceives
  <2>2. CASE Head(b) = Error
    <3>1. client'.buffer = <<>> /\ client'.seen = client.seen
      BY <1>4, <1>t, <2>2 DEF ClientReceives, ClientRow
    <3>2. stream.pc = "off"
      <4>1. CountsOn(b, client.seen) => Head(b) = client.seen + 1
        BY <1>l, <2>1, CountsOnKept
      <4> QED BY <1>l, <1>o, <2>2, <4>1 DEF Error
    <3>3. Listed'
      BY <1>l, <3>1, CountsShort DEF Listed
    <3> QED BY <1>b, <1>q, <2>1, <3>2, <3>3 DEF Level, Next1
  <2>3. CASE Head(b) # Error
    <3>1. client'.buffer = Tail(b) /\ client'.seen = Head(b)
      BY <1>4, <2>3 DEF ClientReceives
    <3>2. CASE CountsOn(b, client.seen)
      <4>1. Head(b) = client.seen + 1 /\ CountsOn(Tail(b), client.seen + 1)
        BY <1>l, <2>1, <3>2, CountsOnKept
      <4>2. Len(Tail(b)) = Len(b) - 1
        BY <1>l, <2>1, Rest
      <4>3. Listed'
        BY <3>1, <4>1 DEF Listed
      <4>4. Level'
        BY <1>b, <1>l, <2>1, <3>1, <4>1, <4>2 DEF Level
      <4> QED BY <1>b, <1>q, <2>1, <4>3, <4>4 DEF Next1
    <3>3. CASE stream.pc = "off" /\ BreaksOff(b, client.seen)
      <4>1. Head(b) = client.seen + 1 /\ BreaksOff(Tail(b), client.seen + 1)
        BY <1>l, <2>3, <3>3, BreaksOffKept
      <4> QED BY <1>b, <1>q, <2>1, <3>1, <3>3, <4>1 DEF Listed, Level, Next1
    <3> QED BY <1>b, <3>2, <3>3 DEF Listed
  <2> QED BY <2>2, <2>3
<1>5. CASE ConnectionDrops \/ CoreRestarts
  BY <1>5, <1>d DEF ConnectionDrops, CoreRestarts
<1>6. CASE StreamSubscribes
  <2>1. stream.pc # "off" /\ UNCHANGED client /\ stream'.last = stream.last
        /\ stream'.then = stream.then
    BY <1>6, <1>t DEF StreamSubscribes, StreamRow
  <2> QED BY <1>b, <1>g, <2>1 DEF Next1
<1>7. CASE StreamReplays
  <2> DEFINE upto == AtMost(stream.last + PageLimit, Len(journal))
  <2>1. /\ stream.pc # "off" /\ UNCHANGED client
        /\ \/ stream' = [stream EXCEPT !.pc = "checking"]
           \/ stream' = [stream EXCEPT !.pc = "sending", !.upto = upto, !.then = "replaying"]
           \/ stream' = [stream EXCEPT !.pc = "sending", !.upto = upto, !.then = "checking"]
    BY <1>7 DEF StreamReplays
  <2> HIDE DEF upto
  <2>2. stream'.last = stream.last /\ stream'.then \in {stream.then, "replaying", "checking"}
    BY <1>t, <2>1 DEF StreamRow
  <2> QED BY <1>b, <1>g, <2>1, <2>2 DEF Next1
<1>8. CASE StreamChecks
  <2>1. CASE stream' = StreamOff
    BY <1>8, <1>f, <2>1 DEF StreamChecks
  <2>2. CASE stream' = [stream EXCEPT !.pc = "live"]
    <3>1. stream.pc # "off" /\ UNCHANGED client /\ stream'.last = stream.last
          /\ stream'.then = stream.then
      BY <1>8, <1>t, <2>2 DEF StreamChecks, StreamRow
    <3> QED BY <1>b, <1>g, <3>1 DEF Next1
  <2> QED BY <1>8, <2>1, <2>2 DEF StreamChecks
<1>9. CASE StreamReceives
  <2> DEFINE entry == Head(hub.queue)
  <2>0. stream.pc # "off"
    BY <1>9 DEF StreamReceives
  <2>1. CASE entry = Error
    <3>1. /\ stream' = StreamOff /\ client'.seen = client.seen
          /\ client'.buffer = Append(client.buffer, Error) \/ client'.buffer = <<Error>>
      BY <1>9, <1>t, <2>1 DEF StreamReceives, ClientRow
    <3>2. BreaksOff(client'.buffer, client'.seen)
      <4>1. BreaksOff(Append(client.buffer, Error), client.seen)
        BY <1>l, <1>o, <2>0, CountsOnKept
      <4>2. BreaksOff(<<Error>>, client.seen)
        BY <1>l, CountsShort
      <4> QED BY <3>1, <4>1, <4>2
    <3> QED BY <1>q, <3>1, <3>2 DEF Listed, Level, Next1, StreamOff
  <2>2. CASE entry # Error
    <3>1. /\ UNCHANGED client
          /\ \/ stream' = stream
             \/ stream' = [pc |-> "sending", last |-> stream.last, upto |-> entry, then |-> "live"]
      BY <1>9, <2>2 DEF StreamReceives, FillFrom
    <3> QED BY <1>b, <1>f, <1>g, <2>0, <3>1 DEF Next1
  <2> QED BY <2>1, <2>2
<1>10. CASE StreamSends
  <2>1. CASE Len(client.buffer) = ClientCapacity
    BY <1>10, <1>d, <2>1 DEF StreamSends
  <2>2. CASE Len(client.buffer) # ClientCapacity
    <3> DEFINE entry == stream.last + 1
               b == client.buffer
    <3>1. /\ client'.buffer = Append(b, entry) /\ client'.seen = client.seen
          /\ \/ stream' = StreamOff
             \/ stream' = [stream EXCEPT !.last = entry]
             \/ stream' = [StreamOff EXCEPT !.pc = stream.then, !.last = entry]
      BY <1>10, <1>t, <2>2 DEF StreamSends, ClientRow
    <3>2. entry = client.seen + Len(b) + 1
      BY <1>10, <1>b, <1>l DEF StreamSends, Level
    <3>3. Len(Append(b, entry)) = Len(b) + 1
      BY <1>l, Appended
    <3>4. CountsOn(Append(b, entry), client.seen)
      <4>1. CountsOn(Append(b, client.seen + Len(b) + 1), client.seen)
        BY <1>10, <1>l, <1>o, CountsOnKept DEF StreamSends
      <4> QED BY <3>2, <4>1
    <3> HIDE DEF entry
    <3>5. Listed'
      BY <3>1, <3>4 DEF Listed
    <3>6. /\ stream'.pc = "off" \/ stream'.last = entry
          /\ stream'.then = stream.then \/ stream'.then = "off"
      <4>1. CASE stream' = [stream EXCEPT !.last = entry]
        BY <1>t, <4>1 DEF StreamRow
      <4>2. CASE stream' = [StreamOff EXCEPT !.pc = stream.then, !.last = entry]
        BY <4>2 DEF StreamOff
      <4>3. CASE stream' = StreamOff
        BY <4>3 DEF StreamOff
      <4> QED BY <3>1, <4>1, <4>2, <4>3
    <3>7. Level'
      <4>1. Len(client'.buffer) = Len(b) + 1
        BY <3>1, <3>3
      <4>2. client'.seen = client.seen /\ client.seen \in Nat /\ Len(b) \in Nat
        BY <1>l, <3>1
      <4>3. client.seen + Len(b) + 1 = client.seen + (Len(b) + 1)
        BY <4>2
      <4>4. entry = client'.seen + Len(client'.buffer)
        BY <3>2, <4>1, <4>2, <4>3
      <4> QED BY <3>6, <4>4 DEF Level
    <3>8. Next1'
      BY <1>b, <3>6 DEF Next1
    <3> QED BY <1>q, <3>5, <3>7, <3>8
  <2> QED BY <2>1, <2>2
<1>11. CASE FeedOpens \/ FeedStep
  BY <1>11, <1>f DEF FeedOpens, FeedStep, FeedLists, FeedYields, FeedWakes
<1>12. CASE UNCHANGED svars
  BY <1>12, <1>f DEF svars
<1> QED
  BY <1>1, <1>2, <1>3, <1>4, <1>5, <1>6, <1>7, <1>8, <1>9, <1>10, <1>11, <1>12
  DEF StreamNext, Writing, Watching, StreamStep

\* TaskService.events(), principal_events(), the hub and the buffer of a client keep the
\* invariant, whatever is lost and however often Core restarts.
THEOREM StreamInvariant == StreamSpec => []StreamInv
<1>1. StreamInv /\ [StreamNext]_svars => StreamInv'
  <2> SUFFICES ASSUME StreamInv, [StreamNext]_svars PROVE StreamInv'
    OBVIOUS
  <2>1. StreamTypeOK'
    BY StreamTypeStep
  <2>2. BehindInv' /\ FeedInv' /\ OrderInv'
    BY <2>1, StreamBehindStep, StreamFeedStep, StreamOrderStep
  <2> QED BY <2>1, <2>2 DEF StreamInv
<1> QED BY <1>1, StreamInitial, PTL DEF StreamSpec

\* CoreClient.task_events() yields the journal one event after the other: none is left out and
\* none comes again, whatever is published late, out of order or never.
THEOREM JournalSeenInOrder == StreamSpec => SeenInOrder
<1>1. StreamInv /\ [StreamNext]_svars => [client'.seen \in {client.seen, client.seen + 1}]_svars
  <2> SUFFICES ASSUME StreamInv, StreamNext
               PROVE  client'.seen \in {client.seen, client.seen + 1}
    OBVIOUS
  <2>t. stream \in StreamRow /\ client \in ClientRow
    BY StreamTypes DEF StreamInv
  <2>l. client.buffer \in Seq(Nat) /\ client.seen \in Nat
    <3>1. 0..MaxEvents \subseteq Nat /\ client.buffer \in Seq(0..MaxEvents)
      BY <2>t, StreamAssumption DEF ClientRow
    <3> QED BY <2>t, <3>1, SeqMonotonic DEF ClientRow
  <2>d. Disconnected => client'.seen = client.seen
    BY <2>t DEF Disconnected, ClientRow
  <2>1. CASE ClientReceives
    <3> DEFINE b == client.buffer
    <3>1. b # <<>>
      BY <2>1 DEF ClientReceives
    <3>2. CASE Head(b) = Error
      BY <2>1, <2>t, <3>2 DEF ClientReceives, ClientRow
    <3>3. CASE Head(b) # Error
      <4>1. client'.seen = Head(b)
        BY <2>1, <3>3 DEF ClientReceives
      <4>2. CountsOn(b, client.seen) \/ BreaksOff(b, client.seen)
        BY DEF StreamInv, OrderInv
      <4>3. Head(b) = client.seen + 1
        BY <2>l, <3>1, <3>3, <4>2, CountsOnKept, BreaksOffKept
      <4> QED BY <4>1, <4>3
    <3> QED BY <3>2, <3>3
  <2>2. CASE ClientSubscribes
    BY <2>2, <2>t DEF ClientSubscribes, ClientRow
  <2>3. CASE ConnectionDrops \/ CoreRestarts
    BY <2>3, <2>d DEF ConnectionDrops, CoreRestarts
  <2>4. CASE StreamReceives
    BY <2>4, <2>t DEF StreamReceives, ClientRow
  <2>5. CASE StreamSends
    BY <2>5, <2>d, <2>t DEF StreamSends, ClientRow
  <2>6. CASE StreamSubscribes \/ StreamReplays \/ StreamChecks \/ FeedOpens \/ FeedStep
    BY <2>6 DEF StreamSubscribes, StreamReplays, StreamChecks, FeedOpens, FeedStep, FeedLists,
                FeedYields, FeedWakes
  <2>7. ASSUME NEW kind \in EventKind, Commit(kind) PROVE client'.seen = client.seen
    BY <2>7 DEF Commit
  <2>8. ASSUME NEW e \in 1..MaxEvents, Publish(e) \/ LosePublication(e)
        PROVE  client'.seen = client.seen
    BY <2>8 DEF Publish, LosePublication
  <2> QED BY <2>1, <2>2, <2>3, <2>4, <2>5, <2>6, <2>7, <2>8
          DEF StreamNext, Writing, Watching, StreamStep
<1> QED BY <1>1, StreamInvariant, PTL DEF StreamSpec, SeenInOrder

\* What is in a queue.
Holds(q, x) == \E i \in 1..Len(q) : q[i] = x

LEMMA HoldsKept ==
    ASSUME NEW s \in Seq(Nat), NEW x \in Nat
    PROVE  /\ ~Holds(<<>>, x) /\ Holds(<<x>>, x)
           /\ \A y \in Nat : Holds(s, x) => Holds(Append(s, y), x)
           /\ Holds(Append(s, x), x)
           /\ s # <<>> /\ Head(s) # x /\ Holds(s, x) => Holds(Tail(s), x)
<1>1. Len(s) \in Nat
  OBVIOUS
<1>2. ~Holds(<<>>, x) /\ Holds(<<x>>, x)
  <2>1. Len(<<>>) = 0 /\ Len(<<x>>) = 1 /\ <<x>>[1] = x
    BY OneLong
  <2> QED BY <2>1 DEF Holds
<1>3. ASSUME NEW y \in Nat, Holds(s, x) PROVE Holds(Append(s, y), x)
  <2> DEFINE t == Append(s, y)
  <2>1. Len(t) = Len(s) + 1 /\ \A i \in 1..Len(s) : t[i] = s[i]
    BY Appended
  <2> HIDE DEF t
  <2>2. Holds(t, x)
    BY <1>1, <1>3, <2>1 DEF Holds
  <2> QED BY <2>2 DEF t
<1>4. Holds(Append(s, x), x)
  <2> DEFINE t == Append(s, x)
  <2>1. Len(t) = Len(s) + 1 /\ t[Len(s) + 1] = x
    BY Appended
  <2> HIDE DEF t
  <2>2. Len(s) + 1 \in 1..Len(t)
    BY <1>1, <2>1
  <2>3. Holds(t, x)
    BY <2>1, <2>2 DEF Holds
  <2> QED BY <2>3 DEF t
<1>5. ASSUME s # <<>>, Head(s) # x, Holds(s, x) PROVE Holds(Tail(s), x)
  <2> DEFINE t == Tail(s)
  <2>1. /\ Len(s) \in Nat \ {0} /\ Len(t) = Len(s) - 1 /\ Head(s) = s[1]
        /\ \A i \in 1..Len(s) - 1 : t[i] = s[i + 1]
    BY <1>5, Rest
  <2> HIDE DEF t
  <2> PICK i \in 1..Len(s) : s[i] = x
    BY <1>5 DEF Holds
  <2>2. i # 1 /\ i \in Nat
    BY <1>5, <2>1
  <2>3. i - 1 \in 1..Len(t) /\ i - 1 \in 1..Len(s) - 1 /\ (i - 1) + 1 = i
    BY <2>1, <2>2
  <2>4. t[i - 1] = x
    BY <2>1, <2>3
  <2>5. Holds(t, x)
    BY <2>3, <2>4 DEF Holds
  <2> QED BY <2>5 DEF t
<1> QED BY <1>2, <1>3, <1>4, <1>5

\* The stream reads its queue, or will when it has sent a gap of the journal.
Listening == stream.pc = "live" \/ (stream.pc = "sending" /\ stream.then = "live")

\* A stream has a subscription, or the overflow error in its queue, and no subscription has
\* lost its stream; and while it listens the terminal event is unpublished, in the queue, or
\* the end of what is being sent.
HeardInv ==
    /\ stream.pc \notin {"off", "subscribing"} => hub.open \/ Holds(hub.queue, Error)
    /\ hub.open => stream.pc \notin {"off", "subscribing"}
    /\ client.state \in {"idle", "failed"} => stream.pc = "off"
    /\ Listening /\ Finished =>
          \/ Len(journal) \in unpublished
          \/ Holds(hub.queue, Len(journal)) \/ Holds(hub.queue, Error)
          \/ stream.pc = "sending" /\ stream.upto = Len(journal)
    /\ stream.pc = "live" /\ Finished => stream.last < Len(journal)
    /\ stream.pc = "sending" => stream.then \in {"replaying", "checking", "live"}

LEMMA HeardInitial == StreamInit => HeardInv
BY DEF StreamInit, HeardInv, Closed, StreamOff, Listening

\* Every step keeps it: a full queue is closed and says so, a publication finds the
\* subscription of whoever listens, and a Task that has finished is not listened to anew.
LEMMA HeardStep == StreamInv /\ HeardInv /\ [StreamNext]_svars => HeardInv'
<1> SUFFICES ASSUME StreamInv, HeardInv, [StreamNext]_svars PROVE HeardInv'
  OBVIOUS
<1>t. /\ journal \in Seq(EventKind)
      /\ unpublished \subseteq DOMAIN journal
      /\ hub \in HubRow
      /\ stream \in StreamRow
      /\ client \in ClientRow
  BY StreamTypes DEF StreamInv
<1>l. /\ Len(journal) \in Nat
      /\ hub.queue \in Seq(Nat) /\ client.buffer \in Seq(Nat) /\ client.seen \in Nat
      /\ unpublished \subseteq 1..Len(journal) /\ unpublished \subseteq Nat
      /\ stream.last \in Nat /\ stream.upto \in Nat
      /\ PageLimit \in Nat \ {0} /\ Error \in Nat
      /\ stream.last <= Len(journal)
      /\ stream.pc = "sending" => stream.last < stream.upto /\ stream.upto <= Len(journal)
  <2>1. MaxEvents \in Nat /\ 0..MaxEvents \subseteq Nat
    BY StreamAssumption
  <2>2. hub.queue \in Seq(0..MaxEvents) /\ client.buffer \in Seq(0..MaxEvents)
    BY <1>t DEF HubRow, ClientRow
  <2>3. hub.queue \in Seq(Nat) /\ client.buffer \in Seq(Nat)
    BY <2>1, <2>2, SeqMonotonic
  <2>4. stream.last <= Len(journal)
        /\ (stream.pc = "sending" => stream.last < stream.upto /\ stream.upto <= Len(journal))
    BY DEF StreamInv, BehindInv
  <2>5. Len(journal) \in Nat /\ unpublished \subseteq 1..Len(journal)
    BY <1>t, LenProperties
  <2> QED BY <1>t, <2>1, <2>3, <2>4, <2>5, StreamAssumption DEF ClientRow, StreamRow, Error
<1>k. ASSUME UNCHANGED <<journal, unpublished, hub, stream, client>> PROVE HeardInv'
  BY <1>k DEF HeardInv, Listening, Finished
<1>o. ASSUME stream' = StreamOff, hub' = Closed PROVE HeardInv'
  BY <1>o DEF HeardInv, Listening, StreamOff, Closed
<1>1. ASSUME NEW kind \in EventKind, Commit(kind) PROVE HeardInv'
  <2>1. /\ Len(journal') = Len(journal) + 1 /\ Len(journal') \in unpublished' /\ ~Finished
        /\ UNCHANGED <<hub, stream, client>>
    BY <1>1, <1>t, Appended DEF Commit
  <2>2. stream'.last < Len(journal')
    BY <1>l, <2>1
  <2> QED BY <2>1, <2>2 DEF HeardInv, Listening
<1>2. ASSUME NEW e \in 1..MaxEvents, Publish(e) PROVE HeardInv'
  <2>0. /\ unpublished' = unpublished \ {e} /\ e \in unpublished /\ hub' = Fanned(e)
        /\ UNCHANGED <<journal, stream, client>>
    BY <1>2 DEF Publish
  <2>1. e \in Nat
    BY <1>l, <2>0
  <2>2. CASE ~hub.open
    <3>1. hub' = hub
      BY <2>0, <2>2 DEF Fanned
    <3>2. Listening => Holds(hub.queue, Error)
      BY <2>2 DEF HeardInv, Listening
    <3> QED BY <2>0, <3>1, <3>2 DEF HeardInv, Listening, Finished
  <2>3. CASE hub.open /\ Len(hub.queue) < Capacity
    <3>1. hub'.open /\ hub'.queue = Append(hub.queue, e)
      BY <1>t, <2>0, <2>3 DEF Fanned, HubRow
    <3>2. /\ Holds(hub.queue, Error) => Holds(hub'.queue, Error)
          /\ Holds(hub.queue, Len(journal)) => Holds(hub'.queue, Len(journal))
          /\ Holds(hub'.queue, e)
      <4> PICK q \in Seq(Nat) : q = hub.queue
        BY <1>l
      <4>1. /\ Holds(q, Error) => Holds(Append(q, e), Error)
            /\ Holds(q, Len(journal)) => Holds(Append(q, e), Len(journal))
            /\ Holds(Append(q, e), e)
        BY <1>l, <2>1, HoldsKept, Zenon
      <4> QED BY <3>1, <4>1
    <3>3. Len(journal) \in unpublished => Len(journal) \in unpublished' \/ Len(journal) = e
      BY <2>0
    <3> QED BY <2>0, <2>3, <3>1, <3>2, <3>3 DEF HeardInv, Listening, Finished
  <2>4. CASE hub.open /\ ~(Len(hub.queue) < Capacity)
    <3>1. ~hub'.open /\ hub'.queue = <<Error>>
      BY <2>0, <2>4 DEF Fanned
    <3>2. Holds(hub'.queue, Error)
      BY <1>l, <3>1, HoldsKept
    <3> QED BY <2>0, <3>1, <3>2 DEF HeardInv, Listening, Finished
  <2> QED BY <2>2, <2>3, <2>4
<1>3. ASSUME NEW e \in 1..MaxEvents, LosePublication(e) PROVE HeardInv'
  <2>1. /\ unpublished' = unpublished \ {e} /\ journal[e] # "final"
        /\ UNCHANGED <<journal, hub, stream, client>>
    BY <1>3 DEF LosePublication
  <2>2. Finished => Len(journal) # e
    BY <2>1 DEF Finished
  <2> QED BY <2>1, <2>2 DEF HeardInv, Listening, Finished
<1>4. CASE ClientSubscribes
  <2>1. /\ stream.pc = "off" /\ stream'.pc = "subscribing" /\ client'.state = "watching"
        /\ hub' = hub
    BY <1>4, <1>t DEF ClientSubscribes, HeardInv, StreamOff, ClientRow
  <2> QED BY <2>1 DEF HeardInv, Listening
<1>5. CASE ClientReceives
  <2>0. client.state = "watching" /\ client.buffer # <<>>
        /\ UNCHANGED <<journal, unpublished, hub, stream>>
    BY <1>5 DEF ClientReceives
  <2>1. CASE Head(client.buffer) = Error
    <3>1. ~CountsOn(client.buffer, client.seen)
      <4>1. CountsOn(client.buffer, client.seen) => Error = client.seen + 1
        BY <1>l, <2>0, <2>1, CountsOnKept
      <4> QED BY <1>l, <4>1 DEF Error
    <3>2. stream.pc = "off"
      BY <3>1 DEF StreamInv, OrderInv
    <3> QED BY <2>0, <3>2 DEF HeardInv, Listening
  <2>2. CASE Head(client.buffer) # Error
    <3>1. client'.state \in {"returned", "watching"}
      BY <1>5, <2>2 DEF ClientReceives
    <3> QED BY <2>0, <3>1 DEF HeardInv, Listening, Finished
  <2> QED BY <2>1, <2>2
<1>6. CASE ConnectionDrops \/ CoreRestarts
  BY <1>6, <1>o DEF ConnectionDrops, CoreRestarts, Disconnected
<1>7. CASE StreamSubscribes
  <2>1. /\ stream.pc = "subscribing" /\ stream'.pc = "replaying" /\ hub'.open
        /\ UNCHANGED client
    BY <1>7, <1>t DEF StreamSubscribes, StreamRow
  <2> QED BY <2>1 DEF HeardInv, Listening
<1>8. CASE StreamReplays
  <2>1. /\ stream.pc = "replaying" /\ stream'.pc \in {"checking", "sending"}
        /\ stream'.pc = "sending" => stream'.then \in {"replaying", "checking"}
        /\ UNCHANGED <<hub, client>>
    BY <1>8, <1>t DEF StreamReplays, StreamRow
  <2> QED BY <2>1 DEF HeardInv, Listening
<1>9. CASE StreamChecks
  <2>1. CASE Finished
    BY <1>9, <1>o, <2>1 DEF StreamChecks
  <2>2. CASE ~Finished
    <3>1. /\ stream.pc = "checking" /\ stream'.pc = "live"
          /\ UNCHANGED <<journal, hub, client>>
      BY <1>9, <1>t, <2>2 DEF StreamChecks, StreamRow
    <3> QED BY <2>2, <3>1 DEF HeardInv, Finished
  <2> QED BY <2>1, <2>2
<1>10. CASE StreamReceives
  <2> DEFINE q == hub.queue
             entry == Head(q)
  <2>0. stream.pc = "live" /\ q # <<>> /\ UNCHANGED <<journal, unpublished>>
    BY <1>10 DEF StreamReceives
  <2>1. entry \in Nat
    BY <1>l, <2>0, Rest
  <2>2. CASE entry = Error
    BY <1>10, <1>o, <2>2 DEF StreamReceives
  <2>3. CASE entry # Error
    <3>1. /\ hub'.open = hub.open /\ hub'.queue = Tail(q)
          /\ \/ stream' = stream /\ entry <= stream.last
             \/ /\ stream' = [pc |-> "sending", last |-> stream.last, upto |-> entry,
                              then |-> "live"]
                /\ ~(entry <= stream.last)
          /\ UNCHANGED client
      BY <1>10, <1>t, <2>3 DEF StreamReceives, FillFrom, HubRow
    <3>q. /\ Holds(q, Error) => Holds(Tail(q), Error)
          /\ Holds(q, Len(journal)) => Holds(Tail(q), Len(journal)) \/ entry = Len(journal)
      <4> PICK r \in Seq(Nat) : r = q
        BY <1>l
      <4>1. /\ Head(r) # Error /\ Holds(r, Error) => Holds(Tail(r), Error)
            /\ Head(r) # Len(journal) /\ Holds(r, Len(journal))
                 => Holds(Tail(r), Len(journal))
        BY <1>l, <2>0, HoldsKept, Zenon
      <4> QED BY <2>3, <4>1
    <3>2. Holds(q, Error) => Holds(hub'.queue, Error)
      BY <3>1, <3>q
    <3>3. Holds(q, Len(journal)) => Holds(hub'.queue, Len(journal)) \/ entry = Len(journal)
      BY <3>1, <3>q
    <3>4. CASE stream' = stream /\ entry <= stream.last
      <4>1. Finished => entry # Len(journal)
        BY <1>l, <2>0, <2>1, <3>4 DEF HeardInv
      <4> HIDE DEF q, entry
      <4>2. Holds(hub.queue, Error) => Holds(hub'.queue, Error)
        BY <3>2 DEF q
      <4>3. Finished /\ Holds(hub.queue, Len(journal)) => Holds(hub'.queue, Len(journal))
        BY <3>3, <4>1 DEF q
      <4> QED BY <2>0, <3>1, <3>4, <4>2, <4>3 DEF HeardInv, Listening, Finished
    <3>5. CASE stream' = [pc |-> "sending", last |-> stream.last, upto |-> entry, then |-> "live"]
      <4> HIDE DEF q, entry
      <4>1. /\ Holds(hub.queue, Error) => Holds(hub'.queue, Error)
            /\ Holds(hub.queue, Len(journal))
                 => Holds(hub'.queue, Len(journal)) \/ stream'.upto = Len(journal)
            /\ stream'.pc = "sending" /\ stream'.then = "live"
        BY <3>2, <3>3, <3>5 DEF q
      <4>2. /\ hub.open \/ Holds(hub.queue, Error)
            /\ Finished => \/ Len(journal) \in unpublished
                           \/ Holds(hub.queue, Len(journal)) \/ Holds(hub.queue, Error)
            /\ client.state \notin {"idle", "failed"}
        BY <2>0 DEF HeardInv, Listening
      <4>3. Finished' = Finished /\ journal' = journal /\ unpublished' = unpublished
            /\ client' = client /\ hub'.open = hub.open
        BY <2>0, <3>1 DEF Finished
      <4> QED BY <4>1, <4>2, <4>3 DEF HeardInv
    <3> QED BY <3>1, <3>4, <3>5
  <2> QED BY <2>2, <2>3
<1>11. CASE StreamSends
  <2>0. stream.pc = "sending" /\ UNCHANGED <<journal, unpublished>>
    BY <1>11 DEF StreamSends
  <2>1. CASE Len(client.buffer) = ClientCapacity
    BY <1>11, <1>o, <2>1 DEF StreamSends, Disconnected
  <2>2. CASE Len(client.buffer) # ClientCapacity
    <3> DEFINE entry == stream.last + 1
    <3>1. client'.state = client.state
      BY <1>11, <1>t, <2>2 DEF StreamSends, ClientRow
    <3>2. CASE journal[entry] = "final"
      BY <1>11, <1>o, <2>2, <3>2 DEF StreamSends
    <3>3. CASE journal[entry] # "final" /\ entry < stream.upto
      <4>1. stream' = [stream EXCEPT !.last = entry] /\ hub' = hub
        BY <1>11, <2>2, <3>3 DEF StreamSends
      <4>2. /\ stream'.pc = "sending" /\ stream'.then = stream.then
            /\ stream'.upto = stream.upto
        BY <1>t, <2>0, <4>1 DEF StreamRow
      <4> QED BY <2>0, <3>1, <4>1, <4>2 DEF HeardInv, Listening, Finished
    <3>4. CASE journal[entry] # "final" /\ ~(entry < stream.upto)
      <4>1. stream' = [StreamOff EXCEPT !.pc = stream.then, !.last = entry] /\ hub' = hub
        BY <1>11, <2>2, <3>4 DEF StreamSends
      <4>2. stream'.pc = stream.then /\ stream'.last = entry
        BY <4>1 DEF StreamOff
      <4>3. entry = stream.upto
        BY <1>l, <2>0, <3>4
      <4>4. Finished => stream.upto < Len(journal)
        BY <1>l, <2>0, <3>4, <4>3 DEF Finished
      <4>5. stream.then \in {"replaying", "checking", "live"}
        BY <2>0 DEF HeardInv
      <4> QED BY <2>0, <3>1, <4>1, <4>2, <4>3, <4>4, <4>5 DEF HeardInv, Listening, Finished
    <3> QED BY <3>2, <3>3, <3>4
  <2> QED BY <2>1, <2>2
<1>12. CASE FeedOpens \/ FeedStep
  BY <1>12, <1>k DEF FeedOpens, FeedStep, FeedLists, FeedYields, FeedWakes
<1>13. CASE UNCHANGED svars
  BY <1>13, <1>k DEF svars
<1> QED
  BY <1>1, <1>2, <1>3, <1>4, <1>5, <1>6, <1>7, <1>8, <1>9, <1>10, <1>11, <1>12, <1>13
  DEF StreamNext, Writing, Watching, StreamStep

\* TaskService.events() and the hub: while a stream waits for a Task that has finished, the
\* terminal event is still to be published, whatever was published late, out of order or never,
\* and however often the queue overflowed; and no subscription outlasts its reader.
THEOREM EndsAreHeard == StreamSpec => []EndIsHeard
<1>1. StreamInv /\ HeardInv => EndIsHeard
  <2> SUFFICES ASSUME StreamInv, HeardInv PROVE EndIsHeard
    OBVIOUS
  <2>1. Len(journal) \in Nat /\ Error \in Nat /\ <<>> \in Seq(Nat)
    BY StreamTypes DEF StreamInv, Error
  <2>2. hub.queue = <<>> => ~Holds(hub.queue, Len(journal)) /\ ~Holds(hub.queue, Error)
    <3>1. \A x \in Nat : ~Holds(<<>>, x)
      BY <2>1, HoldsKept, Zenon
    <3> QED BY <2>1, <3>1
  <2>3. ASSUME stream.pc = "live", hub.queue = <<>>, Finished
        PROVE  Len(journal) \in unpublished
    <3>1. ~Holds(hub.queue, Len(journal)) /\ ~Holds(hub.queue, Error)
      BY <2>2, <2>3
    <3> HIDE <2>2
    <3> QED BY <2>3, <3>1 DEF HeardInv, Listening
  <2>4. hub.open => stream.pc \notin {"off", "subscribing"}
    BY DEF HeardInv
  <2> QED BY <2>3, <2>4 DEF EndIsHeard
<1>2. StreamSpec => []HeardInv
  BY StreamInvariant, HeardInitial, HeardStep, PTL DEF StreamSpec
<1> QED BY <1>1, <1>2, StreamInvariant, PTL

-----------------------------------------------------------------------------
(* ProductTask, for any number of providers, commands and failures *)

\* The schedules and triggers there are, and that one was made from a definition.
Existing == {p \in Provider : provider[p].state \in OnOff}
MadeFrom(p, d) == provider[p].kind = d.kind /\ provider[p].goal = d.goal

\* The definition and its provider agree.
Agreed ==
    \/ def.state = "absent" /\ Existing = {}
    \/ /\ def.state # "absent"
       /\ \E p \in bound :
             /\ bound = {p} /\ Existing \subseteq {p}
             /\ p \in Existing => MadeFrom(p, def) /\ provider[p].state = def.state

Switching == {"read", "switch", "store", "restore"}

\* Which steps a command takes, and which to undo them.
ControlInv ==
    /\ cmd.op = "none" <=> cmd.pc = "idle"
    /\ cmd.op = "create" => IF cmd.undo THEN cmd.pc = "drop"
                            ELSE cmd.pc \in {"define", "provide", "bind", "discard"}
    /\ cmd.op = "update" => /\ cmd.pc \notin {"define", "check", "drop"}
                            /\ (cmd.pc = "revise" => ~cmd.undo)
                            /\ cmd.pc = "revert" => cmd.undo
    /\ cmd.op = "delete" => IF cmd.undo
                            THEN cmd.pc \in {"provide", "bind", "discard"} \cup Switching
                            ELSE cmd.pc \in {"check", "find", "remove", "unbind", "drop"}
    /\ cmd.op = "state" => ~cmd.undo /\ cmd.pc \in Switching

\* What a command has read before it goes on: its records are of a Task that was there.
RecordInv ==
    /\ cmd.op = "create" => cmd.task.state = "active"
    /\ cmd.op = "update" /\ cmd.pc # "revise"
         => cmd.task.state \in OnOff /\ cmd.previous.state \in OnOff
    /\ cmd.op = "delete" /\ cmd.pc # "check" => cmd.task.state \in OnOff
    /\ cmd.pc \in {"remove", "bind", "discard", "switch", "restore"} => cmd.target \in Provider
    /\ repair.pc \in {"bind", "recheck"} => repair.target \in Provider
    /\ def.state = "absent" => bound = {}

\* No bridge races the commands, nothing has died and no rollback has failed.
Calm == repair.pc = "off" /\ ~crashed /\ ~logged

\* What the definition, its binding and the providers look like before each step of a command.
AgreedShape ==
    /\ cmd.pc \in {"idle", "revise", "check"} => Agreed
    /\ cmd.pc \in {"find", "remove"} /\ cmd.op = "delete" => Agreed
    /\ cmd.pc = "read" /\ cmd.op = "state" => Agreed

TaskShape ==
    /\ cmd.pc \in {"find", "remove", "unbind", "drop", "provide", "bind", "discard"}
         => def = cmd.task /\ def.state # "absent"
    /\ cmd.op \in {"update", "delete"} /\ cmd.pc \in Switching
         => def = cmd.task /\ def.state # "absent" /\ cmd.want = def.state
    /\ cmd.op = "update" /\ cmd.pc # "revise"
         => cmd.previous.state = def.state /\ def.state # "absent"

GoneShape ==
    /\ cmd.pc = "define" => def.state = "absent"
    /\ cmd.pc \in {"define", "drop", "provide", "revert"} => Existing = {} /\ bound = {}
    /\ cmd.pc = "unbind" => Existing = {} /\ \E p \in Provider : bound = {p}

FoundShape ==
    /\ cmd.pc \in {"find", "remove"} /\ cmd.op = "update"
         => \/ bound = {} /\ Existing = {}
            \/ \E p \in bound : bound = {p} /\ Existing \subseteq {p}
    /\ cmd.pc = "remove" => cmd.target \in bound

MadeShape ==
    /\ cmd.pc \in {"bind", "discard"}
         => /\ bound = {} /\ Existing = {cmd.target} /\ provider[cmd.target].state = "active"
            /\ MadeFrom(cmd.target, def)
    /\ cmd.pc = "read" /\ cmd.op # "state"
         => \E p \in bound : bound = {p} /\ Existing = {p} /\ MadeFrom(p, def)

SwitchShape ==
    /\ cmd.pc \in {"switch", "store", "restore"}
         => /\ def.state # "absent" /\ bound = {cmd.target} /\ Existing \subseteq {cmd.target}
            /\ (cmd.target \in Existing => MadeFrom(cmd.target, def))
            /\ cmd.op # "state" => cmd.target \in Existing
    /\ cmd.pc = "switch" /\ cmd.op = "state" /\ cmd.target \in Existing
         => provider[cmd.target].state = def.state
    /\ cmd.pc \in {"store", "restore"}
         => /\ cmd.target \in Existing /\ provider[cmd.target].state = cmd.want
            /\ cmd.op = "state" => cmd.prior = def.state

Shape == AgreedShape /\ TaskShape /\ GoneShape /\ FoundShape /\ MadeShape /\ SwitchShape

ProductInv == ProductTypeOK /\ ControlInv /\ RecordInv /\ (Calm => Shape)

ProviderRow == [state : {"absent"} \cup OnOff, kind : Kind, goal : 0..MaxCommands,
                repaired : BOOLEAN]
CmdRow == [op : Op, pc : CmdPc, undo : BOOLEAN, task : Definition, previous : Definition,
           target : {None} \cup Provider, want : OnOff, prior : OnOff]
RepairRow == [pc : RepairPc, task : Definition, target : {None} \cup Provider]

LEMMA ProductTypes ==
    ProductTypeOK <=>
      /\ def \in Definition /\ provider \in [Provider -> ProviderRow] /\ bound \subseteq Provider
      /\ cmd \in CmdRow /\ repair \in RepairRow
      /\ commands \in 0..MaxCommands /\ failures \in 0..MaxFailures
      /\ logged \in BOOLEAN /\ crashed \in BOOLEAN
BY DEF ProductTypeOK, ProviderRow, CmdRow, RepairRow

\* The rows everything begins with.
LEMMA ProductStarts ==
    /\ NoDef \in Definition /\ NoProvider \in ProviderRow
    /\ CmdIdle \in CmdRow /\ CmdIdle.pc = "idle" /\ CmdIdle.op = "none" /\ CmdIdle.undo = FALSE
    /\ RepairIdle \in RepairRow /\ RepairOff \in RepairRow
<1>1. 0 \in 0..MaxCommands
  BY ProductAssumption
<1>2. NoDef \in Definition /\ NoProvider \in ProviderRow
  BY <1>1 DEF NoDef, Definition, NoProvider, ProviderRow, OnOff, Kind
<1>3. CmdIdle \in CmdRow /\ CmdIdle.pc = "idle" /\ CmdIdle.op = "none" /\ CmdIdle.undo = FALSE
  BY <1>2 DEF CmdIdle, CmdRow, Op, CmdPc, OnOff
<1>4. RepairIdle \in RepairRow
  BY <1>2 DEF RepairIdle, RepairRow, RepairPc
<1>5. RepairOff \in RepairRow
  BY <1>4 DEF RepairOff, RepairRow, RepairPc
<1> QED BY <1>2, <1>3, <1>4, <1>5

\* A command is a command wherever its steps, and their failures, take it.
LEMMA CmdMoves ==
    ASSUME cmd \in CmdRow
    PROVE  /\ \A pc \in CmdPc : [cmd EXCEPT !.pc = pc] \in CmdRow
           /\ \A pc \in CmdPc, p \in {None} \cup Provider :
                 [cmd EXCEPT !.pc = pc, !.target = p] \in CmdRow
           /\ AfterRaise(cmd) \in CmdRow /\ AfterRemove \in CmdRow
           /\ cmd.task.state \in OnOff => AfterProvide \in CmdRow
<1>1. \A pc \in CmdPc : [cmd EXCEPT !.pc = pc] \in CmdRow
  BY DEF CmdRow
<1>2. \A pc \in CmdPc, p \in {None} \cup Provider :
         [cmd EXCEPT !.pc = pc, !.target = p] \in CmdRow
  BY DEF CmdRow
<1>3. AfterRaise(cmd) \in CmdRow
  <2>1. \/ AfterRaise(cmd) = CmdIdle
        \/ \E pc \in CmdPc : AfterRaise(cmd) = [cmd EXCEPT !.pc = pc, !.undo = TRUE]
        \/ AfterRaise(cmd) = [cmd EXCEPT !.pc = "revert"]
    BY DEF AfterRaise, CmdPc
  <2>2. \A pc \in CmdPc : [cmd EXCEPT !.pc = pc, !.undo = TRUE] \in CmdRow
    BY DEF CmdRow
  <2> QED BY <1>1, <2>1, <2>2, ProductStarts DEF CmdPc
<1>4. AfterRemove \in CmdRow
  <2>1. AfterRemove \in {[cmd EXCEPT !.pc = "drop"], [cmd EXCEPT !.pc = "provide"],
                         [cmd EXCEPT !.pc = "revert"]}
    BY DEF AfterRemove
  <2> QED BY <1>1, <2>1 DEF CmdPc
<1>5. ASSUME cmd.task.state \in OnOff PROVE AfterProvide \in CmdRow
  <2>1. CASE cmd.op = "create" \/ cmd.task.state = "active"
    BY <2>1, ProductStarts DEF AfterProvide
  <2>2. CASE ~(cmd.op = "create" \/ cmd.task.state = "active")
    <3>1. AfterProvide = [cmd EXCEPT !.pc = "read", !.want = cmd.task.state]
      BY <2>2 DEF AfterProvide
    <3> QED BY <1>5, <3>1 DEF CmdRow, CmdPc
  <2> QED BY <2>1, <2>2
<1> QED BY <1>1, <1>2, <1>3, <1>4, <1>5

LEMMA ProviderMoves ==
    ASSUME provider \in [Provider -> ProviderRow], NEW p \in Provider
    PROVE  /\ Removed(p) \in [Provider -> ProviderRow]
           /\ \A task \in Definition, r \in BOOLEAN : Created(p, task, r) \in [Provider -> ProviderRow]
           /\ \A st \in OnOff : [provider EXCEPT ![p].state = st] \in [Provider -> ProviderRow]
<1>1. [NoProvider EXCEPT !.kind = provider[p].kind] \in ProviderRow
  BY ProductStarts DEF ProviderRow
<1>2. Removed(p) \in [Provider -> ProviderRow]
  BY <1>1 DEF Removed
<1>3. ASSUME NEW task \in Definition, NEW r \in BOOLEAN
      PROVE  Created(p, task, r) \in [Provider -> ProviderRow]
  <2>1. [state |-> "active", kind |-> task.kind, goal |-> task.goal, repaired |-> r]
           \in ProviderRow
    BY DEF ProviderRow, Definition, OnOff
  <2> QED BY <2>1 DEF Created
<1>4. ASSUME NEW st \in OnOff PROVE [provider EXCEPT ![p].state = st] \in [Provider -> ProviderRow]
  <2>1. [provider[p] EXCEPT !.state = st] \in ProviderRow
    BY DEF ProviderRow
  <2> QED BY <2>1
<1> QED BY <1>2, <1>3, <1>4

\* The types are kept, whatever a command, its failures and the bridge do.
LEMMA ProductTypeStep ==
    ASSUME ProductTypeOK, ControlInv, RecordInv, [ProductNext]_pvars
    PROVE  ProductTypeOK'
<1>t. /\ def \in Definition /\ provider \in [Provider -> ProviderRow] /\ bound \subseteq Provider
      /\ cmd \in CmdRow /\ repair \in RepairRow
      /\ commands \in 0..MaxCommands /\ failures \in 0..MaxFailures
      /\ logged \in BOOLEAN /\ crashed \in BOOLEAN
  BY ProductTypes
<1> DEFINE T ==
      /\ def' \in Definition /\ provider' \in [Provider -> ProviderRow] /\ bound' \subseteq Provider
      /\ cmd' \in CmdRow /\ repair' \in RepairRow
      /\ commands' \in 0..MaxCommands /\ failures' \in 0..MaxFailures
      /\ logged' \in BOOLEAN /\ crashed' \in BOOLEAN
<1>q. T => ProductTypeOK'
  BY DEF ProductTypeOK, ProviderRow, CmdRow, RepairRow
<1>c. cmd.target \in {None} \cup Provider /\ cmd.task \in Definition /\ cmd.previous \in Definition
      /\ cmd.want \in OnOff /\ cmd.prior \in OnOff /\ cmd.undo \in BOOLEAN
      /\ repair.target \in {None} \cup Provider /\ repair.task \in Definition
  BY <1>t DEF CmdRow, RepairRow
<1>g. ASSUME NEW pc \in CmdPc, GoCmd(pc) PROVE cmd' \in CmdRow
  BY <1>g, <1>t, CmdMoves DEF GoCmd
<1>r. Raises => cmd' \in CmdRow /\ logged' \in BOOLEAN
  BY <1>t, <1>c, CmdMoves DEF Raises
<1>f. failures' = failures + 1 /\ failures < MaxFailures => failures' \in 0..MaxFailures
  BY <1>t, ProductAssumption
<1>u. Unused \subseteq Provider
  BY DEF Unused
<1>p. \A pc \in RepairPc : [repair EXCEPT !.pc = pc] \in RepairRow
  BY <1>t DEF RepairRow
<1>1. ASSUME NEW c \in CmdRow, Asks(c) PROVE ProductTypeOK'
  <2>1. commands' \in 0..MaxCommands
    BY <1>1, <1>t, ProductAssumption DEF Asks
  <2> QED BY <1>1, <1>t, <1>q, <2>1 DEF Asks
<1>2. ASSUME NEW kind \in Kind, AskCreate(kind) PROVE ProductTypeOK'
  <2> DEFINE c == [CmdIdle EXCEPT !.op = "create", !.pc = "define",
                            !.task = [state |-> "active", kind |-> kind, goal |-> 0]]
  <2>1. c \in CmdRow
    <3>1. [state |-> "active", kind |-> kind, goal |-> 0] \in Definition
      BY ProductAssumption DEF Definition, OnOff
    <3> QED BY <3>1, ProductStarts DEF CmdRow, Op, CmdPc
  <2>2. Asks(c)
    BY <1>2 DEF AskCreate
  <2> HIDE DEF c
  <2> QED BY <1>1, <2>1, <2>2
<1>3. ASSUME NEW kind \in Kind, AskUpdate(kind) PROVE ProductTypeOK'
  <2> DEFINE c == [CmdIdle EXCEPT !.op = "update", !.pc = "revise",
                         !.task = [NoDef EXCEPT !.kind = kind, !.goal = commands]]
  <2>1. c \in CmdRow
    <3>1. [NoDef EXCEPT !.kind = kind, !.goal = commands] \in Definition
      BY <1>t, ProductStarts DEF Definition
    <3> QED BY <3>1, ProductStarts DEF CmdRow, Op, CmdPc
  <2>2. Asks(c)
    BY <1>3 DEF AskUpdate
  <2> HIDE DEF c
  <2> QED BY <1>1, <2>1, <2>2
<1>4. CASE AskDelete
  <2> DEFINE c == [CmdIdle EXCEPT !.op = "delete", !.pc = "check"]
  <2>1. c \in CmdRow /\ Asks(c)
    BY <1>4, ProductStarts DEF CmdRow, Op, CmdPc, AskDelete
  <2> HIDE DEF c
  <2> QED BY <1>1, <2>1
<1>5. ASSUME NEW want \in OnOff, AskState(want) PROVE ProductTypeOK'
  <2> DEFINE c == [CmdIdle EXCEPT !.op = "state", !.pc = "read", !.want = want]
  <2>1. c \in CmdRow /\ Asks(c)
    BY <1>5, ProductStarts DEF CmdRow, Op, CmdPc, AskState
  <2> HIDE DEF c
  <2> QED BY <1>1, <2>1
<1>6. CASE CmdStepFails
  <2>1. cmd' \in CmdRow /\ logged' \in BOOLEAN
    <3>1. \/ GoCmd("discard") /\ UNCHANGED logged
          \/ GoCmd("restore") /\ UNCHANGED logged
          \/ cmd' = AfterRaise(cmd) /\ logged' = TRUE
          \/ Raises
      BY <1>6 DEF CmdStepFails
    <3> QED BY <1>t, <1>g, <1>r, <3>1, CmdMoves DEF CmdPc
  <2> QED BY <1>6, <1>t, <1>f, <1>q, <2>1 DEF CmdStepFails
<1>7. CASE Define
  <2>1. cmd' \in CmdRow
    BY <1>7, <1>g DEF Define, CmdPc
  <2> QED BY <1>7, <1>t, <1>c, <1>q, <2>1 DEF Define
<1>8. CASE Revise
  <2> DEFINE new == [cmd.task EXCEPT !.state = def.state]
  <2>1. new \in Definition
    BY <1>t, <1>c DEF Definition
  <2>2. \/ cmd' = CmdIdle /\ def' = def
        \/ def' = new /\ cmd' = [cmd EXCEPT !.pc = "find", !.task = new, !.previous = def]
    BY <1>8 DEF Revise
  <2> HIDE DEF new
  <2>3. [cmd EXCEPT !.pc = "find", !.task = new, !.previous = def] \in CmdRow
    BY <1>t, <2>1 DEF CmdRow, CmdPc
  <2>4. cmd' \in CmdRow /\ def' \in Definition
    BY <1>t, <2>1, <2>2, <2>3, ProductStarts
  <2> QED BY <1>8, <1>t, <1>q, <2>4 DEF Revise
<1>9. ASSUME NEW x \in BOOLEAN, CheckIdle(x) PROVE ProductTypeOK'
  <2>1. cmd' \in CmdRow
    <3>1. [cmd EXCEPT !.pc = "find", !.task = def] \in CmdRow
      BY <1>t DEF CmdRow, CmdPc
    <3> QED BY <1>9, <3>1, ProductStarts DEF CheckIdle
  <2> QED BY <1>9, <1>t, <1>q, <2>1 DEF CheckIdle
<1>10. ASSUME NEW x \in BOOLEAN, Drop(x) PROVE ProductTypeOK'
  <2>1. /\ cmd' \in CmdRow /\ logged' \in BOOLEAN /\ def' \in Definition /\ bound' \subseteq Provider
    BY <1>10, <1>t, <1>r, ProductStarts DEF Drop
  <2> QED BY <1>10, <1>t, <1>q, <2>1 DEF Drop
<1>11. CASE FindProvider
  <2>1. cmd' \in CmdRow
    BY ZenonT(30), <1>11, <1>t, CmdMoves DEF FindProvider, CmdPc
  <2> QED BY <1>11, <1>t, <1>q, <2>1 DEF FindProvider
<1>12. CASE RemoveProvider
  <2>1. cmd' \in CmdRow /\ provider' \in [Provider -> ProviderRow]
    BY <1>12, <1>t, <1>g, ProviderMoves DEF RemoveProvider, CmdPc, RecordInv, Step
  <2> QED BY <1>12, <1>t, <1>q, <2>1 DEF RemoveProvider
<1>13. CASE Unbind
  <2>1. cmd' \in CmdRow /\ bound' \subseteq Provider
    BY <1>13, <1>t, CmdMoves DEF Unbind
  <2> QED BY <1>13, <1>t, <1>q, <2>1 DEF Unbind
<1>14. CASE Provide
  <2>1. PICK p \in Unused : /\ provider' = Created(p, cmd.task, FALSE)
                            /\ cmd' = [cmd EXCEPT !.pc = "bind", !.target = p]
    BY <1>14 DEF Provide
  <2>2. p \in Provider
    BY <1>u
  <2>3. cmd' \in CmdRow
    BY <1>t, <2>1, <2>2 DEF CmdRow, CmdPc
  <2>4. provider' \in [Provider -> ProviderRow]
    BY <1>t, <1>c, <2>1, <2>2, ProviderMoves
  <2> QED BY <1>14, <1>t, <1>q, <2>3, <2>4 DEF Provide
<1>15. CASE Bind
  <2>1. cmd.target \in Provider
    BY <1>15 DEF Bind, Step, RecordInv
  <2>2. cmd.task.state \in OnOff
    BY <1>15, <1>t DEF Bind, Step, RecordInv, ControlInv, CmdRow, Op, OnOff, Switching
  <2>3. cmd' \in CmdRow /\ bound' \subseteq Provider
    BY <1>15, <1>t, <1>g, <2>1, <2>2, CmdMoves DEF Bind, CmdPc
  <2> QED BY <1>15, <1>t, <1>q, <2>3 DEF Bind
<1>16. CASE Discard
  <2>1. provider' \in [Provider -> ProviderRow]
    BY <1>16, <1>t, ProviderMoves DEF Discard, Step, RecordInv
  <2> QED BY <1>16, <1>t, <1>q, <1>r, <2>1 DEF Discard
<1>17. CASE ReadBinding
  <2>1. cmd' \in CmdRow /\ logged' \in BOOLEAN
    BY ZenonT(30), <1>17, <1>t, <1>r, CmdMoves DEF ReadBinding, CmdPc
  <2> QED BY <1>17, <1>t, <1>q, <2>1 DEF ReadBinding
<1>18. CASE Switch
  <2>1. cmd.target \in Provider
    BY <1>18 DEF Switch, Step, RecordInv
  <2>2. CASE ~Exists(cmd.target)
    BY <1>18, <1>t, <1>q, <1>r, <2>2 DEF Switch
  <2>3. CASE Exists(cmd.target)
    <3>1. provider[cmd.target].state \in OnOff
      BY <2>3 DEF Exists
    <3>2. cmd' = [cmd EXCEPT !.pc = "store", !.prior = provider[cmd.target].state]
          /\ provider' = [provider EXCEPT ![cmd.target].state = cmd.want]
          /\ UNCHANGED <<def, bound, repair, commands, failures, crashed, logged>>
      BY <1>18, <2>3 DEF Switch
    <3>3. cmd' \in CmdRow
      BY <1>t, <3>1, <3>2 DEF CmdRow, CmdPc
    <3>4. provider' \in [Provider -> ProviderRow]
      BY <1>t, <1>c, <2>1, <3>2, ProviderMoves
    <3> QED BY <1>t, <1>q, <3>2, <3>3, <3>4
  <2> QED BY <2>2, <2>3
<1>19. CASE Store
  <2>1. [def EXCEPT !.state = cmd.want] \in Definition
    BY <1>t, <1>c DEF Definition
  <2>2. cmd' \in CmdRow /\ logged' \in BOOLEAN /\ def' \in Definition
    BY <1>19, <1>t, <1>g, <1>r, <2>1, ProductStarts DEF Store, CmdPc
  <2> QED BY <1>19, <1>t, <1>q, <2>2 DEF Store
<1>20. CASE Restore
  <2>1. provider' \in [Provider -> ProviderRow]
    BY <1>20, <1>t, <1>c, ProviderMoves DEF Restore, Restored, Step, RecordInv
  <2> QED BY <1>20, <1>t, <1>q, <1>r, <2>1 DEF Restore
<1>21. CASE Revert
  <2>1. [cmd.previous EXCEPT !.state = def.state] \in Definition
    BY <1>t, <1>c DEF Definition
  <2>2. [cmd EXCEPT !.pc = "provide", !.task = cmd.previous] \in CmdRow
    BY <1>t, <1>c DEF CmdRow, CmdPc
  <2>3. cmd' \in CmdRow /\ def' \in Definition
    BY <1>21, <1>t, <2>1, <2>2, ProductStarts DEF Revert
  <2> QED BY <1>21, <1>t, <1>q, <2>3 DEF Revert
<1>22. CASE RepairStarts
  <2>1. [RepairIdle EXCEPT !.pc = "find", !.task = def] \in RepairRow
    BY <1>t, ProductStarts DEF RepairRow, RepairPc
  <2> QED BY <1>22, <1>t, <1>q, <2>1 DEF RepairStarts
<1>23. CASE RepairFinds
  <2>1. repair' \in RepairRow
    BY <1>23, <1>p, ProductStarts DEF RepairFinds, GoRepair, RepairPc
  <2> QED BY <1>23, <1>t, <1>q, <2>1 DEF RepairFinds
<1>24. CASE RepairUnbinds
  <2>1. repair' \in RepairRow /\ bound' \subseteq Provider
    BY <1>24, <1>p, ProductStarts DEF RepairUnbinds, GoRepair, RepairPc
  <2> QED BY <1>24, <1>t, <1>q, <2>1 DEF RepairUnbinds
<1>25. CASE RepairProvides
  <2>1. \A p \in Provider : [repair EXCEPT !.pc = "bind", !.target = p] \in RepairRow
    BY <1>t DEF RepairRow, RepairPc
  <2>2. repair' \in RepairRow
    BY <1>25, <1>u, <2>1, ProductStarts DEF RepairProvides
  <2>3. provider' \in [Provider -> ProviderRow]
    <3>1. ASSUME NEW p \in Unused, provider' = Created(p, repair.task, TRUE)
          PROVE  provider' \in [Provider -> ProviderRow]
      BY <1>t, <1>c, <1>u, <3>1, ProviderMoves
    <3> QED BY <1>25, <1>t, <3>1 DEF RepairProvides
  <2> QED BY <1>25, <1>t, <1>q, <2>2, <2>3 DEF RepairProvides
<1>26. CASE RepairBinds
  <2>1. repair' \in RepairRow /\ bound' \subseteq Provider
    BY <1>26, <1>t, <1>p, ProductStarts
       DEF RepairBinds, GoRepair, RepairPc, RecordInv, RepairAt
  <2> QED BY <1>26, <1>t, <1>q, <2>1 DEF RepairBinds
<1>27. CASE RepairRechecks
  <2>1. repair' \in RepairRow /\ provider' \in [Provider -> ProviderRow]
    BY <1>27, <1>t, ProviderMoves, ProductStarts DEF RepairRechecks, RecordInv, RepairAt
  <2> QED BY <1>27, <1>t, <1>q, <2>1 DEF RepairRechecks
<1>28. CASE RepairFails
  <2>1. repair' \in RepairRow
    BY <1>28, <1>p, ProductStarts DEF RepairFails, GoRepair, RepairPc
  <2> QED BY <1>28, <1>t, <1>f, <1>q, <2>1 DEF RepairFails
<1>29. CASE ProductCrash
  <2>1. repair' \in RepairRow /\ cmd' \in CmdRow
    BY <1>29, <1>t, ProductStarts DEF ProductCrash
  <2> QED BY <1>29, <1>t, <1>f, <1>q, <2>1 DEF ProductCrash
<1>30. CASE UNCHANGED pvars
  BY <1>30, <1>t, <1>q DEF pvars
<1> QED
  BY <1>2, <1>3, <1>4, <1>5, <1>6, <1>7, <1>8, <1>9, <1>10, <1>11, <1>12, <1>13, <1>14, <1>15,
     <1>16, <1>17, <1>18, <1>19, <1>20, <1>21, <1>22, <1>23, <1>24, <1>25, <1>26, <1>27, <1>28,
     <1>29, <1>30
  DEF ProductNext, Asking, CmdStep, RepairStep

\* Where a failure takes a command.
LEMMA RaisedTo ==
    ASSUME cmd \in CmdRow, ControlInv
    PROVE  \/ AfterRaise(cmd) = CmdIdle
           \/ /\ cmd.op = "create" /\ cmd.pc # "define" /\ ~cmd.undo
              /\ AfterRaise(cmd) = [cmd EXCEPT !.pc = "drop", !.undo = TRUE]
           \/ /\ cmd.op = "update" /\ cmd.pc # "revise" /\ ~cmd.undo
              /\ AfterRaise(cmd) = [cmd EXCEPT !.pc = "find", !.undo = TRUE]
           \/ /\ cmd.op = "update" /\ cmd.undo /\ cmd.pc \in {"find", "remove", "unbind"}
              /\ AfterRaise(cmd) = [cmd EXCEPT !.pc = "revert"]
           \/ /\ cmd.op = "delete" /\ cmd.pc = "drop" /\ ~cmd.undo
              /\ AfterRaise(cmd) = [cmd EXCEPT !.pc = "provide", !.undo = TRUE]
BY DEF AfterRaise

\* The steps of a command follow each other.
LEMMA ProductControlStep ==
    ASSUME ProductTypeOK, ControlInv, [ProductNext]_pvars
    PROVE  ControlInv'
<1>t. cmd \in CmdRow
  BY ProductTypes
<1>i. cmd' = CmdIdle => ControlInv'
  BY ProductStarts DEF ControlInv
<1>k. UNCHANGED cmd => ControlInv'
  BY DEF ControlInv
<1>e. \A pc \in CmdPc : LET c == [cmd EXCEPT !.pc = pc]
                        IN  c.op = cmd.op /\ c.undo = cmd.undo /\ c.pc = pc
  BY <1>t DEF CmdRow
<1>r. cmd' = AfterRaise(cmd) => ControlInv'
  <2> SUFFICES ASSUME cmd' = AfterRaise(cmd) PROVE ControlInv'
    OBVIOUS
  <2>1. CASE AfterRaise(cmd) = CmdIdle
    BY <1>i, <2>1
  <2>2. CASE /\ cmd.op = "create" /\ cmd.pc # "define" /\ ~cmd.undo
             /\ AfterRaise(cmd) = [cmd EXCEPT !.pc = "drop", !.undo = TRUE]
    BY <1>t, <2>2 DEF ControlInv, CmdRow
  <2>3. CASE /\ cmd.op = "update" /\ cmd.pc # "revise" /\ ~cmd.undo
             /\ AfterRaise(cmd) = [cmd EXCEPT !.pc = "find", !.undo = TRUE]
    BY <1>t, <2>3 DEF ControlInv, CmdRow
  <2>4. CASE /\ cmd.op = "update" /\ cmd.undo /\ cmd.pc \in {"find", "remove", "unbind"}
             /\ AfterRaise(cmd) = [cmd EXCEPT !.pc = "revert"]
    BY <1>t, <2>4 DEF ControlInv, CmdRow
  <2>5. CASE /\ cmd.op = "delete" /\ cmd.pc = "drop" /\ ~cmd.undo
             /\ AfterRaise(cmd) = [cmd EXCEPT !.pc = "provide", !.undo = TRUE]
    BY <1>t, <2>5 DEF ControlInv, CmdRow
  <2> QED BY <1>t, <2>1, <2>2, <2>3, <2>4, <2>5, RaisedTo
<1>s. Raises => ControlInv'
  BY <1>r DEF Raises
<1>m. ASSUME NEW pc \in CmdPc, cmd'.op = cmd.op, cmd'.undo = cmd.undo, cmd'.pc = pc,
             \/ cmd.pc = "define" /\ pc = "provide"
             \/ cmd.pc = "revise" /\ pc = "find"
             \/ cmd.pc = "check" /\ pc = "find"
             \/ cmd.pc = "find" /\ pc = "remove"
             \/ cmd.pc = "remove" /\ pc = "unbind"
             \/ cmd.pc = "provide" /\ pc = "bind"
             \/ cmd.pc = "bind" /\ pc = "discard"
             \/ cmd.pc = "bind" /\ pc = "read" /\ cmd.op # "create"
             \/ cmd.pc = "read" /\ pc \in {"switch", "store"}
             \/ cmd.pc = "switch" /\ pc = "store"
             \/ cmd.pc = "store" /\ pc = "restore"
             \/ cmd.pc = "revert" /\ pc = "provide"
             \/ cmd.pc \in {"find", "unbind"} /\ cmd.op = "delete" /\ pc = "drop"
             \/ cmd.pc \in {"find", "unbind"} /\ cmd.op = "update" /\ ~cmd.undo /\ pc = "provide"
             \/ cmd.pc \in {"find", "unbind"} /\ cmd.op = "update" /\ cmd.undo /\ pc = "revert"
      PROVE  ControlInv'
  BY <1>t, <1>m DEF ControlInv, CmdRow, Op, CmdPc, Switching
<1>g. ASSUME NEW pc \in CmdPc, GoCmd(pc)
      PROVE  cmd'.op = cmd.op /\ cmd'.undo = cmd.undo /\ cmd'.pc = pc
  BY <1>g, <1>t DEF GoCmd, CmdRow
<1>a. ASSUME cmd' = AfterRemove, cmd.pc \in {"find", "unbind"} PROVE ControlInv'
  <2>1. CASE cmd.op = "delete"
    <3>1. cmd' = [cmd EXCEPT !.pc = "drop"]
      BY <1>a, <2>1 DEF AfterRemove
    <3> QED BY <1>a, <1>m, <1>t, <2>1, <3>1 DEF CmdRow, CmdPc
  <2>2. CASE cmd.op = "update" /\ ~cmd.undo
    <3>1. cmd' = [cmd EXCEPT !.pc = "provide"]
      BY <1>a, <2>2 DEF AfterRemove
    <3> QED BY <1>a, <1>m, <1>t, <2>2, <3>1 DEF CmdRow, CmdPc
  <2>3. CASE cmd.op = "update" /\ cmd.undo
    <3>1. cmd' = [cmd EXCEPT !.pc = "revert"]
      BY <1>a, <2>3 DEF AfterRemove
    <3> QED BY <1>a, <1>m, <1>t, <2>3, <3>1 DEF CmdRow, CmdPc
  <2>4. cmd.op \in {"delete", "update"}
    BY <1>a, <1>t DEF ControlInv, CmdRow, Op, Switching
  <2> QED BY <1>t, <2>1, <2>2, <2>3, <2>4 DEF CmdRow
<1>p. ASSUME cmd' = AfterProvide, cmd.pc = "bind" PROVE ControlInv'
  <2>1. CASE cmd.op = "create" \/ cmd.task.state = "active"
    BY <1>p, <1>i, <2>1 DEF AfterProvide
  <2>2. CASE ~(cmd.op = "create" \/ cmd.task.state = "active")
    <3>1. cmd' = [cmd EXCEPT !.pc = "read", !.want = cmd.task.state]
      BY <1>p, <2>2 DEF AfterProvide
    <3>2. cmd'.op = cmd.op /\ cmd'.undo = cmd.undo /\ cmd'.pc = "read"
      BY <1>t, <3>1 DEF CmdRow
    <3> QED BY <1>p, <1>m, <2>2, <3>2 DEF CmdPc
  <2> QED BY <2>1, <2>2
<1>1. CASE Asking
  <2>1. cmd'.op = "create" /\ cmd'.pc = "define" /\ cmd'.undo = FALSE => ControlInv'
    BY DEF ControlInv
  <2>2. cmd'.op = "update" /\ cmd'.pc = "revise" /\ cmd'.undo = FALSE => ControlInv'
    BY DEF ControlInv
  <2>3. cmd'.op = "delete" /\ cmd'.pc = "check" /\ cmd'.undo = FALSE => ControlInv'
    BY DEF ControlInv
  <2>4. cmd'.op = "state" /\ cmd'.pc = "read" /\ cmd'.undo = FALSE => ControlInv'
    BY DEF ControlInv, Switching
  <2> QED BY <1>1, <2>1, <2>2, <2>3, <2>4
          DEF Asking, AskCreate, AskUpdate, AskDelete, AskState, Asks, CmdIdle
<1>2. CASE CmdStepFails
  <2>1. \/ cmd.pc = "bind" /\ GoCmd("discard")
        \/ cmd.pc = "store" /\ GoCmd("restore")
        \/ cmd' = AfterRaise(cmd)
    BY <1>2 DEF CmdStepFails, Step, Raises
  <2> QED BY <1>g, <1>m, <1>r, <2>1 DEF CmdPc
<1>3. CASE Define
  BY <1>3, <1>g, <1>m DEF Define, Step, CmdPc
<1>4. CASE Revise
  <2>1. cmd.pc = "revise"
    BY <1>4 DEF Revise, Step
  <2>2. \/ cmd' = CmdIdle
        \/ cmd'.op = cmd.op /\ cmd'.undo = cmd.undo /\ cmd'.pc = "find"
    BY <1>4, <1>t DEF Revise, CmdRow
  <2> QED BY <1>i, <1>m, <2>1, <2>2 DEF CmdPc
<1>5. ASSUME NEW x \in BOOLEAN, CheckIdle(x) PROVE ControlInv'
  <2>1. cmd.pc = "check"
    BY <1>5 DEF CheckIdle, Step
  <2>2. \/ cmd' = CmdIdle
        \/ cmd'.op = cmd.op /\ cmd'.undo = cmd.undo /\ cmd'.pc = "find"
    BY <1>5, <1>t DEF CheckIdle, CmdRow
  <2> QED BY <1>i, <1>m, <2>1, <2>2 DEF CmdPc
<1>6. ASSUME NEW x \in BOOLEAN, Drop(x) PROVE ControlInv'
  BY <1>6, <1>i, <1>s DEF Drop
<1>7. CASE FindProvider
  <2>1. cmd.pc = "find"
    BY <1>7 DEF FindProvider, Step
  <2>2. \/ cmd' = AfterRemove
        \/ cmd'.op = cmd.op /\ cmd'.undo = cmd.undo /\ cmd'.pc = "remove"
    BY <1>7, <1>t DEF FindProvider, CmdRow
  <2> QED BY <1>a, <1>m, <2>1, <2>2 DEF CmdPc
<1>8. CASE RemoveProvider
  BY <1>8, <1>g, <1>m DEF RemoveProvider, Step, CmdPc
<1>9. CASE Unbind
  BY <1>9, <1>a DEF Unbind, Step
<1>10. CASE Provide
  <2>1. cmd.pc = "provide" /\ cmd'.op = cmd.op /\ cmd'.undo = cmd.undo /\ cmd'.pc = "bind"
    BY <1>10, <1>t DEF Provide, Step, CmdRow
  <2> QED BY <1>m, <2>1 DEF CmdPc
<1>11. CASE Bind
  BY <1>11, <1>g, <1>m, <1>p DEF Bind, Step, CmdPc
<1>12. CASE Discard \/ Restore
  BY <1>12, <1>s DEF Discard, Restore
<1>13. CASE ReadBinding
  <2>1. cmd.pc = "read"
    BY <1>13 DEF ReadBinding, Step
  <2>2. \/ Raises
        \/ cmd'.op = cmd.op /\ cmd'.undo = cmd.undo /\ cmd'.pc \in {"store", "switch"}
    BY <1>13, <1>t DEF ReadBinding, CmdRow
  <2> QED BY <1>s, <1>m, <2>1, <2>2 DEF CmdPc
<1>14. CASE Switch
  <2>1. cmd.pc = "switch"
    BY <1>14 DEF Switch, Step
  <2>2. \/ Raises
        \/ cmd'.op = cmd.op /\ cmd'.undo = cmd.undo /\ cmd'.pc = "store"
    BY <1>14, <1>t DEF Switch, CmdRow
  <2> QED BY <1>s, <1>m, <2>1, <2>2 DEF CmdPc
<1>15. CASE Store
  <2>1. cmd.pc = "store" /\ (GoCmd("restore") \/ Raises \/ cmd' = CmdIdle)
    BY <1>15 DEF Store, Step
  <2> QED BY <1>i, <1>s, <1>g, <1>m, <2>1 DEF CmdPc
<1>16. CASE Revert
  <2>1. cmd.pc = "revert"
    BY <1>16 DEF Revert, Step
  <2>2. \/ cmd' = CmdIdle
        \/ cmd'.op = cmd.op /\ cmd'.undo = cmd.undo /\ cmd'.pc = "provide"
    BY <1>16, <1>t DEF Revert, CmdRow
  <2> QED BY <1>i, <1>m, <2>1, <2>2 DEF CmdPc
<1>17. CASE RepairStep \/ RepairFails
  BY <1>17, <1>k DEF RepairStep, RepairStarts, RepairFinds, RepairUnbinds, RepairProvides,
                     RepairBinds, RepairRechecks, RepairFails
<1>18. CASE ProductCrash
  BY <1>18, <1>i DEF ProductCrash
<1>19. CASE UNCHANGED pvars
  BY <1>19, <1>k DEF pvars
<1> QED
  BY <1>1, <1>2, <1>3, <1>4, <1>5, <1>6, <1>7, <1>8, <1>9, <1>10, <1>11, <1>12, <1>13, <1>14,
     <1>15, <1>16, <1>17, <1>18, <1>19
  DEF ProductNext, CmdStep

\* What a command has read stays with it.
LEMMA ProductRecordStep ==
    ASSUME ProductTypeOK, ControlInv, RecordInv, [ProductNext]_pvars
    PROVE  RecordInv'
<1>t. /\ def \in Definition /\ bound \subseteq Provider
      /\ cmd \in CmdRow /\ repair \in RepairRow
  BY ProductTypes
<1> DEFINE Command ==
      /\ cmd.op = "create" => cmd.task.state = "active"
      /\ cmd.op = "update" /\ cmd.pc # "revise"
           => cmd.task.state \in OnOff /\ cmd.previous.state \in OnOff
      /\ cmd.op = "delete" /\ cmd.pc # "check" => cmd.task.state \in OnOff
      /\ cmd.pc \in {"remove", "bind", "discard", "switch", "restore"} => cmd.target \in Provider
           Bridge == repair.pc \in {"bind", "recheck"} => repair.target \in Provider
           Unbound == def.state = "absent" => bound = {}
<1>b. Command /\ Bridge /\ Unbound
  BY DEF RecordInv
<1>q. Command' /\ Bridge' /\ Unbound' => RecordInv'
  BY DEF RecordInv
<1>kc. UNCHANGED cmd => Command'
  BY <1>b
<1>kb. UNCHANGED repair => Bridge'
  BY <1>b
<1>ku. UNCHANGED <<def, bound>> => Unbound'
  BY <1>b
<1>i. cmd' = CmdIdle => Command'
  BY ProductStarts
<1>m. ASSUME cmd'.op = cmd.op, cmd'.task = cmd.task, cmd'.previous = cmd.previous,
             cmd.pc \notin {"revise", "check"},
             cmd'.pc \in {"remove", "bind", "discard", "switch", "restore"}
               => cmd'.target \in Provider
      PROVE  Command'
  BY <1>m, <1>b
<1>r. cmd' = AfterRaise(cmd) => Command'
  <2> SUFFICES ASSUME cmd' = AfterRaise(cmd) PROVE Command'
    OBVIOUS
  <2>1. CASE AfterRaise(cmd) = CmdIdle
    BY <1>i, <2>1
  <2>2. CASE \E pc \in {"drop", "find", "provide"} :
               /\ AfterRaise(cmd) = [cmd EXCEPT !.pc = pc, !.undo = TRUE]
               /\ cmd.pc \notin {"revise", "check"}
    <3>1. /\ cmd'.op = cmd.op /\ cmd'.task = cmd.task /\ cmd'.previous = cmd.previous
          /\ cmd'.pc \in {"drop", "find", "provide"} /\ cmd.pc \notin {"revise", "check"}
      BY <1>t, <2>2 DEF CmdRow
    <3> QED BY <1>m, <3>1
  <2>3. CASE AfterRaise(cmd) = [cmd EXCEPT !.pc = "revert"]
             /\ cmd.pc \in {"find", "remove", "unbind"}
    <3>1. /\ cmd'.op = cmd.op /\ cmd'.task = cmd.task /\ cmd'.previous = cmd.previous
          /\ cmd'.pc = "revert" /\ cmd.pc \notin {"revise", "check"}
      BY <1>t, <2>3 DEF CmdRow
    <3> QED BY <1>m, <3>1
  <2>4. \/ AfterRaise(cmd) = CmdIdle
        \/ \E pc \in {"drop", "find", "provide"} :
             /\ AfterRaise(cmd) = [cmd EXCEPT !.pc = pc, !.undo = TRUE]
             /\ cmd.pc \notin {"revise", "check"}
        \/ AfterRaise(cmd) = [cmd EXCEPT !.pc = "revert"] /\ cmd.pc \in {"find", "remove", "unbind"}
    BY <1>t, RaisedTo DEF ControlInv, CmdRow
  <2> QED BY <2>1, <2>2, <2>3, <2>4
<1>s. Raises => Command'
  BY <1>r DEF Raises
<1>g. ASSUME NEW pc \in CmdPc, GoCmd(pc), cmd.pc \notin {"revise", "check"},
             pc \in {"remove", "bind", "discard", "switch", "restore"} => cmd.target \in Provider
      PROVE  Command'
  <2>1. /\ cmd'.op = cmd.op /\ cmd'.task = cmd.task /\ cmd'.previous = cmd.previous
        /\ cmd'.pc = pc /\ cmd'.target = cmd.target
    BY <1>g, <1>t DEF GoCmd, CmdRow
  <2> QED BY <1>g, <1>m, <2>1
<1>a. ASSUME cmd' = AfterRemove, cmd.pc \notin {"revise", "check"} PROVE Command'
  <2>1. cmd' \in {[cmd EXCEPT !.pc = "drop"], [cmd EXCEPT !.pc = "provide"],
                  [cmd EXCEPT !.pc = "revert"]}
    BY <1>a DEF AfterRemove
  <2>2. /\ cmd'.op = cmd.op /\ cmd'.task = cmd.task /\ cmd'.previous = cmd.previous
        /\ cmd'.pc \in {"drop", "provide", "revert"}
    BY <1>t, <2>1 DEF CmdRow
  <2> QED BY <1>a, <1>m, <2>2
<1>e. RepairIdle.pc = "idle"
  BY DEF RepairIdle
<1> HIDE DEF Command, Bridge, Unbound
<1>1. CASE Asking
  <2>1. /\ UNCHANGED <<def, bound, repair>>
        /\ \/ cmd'.op = "create" /\ cmd'.pc = "define" /\ cmd'.task.state = "active"
           \/ cmd'.op = "update" /\ cmd'.pc = "revise"
           \/ cmd'.op = "delete" /\ cmd'.pc = "check"
           \/ cmd'.op = "state" /\ cmd'.pc = "read"
    <3>1. ASSUME NEW kind \in Kind, AskCreate(kind)
          PROVE  cmd'.op = "create" /\ cmd'.pc = "define" /\ cmd'.task.state = "active"
      <4> DEFINE row == [state |-> "active", kind |-> kind, goal |-> 0]
      <4>1. row.state = "active"
        OBVIOUS
      <4> HIDE DEF row
      <4>2. cmd' = [CmdIdle EXCEPT !.op = "create", !.pc = "define", !.task = row]
        BY <3>1 DEF AskCreate, Asks, row
      <4> QED BY <4>1, <4>2 DEF CmdIdle
    <3>2. ASSUME NEW kind \in Kind, AskUpdate(kind) PROVE cmd'.op = "update" /\ cmd'.pc = "revise"
      BY <3>2 DEF AskUpdate, Asks, CmdIdle
    <3>3. AskDelete => cmd'.op = "delete" /\ cmd'.pc = "check"
      BY DEF AskDelete, Asks, CmdIdle
    <3>4. ASSUME NEW want \in OnOff, AskState(want) PROVE cmd'.op = "state" /\ cmd'.pc = "read"
      BY <3>4 DEF AskState, Asks, CmdIdle
    <3>5. UNCHANGED <<def, bound, repair>>
      BY <1>1 DEF Asking, AskCreate, AskUpdate, AskDelete, AskState, Asks
    <3> QED BY <1>1, <3>1, <3>2, <3>3, <3>4, <3>5 DEF Asking
  <2>2. Command'
    BY <2>1 DEF Command
  <2> QED BY <1>q, <1>kb, <1>ku, <2>1, <2>2
<1>2. CASE CmdStepFails
  <2>1. UNCHANGED <<def, bound, repair>>
        /\ \/ cmd.pc = "bind" /\ GoCmd("discard")
           \/ cmd.pc = "store" /\ cmd.target # None /\ GoCmd("restore")
           \/ cmd' = AfterRaise(cmd)
    BY <1>2 DEF CmdStepFails, Step, Raises
  <2>2. cmd.pc = "bind" => cmd.target \in Provider
    BY <1>b DEF Command
  <2>3. cmd.target # None => cmd.target \in Provider
    BY <1>t DEF CmdRow
  <2>4. Command'
    BY <1>g, <1>r, <2>1, <2>2, <2>3 DEF CmdPc
  <2> QED BY <1>q, <1>kb, <1>ku, <2>1, <2>4
<1>3. CASE Define
  <2>1. cmd.pc = "define" /\ cmd.op = "create"
    BY <1>3, <1>t DEF Define, Step, ControlInv, CmdRow, Op, Switching
  <2>2. Unbound'
    BY <1>3, <1>b, <2>1 DEF Define, Command, Unbound
  <2>3. Command'
    BY <1>3, <1>g, <2>1 DEF Define, CmdPc
  <2> QED BY <1>3, <1>q, <1>kb, <2>2, <2>3 DEF Define
<1>4. CASE Revise
  <2>1. CASE def.state = "absent"
    BY <1>4, <1>q, <1>kb, <1>ku, <1>i, <2>1 DEF Revise
  <2>2. CASE def.state # "absent"
    <3> DEFINE new == [cmd.task EXCEPT !.state = def.state]
    <3>1. new.state = def.state /\ def.state \in OnOff
      BY <1>t, <2>2 DEF CmdRow, Definition
    <3>2. /\ def' = new /\ cmd' = [cmd EXCEPT !.pc = "find", !.task = new, !.previous = def]
          /\ UNCHANGED <<bound, repair>>
      BY <1>4, <2>2 DEF Revise
    <3>3. cmd.op = "update"
      BY <1>4, <1>t DEF Revise, Step, ControlInv, CmdRow, Op, Switching
    <3> HIDE DEF new
    <3>4. cmd'.op = "update" /\ cmd'.pc = "find" /\ cmd'.task = new /\ cmd'.previous = def
      BY <1>t, <3>2, <3>3 DEF CmdRow
    <3>5. Command'
      BY <3>1, <3>4 DEF Command
    <3>6. Unbound'
      BY <2>2, <3>1, <3>2 DEF Unbound
    <3> QED BY <1>q, <1>kb, <3>2, <3>5, <3>6
  <2> QED BY <2>1, <2>2
<1>5. ASSUME NEW x \in BOOLEAN, CheckIdle(x) PROVE RecordInv'
  <2>1. Command'
    <3>1. CASE cmd' = CmdIdle
      BY <1>i, <3>1
    <3>2. CASE cmd' = [cmd EXCEPT !.pc = "find", !.task = def] /\ def.state # "absent"
      <4>1. cmd.op = "delete"
        BY <1>5, <1>t DEF CheckIdle, Step, ControlInv, CmdRow, Op, Switching
      <4>2. cmd'.op = "delete" /\ cmd'.pc = "find" /\ cmd'.task = def
        BY <1>t, <3>2, <4>1 DEF CmdRow
      <4> QED BY <1>t, <3>2, <4>2 DEF Command, Definition
    <3> QED BY <1>5, <3>1, <3>2 DEF CheckIdle
  <2> QED BY <1>5, <1>q, <1>kb, <1>ku, <2>1 DEF CheckIdle
<1>6. ASSUME NEW x \in BOOLEAN, Drop(x) PROVE RecordInv'
  <2>1. Command'
    BY <1>6, <1>i, <1>s DEF Drop
  <2>2. Unbound'
    BY <1>6, <1>b DEF Drop, Unbound
  <2> QED BY <1>6, <1>q, <1>kb, <2>1, <2>2 DEF Drop
<1>7. CASE FindProvider
  <2>1. Command'
    <3>1. cmd.pc = "find"
      BY <1>7 DEF FindProvider, Step
    <3>2. CASE cmd' = AfterRemove
      BY <1>a, <3>1, <3>2
    <3>3. ASSUME NEW p \in bound, cmd' = [cmd EXCEPT !.pc = "remove", !.target = p]
          PROVE  Command'
      <4>1. /\ cmd'.op = cmd.op /\ cmd'.task = cmd.task /\ cmd'.previous = cmd.previous
            /\ cmd'.target \in Provider
        BY <1>t, <3>3 DEF CmdRow
      <4> QED BY <1>m, <3>1, <4>1
    <3> QED BY <1>7, <3>2, <3>3 DEF FindProvider
  <2> QED BY <1>7, <1>q, <1>kb, <1>ku, <2>1 DEF FindProvider
<1>8. CASE RemoveProvider
  BY <1>8, <1>q, <1>kb, <1>ku, <1>g DEF RemoveProvider, Step, CmdPc
<1>9. CASE Unbind
  <2>1. Unbound'
    BY <1>9 DEF Unbind, Unbound
  <2> QED BY <1>9, <1>q, <1>kb, <1>a, <2>1 DEF Unbind, Step
<1>10. CASE Provide
  <2>1. Command'
    <3>1. PICK p \in Provider : cmd' = [cmd EXCEPT !.pc = "bind", !.target = p]
      BY <1>10 DEF Provide, Unused
    <3>2. /\ cmd'.op = cmd.op /\ cmd'.task = cmd.task /\ cmd'.previous = cmd.previous
          /\ cmd'.target \in Provider /\ cmd.pc = "provide"
      BY <1>10, <1>t, <3>1 DEF CmdRow, Provide, Step
    <3> QED BY <1>m, <3>2
  <2> QED BY <1>10, <1>q, <1>kb, <1>ku, <2>1 DEF Provide
<1>11. CASE Bind
  <2>1. cmd.pc = "bind" /\ cmd.target \in Provider
    BY <1>11, <1>b DEF Bind, Step, Command
  <2>2. Command'
    <3>1. CASE cmd' = AfterProvide
      <4>1. CASE cmd' = CmdIdle
        BY <1>i, <4>1
      <4>2. CASE cmd' = [cmd EXCEPT !.pc = "read", !.want = cmd.task.state]
        <5>1. /\ cmd'.op = cmd.op /\ cmd'.task = cmd.task /\ cmd'.previous = cmd.previous
              /\ cmd'.pc = "read"
          BY <1>t, <4>2 DEF CmdRow
        <5> QED BY <1>m, <2>1, <5>1
      <4> QED BY <3>1, <4>1, <4>2 DEF AfterProvide
    <3>2. CASE GoCmd("discard")
      BY <1>g, <2>1, <3>2 DEF CmdPc
    <3> QED BY <1>11, <3>1, <3>2 DEF Bind
  <2>3. Unbound'
    BY <1>11, <1>b DEF Bind, Bindable, Unbound
  <2> QED BY <1>11, <1>q, <1>kb, <2>2, <2>3 DEF Bind
<1>12. CASE Discard \/ Restore
  BY <1>12, <1>q, <1>kb, <1>ku, <1>s DEF Discard, Restore
<1>13. CASE ReadBinding
  <2>1. Command'
    <3>1. cmd.pc = "read"
      BY <1>13 DEF ReadBinding, Step
    <3>2. CASE Raises
      BY <1>s, <3>2
    <3>3. CASE cmd' = [cmd EXCEPT !.pc = "store", !.target = None]
      <4>1. /\ cmd'.op = cmd.op /\ cmd'.task = cmd.task /\ cmd'.previous = cmd.previous
            /\ cmd'.pc = "store"
        BY <1>t, <3>3 DEF CmdRow
      <4> QED BY <1>m, <3>1, <4>1
    <3>4. ASSUME NEW p \in bound, cmd' = [cmd EXCEPT !.pc = "switch", !.target = p]
          PROVE  Command'
      <4>1. /\ cmd'.op = cmd.op /\ cmd'.task = cmd.task /\ cmd'.previous = cmd.previous
            /\ cmd'.target \in Provider
        BY <1>t, <3>4 DEF CmdRow
      <4> QED BY <1>m, <3>1, <4>1
    <3> QED BY <1>13, <3>2, <3>3, <3>4 DEF ReadBinding
  <2> QED BY <1>13, <1>q, <1>kb, <1>ku, <2>1 DEF ReadBinding
<1>14. CASE Switch
  <2>1. Command'
    <3>1. cmd.pc = "switch"
      BY <1>14 DEF Switch, Step
    <3>2. CASE Raises
      BY <1>s, <3>2
    <3>3. CASE cmd' = [cmd EXCEPT !.pc = "store", !.prior = provider[cmd.target].state]
      <4>1. /\ cmd'.op = cmd.op /\ cmd'.task = cmd.task /\ cmd'.previous = cmd.previous
            /\ cmd'.pc = "store"
        BY <1>t, <3>3 DEF CmdRow
      <4> QED BY <1>m, <3>1, <4>1
    <3> QED BY <1>14, <3>2, <3>3 DEF Switch
  <2> QED BY <1>14, <1>q, <1>kb, <1>ku, <2>1 DEF Switch
<1>15. CASE Store
  <2>1. cmd.pc = "store" /\ (cmd.target # None => cmd.target \in Provider)
    BY <1>15, <1>t DEF Store, Step, CmdRow
  <2>2. Command'
    BY <1>15, <1>i, <1>s, <1>g, <2>1 DEF Store, CmdPc
  <2>3. Unbound'
    <3>1. CASE def.state = "absent"
      BY <1>15, <1>ku, <3>1 DEF Store
    <3>2. CASE def.state # "absent"
      BY <1>15, <1>t, <3>2 DEF Store, Unbound, Definition, CmdRow, OnOff
    <3> QED BY <3>1, <3>2
  <2> QED BY <1>15, <1>q, <1>kb, <2>2, <2>3 DEF Store
<1>16. CASE Revert
  <2>1. CASE def.state = "absent"
    BY <1>16, <1>q, <1>kb, <1>ku, <1>i, <2>1 DEF Revert
  <2>2. CASE def.state # "absent"
    <3>1. /\ def' = [cmd.previous EXCEPT !.state = def.state]
          /\ cmd' = [cmd EXCEPT !.pc = "provide", !.task = cmd.previous]
          /\ UNCHANGED <<bound, repair>>
      BY <1>16, <2>2 DEF Revert
    <3>2. cmd.op = "update" /\ cmd.pc = "revert"
      BY <1>16, <1>t DEF Revert, Step, ControlInv, CmdRow, Op, Switching
    <3>3. /\ cmd'.op = "update" /\ cmd'.pc = "provide" /\ cmd'.task = cmd.previous
          /\ cmd'.previous = cmd.previous /\ def'.state = def.state
      BY <1>t, <3>1, <3>2 DEF CmdRow, Definition
    <3>4. Command'
      BY <1>b, <3>2, <3>3 DEF Command
    <3>5. Unbound'
      BY <2>2, <3>3 DEF Unbound
    <3> QED BY <1>q, <1>kb, <3>1, <3>4, <3>5
  <2> QED BY <2>1, <2>2
<1>17. CASE RepairStarts \/ RepairFinds
  <2>1. repair' = RepairIdle \/ repair'.pc \in {"find", "unbind", "provide"}
    BY <1>17, <1>t DEF RepairStarts, RepairFinds, GoRepair, RepairRow, RepairIdle
  <2>2. Bridge'
    BY <1>e, <2>1 DEF Bridge
  <2> QED BY <1>17, <1>q, <1>kc, <1>ku, <2>2 DEF RepairStarts, RepairFinds
<1>18. CASE RepairUnbinds
  <2>1. repair' = RepairIdle \/ repair'.pc = "provide"
    BY <1>18, <1>t DEF RepairUnbinds, GoRepair, RepairRow
  <2>2. Bridge' /\ Unbound'
    BY <1>18, <1>e, <2>1 DEF Bridge, Unbound, RepairUnbinds
  <2> QED BY <1>18, <1>q, <1>kc, <2>2 DEF RepairUnbinds
<1>19. CASE RepairProvides
  <2>1. \/ repair' = RepairIdle
        \/ \E p \in Provider : repair' = [repair EXCEPT !.pc = "bind", !.target = p]
    BY <1>19 DEF RepairProvides, Unused
  <2>2. \A p \in Provider : [repair EXCEPT !.pc = "bind", !.target = p].target = p
    BY <1>t DEF RepairRow
  <2>3. Bridge'
    BY <1>e, <2>1, <2>2 DEF Bridge
  <2> QED BY <1>19, <1>q, <1>kc, <1>ku, <2>3 DEF RepairProvides
<1>20. CASE RepairBinds
  <2>1. repair.target \in Provider
    BY <1>20, <1>b DEF RepairBinds, RepairAt, Bridge
  <2>2. repair' = RepairIdle \/ repair'.target = repair.target
    BY <1>20, <1>t DEF RepairBinds, GoRepair, RepairRow
  <2>3. Bridge' /\ Unbound'
    BY <1>20, <1>b, <1>e, <2>1, <2>2 DEF Bridge, Unbound, RepairBinds, Bindable
  <2> QED BY <1>20, <1>q, <1>kc, <2>3 DEF RepairBinds
<1>21. CASE RepairRechecks
  <2>1. Bridge'
    BY <1>21, <1>e DEF Bridge, RepairRechecks
  <2> QED BY <1>21, <1>q, <1>kc, <1>ku, <2>1 DEF RepairRechecks
<1>22. CASE RepairFails
  <2>1. \/ repair' = RepairIdle
        \/ RepairAt("bind") /\ repair'.target = repair.target
    BY <1>22, <1>t DEF RepairFails, GoRepair, RepairRow
  <2>2. Bridge'
    BY <1>b, <1>e, <2>1 DEF Bridge, RepairAt
  <2> QED BY <1>22, <1>q, <1>kc, <1>ku, <2>2 DEF RepairFails
<1>23. CASE ProductCrash
  <2>1. Bridge'
    BY <1>23, <1>e DEF Bridge, ProductCrash, RepairAt
  <2> QED BY <1>23, <1>q, <1>i, <1>ku, <2>1 DEF ProductCrash
<1>24. CASE UNCHANGED pvars
  BY <1>24, <1>q, <1>kc, <1>kb, <1>ku DEF pvars
<1> QED
  BY <1>1, <1>2, <1>3, <1>4, <1>5, <1>6, <1>7, <1>8, <1>9, <1>10, <1>11, <1>12, <1>13, <1>14,
     <1>15, <1>16, <1>17, <1>18, <1>19, <1>20, <1>21, <1>22, <1>23, <1>24
  DEF ProductNext, CmdStep, RepairStep

\* While it is calm a command is alone, and a failure that is not logged is its first.
LEMMA CalmBefore ==
    ASSUME ProductTypeOK, ProductNext, Calm'
    PROVE  /\ Calm /\ UNCHANGED repair
           /\ \/ Asking
              \/ CmdStep
              \/ CmdStepFails
           /\ Raises => ~cmd.undo
<1>t. repair \in RepairRow /\ logged \in BOOLEAN /\ crashed \in BOOLEAN
  BY ProductTypes
<1>1. Raises => ~logged /\ ~cmd.undo
  BY <1>t DEF Raises, Calm
<1>2. ASSUME Asking \/ CmdStep \/ CmdStepFails PROVE Calm /\ UNCHANGED repair
  <2>1. UNCHANGED <<repair, crashed>>
    BY <1>2 DEF Asking, CmdStep, CmdStepFails, AskCreate, AskUpdate, AskDelete, AskState, Asks,
         Define, Revise, CheckIdle, Drop, FindProvider, RemoveProvider, Unbind, Provide, Bind,
         Discard, ReadBinding, Switch, Store, Restore, Revert
  <2>2. ~logged
    <3>1. UNCHANGED logged \/ Raises \/ logged' = TRUE
      BY <1>2 DEF Asking, CmdStep, CmdStepFails, AskCreate, AskUpdate, AskDelete, AskState, Asks,
           Define, Revise, CheckIdle, Drop, FindProvider, RemoveProvider, Unbind, Provide, Bind,
           Discard, ReadBinding, Switch, Store, Restore, Revert
    <3> QED BY <1>1, <3>1 DEF Calm
  <2> QED BY <2>1, <2>2 DEF Calm
<1>3. ~(RepairStep \/ RepairFails \/ ProductCrash)
  <2>1. RepairIdle.pc = "idle"
    BY DEF RepairIdle
  <2>2. ~ProductCrash
    BY DEF ProductCrash, Calm
  <2>3. ASSUME NEW pc \in RepairPc, GoRepair(pc), pc # "off" PROVE repair'.pc # "off"
    BY <1>t, <2>3 DEF GoRepair, RepairRow
  <2>4. ~RepairFails
    BY <2>1, <2>3 DEF RepairFails, Calm, RepairPc
  <2>5. ~RepairStarts
    <3>1. [RepairIdle EXCEPT !.pc = "find", !.task = def].pc = "find"
      BY DEF RepairIdle
    <3> QED BY <3>1 DEF RepairStarts, Calm
  <2>6. ~RepairFinds /\ ~RepairUnbinds
    BY <1>t, <2>1 DEF RepairFinds, RepairUnbinds, GoRepair, RepairRow, Calm
  <2>7. ~RepairProvides
    <3>1. \A q \in Provider : [repair EXCEPT !.pc = "bind", !.target = q].pc = "bind"
      BY <1>t DEF RepairRow
    <3> QED BY <2>1, <3>1 DEF RepairProvides, Unused, Calm
  <2>8. ~RepairBinds /\ ~RepairRechecks
    BY <1>t, <2>1 DEF RepairBinds, RepairRechecks, GoRepair, RepairRow, Calm
  <2> QED BY <2>2, <2>4, <2>5, <2>6, <2>7, <2>8 DEF RepairStep
<1> QED BY <1>1, <1>2, <1>3 DEF ProductNext

\* What becomes of the providers that there are.
LEMMA ExistingMoves ==
    ASSUME provider \in [Provider -> ProviderRow], NEW p \in Provider
    PROVE  /\ UNCHANGED provider => Existing' = Existing
           /\ provider' = Removed(p) => Existing' = Existing \ {p}
           /\ \A task \in Definition, r \in BOOLEAN :
                 provider' = Created(p, task, r)
                   => /\ Existing' = Existing \cup {p} /\ provider'[p].state = "active"
                      /\ provider'[p].kind = task.kind /\ provider'[p].goal = task.goal
           /\ \A st \in OnOff :
                 p \in Existing /\ provider' = [provider EXCEPT ![p].state = st]
                   => /\ Existing' = Existing /\ provider'[p].state = st
                      /\ provider'[p].kind = provider[p].kind
                      /\ provider'[p].goal = provider[p].goal
<1>1. UNCHANGED provider => Existing' = Existing
  BY DEF Existing
<1>2. ASSUME provider' = Removed(p) PROVE Existing' = Existing \ {p}
  <2>1. \A q \in Provider \ {p} : provider'[q] = provider[q]
    BY <1>2 DEF Removed
  <2>2. provider'[p].state \notin OnOff
    BY <1>2 DEF Removed, NoProvider, OnOff
  <2> QED BY <2>1, <2>2 DEF Existing
<1>3. ASSUME NEW task \in Definition, NEW r \in BOOLEAN, provider' = Created(p, task, r)
      PROVE  /\ Existing' = Existing \cup {p} /\ provider'[p].state = "active"
             /\ provider'[p].kind = task.kind /\ provider'[p].goal = task.goal
  <2>1. \A q \in Provider \ {p} : provider'[q] = provider[q]
    BY <1>3 DEF Created
  <2>2. /\ provider'[p].state = "active" /\ provider'[p].kind = task.kind
        /\ provider'[p].goal = task.goal
    BY <1>3 DEF Created
  <2> QED BY <2>1, <2>2 DEF Existing, OnOff
<1>4. ASSUME NEW st \in OnOff, p \in Existing, provider' = [provider EXCEPT ![p].state = st]
      PROVE  /\ Existing' = Existing /\ provider'[p].state = st
             /\ provider'[p].kind = provider[p].kind /\ provider'[p].goal = provider[p].goal
  <2>1. \A q \in Provider \ {p} : provider'[q] = provider[q]
    BY <1>4
  <2>2. /\ provider'[p].state = st /\ provider'[p].kind = provider[p].kind
        /\ provider'[p].goal = provider[p].goal
    BY <1>4 DEF ProviderRow
  <2> QED BY <1>4, <2>1, <2>2 DEF Existing
<1> QED BY <1>1, <1>2, <1>3, <1>4

\* What has to hold for a command to go to a step.
LEMMA ShapeTo ==
    ASSUME ControlInv'
    PROVE  /\ cmd'.pc \in {"idle", "revise", "check"} /\ Agreed' => Shape'
           /\ cmd'.pc = "define" /\ def'.state = "absent" /\ Existing' = {} /\ bound' = {} => Shape'
           /\ cmd'.pc = "read" /\ cmd'.op = "state" /\ Agreed' => Shape'
<1>1. ASSUME cmd'.pc \in {"idle", "revise", "check"}, Agreed' PROVE Shape'
  BY <1>1 DEF Shape, AgreedShape, TaskShape, GoneShape, FoundShape, MadeShape, SwitchShape,
              ControlInv, Switching
<1>2. ASSUME cmd'.pc = "define", def'.state = "absent", Existing' = {}, bound' = {} PROVE Shape'
  BY <1>2 DEF Shape, AgreedShape, TaskShape, GoneShape, FoundShape, MadeShape, SwitchShape,
              ControlInv, Switching
<1>3. ASSUME cmd'.pc = "read", cmd'.op = "state", Agreed' PROVE Shape'
  BY <1>3 DEF Shape, AgreedShape, TaskShape, GoneShape, FoundShape, MadeShape, SwitchShape
<1> QED BY <1>1, <1>2, <1>3

LEMMA ShapeToGone ==
    ASSUME ControlInv', cmd'.pc \in {"drop", "provide", "revert", "unbind"},
           cmd'.pc # "revert" => def' = cmd'.task, def'.state # "absent",
           cmd'.op = "update" => cmd'.previous.state = def'.state,
           Existing' = {},
           IF cmd'.pc = "unbind" THEN \E p \in Provider : bound' = {p} ELSE bound' = {}
    PROVE  Shape'
BY DEF Shape, AgreedShape, TaskShape, GoneShape, FoundShape, MadeShape, SwitchShape, ControlInv,
       Switching

LEMMA ShapeToFound ==
    ASSUME ControlInv', cmd'.pc \in {"find", "remove"},
           def' = cmd'.task, def'.state # "absent",
           cmd'.op = "update" => cmd'.previous.state = def'.state,
           cmd'.op = "delete" => Agreed',
           cmd'.op = "update" =>
              \/ bound' = {} /\ Existing' = {}
              \/ \E p \in bound' : bound' = {p} /\ Existing' \subseteq {p},
           cmd'.pc = "remove" => cmd'.target \in bound'
    PROVE  Shape'
BY DEF Shape, AgreedShape, TaskShape, GoneShape, FoundShape, MadeShape, SwitchShape, ControlInv,
       Switching

LEMMA ShapeToMade ==
    ASSUME ControlInv', cmd'.pc \in {"bind", "discard"},
           def' = cmd'.task, def'.state # "absent",
           cmd'.op = "update" => cmd'.previous.state = def'.state,
           bound' = {}, Existing' = {cmd'.target}, provider'[cmd'.target].state = "active",
           provider'[cmd'.target].kind = def'.kind, provider'[cmd'.target].goal = def'.goal
    PROVE  Shape'
BY DEF Shape, AgreedShape, TaskShape, GoneShape, FoundShape, MadeShape, SwitchShape, ControlInv,
       Switching, MadeFrom

LEMMA ShapeToRead ==
    ASSUME ControlInv', cmd'.pc = "read", cmd'.op \in {"update", "delete"},
           def' = cmd'.task, def'.state # "absent", cmd'.want = def'.state,
           cmd'.op = "update" => cmd'.previous.state = def'.state,
           NEW p \in bound', bound' = {p}, Existing' = {p},
           provider'[p].kind = def'.kind, provider'[p].goal = def'.goal
    PROVE  Shape'
<1>1. MadeShape'
  BY DEF MadeShape, MadeFrom
<1> QED BY <1>1 DEF Shape, AgreedShape, TaskShape, GoneShape, FoundShape, SwitchShape

LEMMA ShapeToSwitch ==
    ASSUME ControlInv', cmd'.pc \in {"switch", "store", "restore"}, cmd'.op # "create",
           def'.state # "absent",
           cmd'.op \in {"update", "delete"} => def' = cmd'.task /\ cmd'.want = def'.state,
           cmd'.op = "update" => cmd'.previous.state = def'.state,
           bound' = {cmd'.target}, Existing' \subseteq {cmd'.target},
           cmd'.target \in Existing'
             => /\ provider'[cmd'.target].kind = def'.kind
                /\ provider'[cmd'.target].goal = def'.goal,
           cmd'.op # "state" => cmd'.target \in Existing',
           cmd'.pc = "switch" /\ cmd'.op = "state" /\ cmd'.target \in Existing'
             => provider'[cmd'.target].state = def'.state,
           cmd'.pc \in {"store", "restore"}
             => /\ cmd'.target \in Existing' /\ provider'[cmd'.target].state = cmd'.want
                /\ cmd'.op = "state" => cmd'.prior = def'.state
    PROVE  Shape'
<1>1. SwitchShape'
  BY DEF SwitchShape, MadeFrom
<1> QED BY <1>1 DEF Shape, AgreedShape, TaskShape, GoneShape, FoundShape, MadeShape, Switching

\* The first failure of a command begins its rollback, or ends it where there is nothing to undo.
LEMMA ShapeRaised ==
    ASSUME cmd \in CmdRow, ControlInv, ControlInv', TaskShape, UNCHANGED <<def, bound>>,
           cmd' = AfterRaise(cmd), ~cmd.undo,
           cmd.op = "create" /\ cmd.pc # "define" => Existing' = {} /\ bound = {},
           cmd.op = "update" /\ cmd.pc # "revise" =>
              \/ bound = {} /\ Existing' = {}
              \/ \E p \in bound : bound = {p} /\ Existing' \subseteq {p},
           cmd.op = "delete" /\ cmd.pc = "drop" => Existing' = {} /\ bound = {},
           (\/ cmd.op = "create" /\ cmd.pc = "define"
            \/ cmd.op = "update" /\ cmd.pc = "revise"
            \/ cmd.op = "delete" /\ cmd.pc # "drop"
            \/ cmd.op \in {"state", "none"})
              => Agreed'
    PROVE  Shape'
<1>1. CASE cmd.op = "create" /\ cmd.pc # "define"
  <2>1. cmd' = [cmd EXCEPT !.pc = "drop", !.undo = TRUE]
    BY <1>1 DEF AfterRaise
  <2>2. cmd'.pc = "drop" /\ cmd'.op = "create" /\ cmd'.task = cmd.task
    BY <1>1, <2>1 DEF CmdRow
  <2>3. def = cmd.task /\ def.state # "absent"
    BY <1>1 DEF ControlInv, TaskShape
  <2> QED BY <1>1, <2>2, <2>3, ShapeToGone
<1>2. CASE cmd.op = "update" /\ cmd.pc # "revise"
  <2>1. cmd' = [cmd EXCEPT !.pc = "find", !.undo = TRUE]
    BY <1>2 DEF AfterRaise
  <2>2. /\ cmd'.pc = "find" /\ cmd'.op = "update" /\ cmd'.task = cmd.task
        /\ cmd'.previous = cmd.previous
    BY <1>2, <2>1 DEF CmdRow
  <2>3. def = cmd.task /\ def.state # "absent" /\ cmd.previous.state = def.state
    BY <1>2 DEF ControlInv, TaskShape, CmdRow, CmdPc, Switching
  <2> QED BY <1>2, <2>2, <2>3, ShapeToFound
<1>3. CASE cmd.op = "delete" /\ cmd.pc = "drop"
  <2>1. cmd' = [cmd EXCEPT !.pc = "provide", !.undo = TRUE]
    BY <1>3 DEF AfterRaise
  <2>2. cmd'.pc = "provide" /\ cmd'.op = "delete" /\ cmd'.task = cmd.task
    BY <1>3, <2>1 DEF CmdRow
  <2>3. def = cmd.task /\ def.state # "absent"
    BY <1>3 DEF TaskShape
  <2> QED BY <1>3, <2>2, <2>3, ShapeToGone
<1>4. CASE \/ cmd.op = "create" /\ cmd.pc = "define"
           \/ cmd.op = "update" /\ cmd.pc = "revise"
           \/ cmd.op = "delete" /\ cmd.pc # "drop"
           \/ cmd.op \in {"state", "none"}
  <2>1. cmd' = CmdIdle
    BY <1>4 DEF AfterRaise
  <2> QED BY <1>4, <2>1, ShapeTo, ProductStarts
<1>5. cmd.op \in {"none", "create", "update", "delete", "state"}
  BY DEF CmdRow, Op
<1> QED BY <1>1, <1>2, <1>3, <1>4, <1>5

\* While it is calm each step leaves definition, binding and providers as the next one expects.
LEMMA ProductShapeStep ==
    ASSUME ProductInv, ProductTypeOK', ControlInv', ProductNext, Calm'
    PROVE  Shape'
<1>t. /\ def \in Definition /\ provider \in [Provider -> ProviderRow] /\ bound \subseteq Provider
      /\ cmd \in CmdRow /\ ControlInv /\ RecordInv /\ ProductTypeOK
  BY ProductTypes DEF ProductInv
<1>c. /\ Calm /\ UNCHANGED repair
      /\ \/ Asking
         \/ CmdStep
         \/ CmdStepFails
      /\ Raises => ~cmd.undo
  BY <1>t, CalmBefore
<1>s. AgreedShape /\ TaskShape /\ GoneShape /\ FoundShape /\ MadeShape /\ SwitchShape
  BY <1>c DEF ProductInv, Shape
<1>e. UNCHANGED provider => Existing' = Existing
  BY DEF Existing
<1>a. UNCHANGED <<def, provider, bound>> /\ Agreed => Agreed'
  BY DEF Agreed, Existing, MadeFrom
<1>x. Existing \subseteq Provider /\ None \notin Provider
  BY ProductAssumption DEF Existing, Provider, None
<1>g. ASSUME NEW pc \in CmdPc, GoCmd(pc)
      PROVE  /\ cmd'.pc = pc /\ cmd'.op = cmd.op /\ cmd'.undo = cmd.undo /\ cmd'.task = cmd.task
             /\ cmd'.previous = cmd.previous /\ cmd'.target = cmd.target
             /\ cmd'.want = cmd.want /\ cmd'.prior = cmd.prior
  BY <1>g, <1>t DEF GoCmd, CmdRow
<1>u. /\ cmd.op = "update" /\ cmd.pc # "revise"
           => /\ cmd.previous.state = def.state /\ def.state # "absent"
              /\ cmd.pc # "revert" => def = cmd.task
      /\ cmd.pc \in {"find", "remove", "unbind", "drop", "provide", "bind", "discard"}
           => def = cmd.task /\ def.state # "absent"
  BY <1>s, <1>t DEF TaskShape, ControlInv, CmdRow, CmdPc, Switching
<1>1. CASE Asking
  <2>1. cmd.pc = "idle" /\ UNCHANGED <<def, provider, bound>>
    BY <1>1 DEF Asking, AskCreate, AskUpdate, AskDelete, AskState, Asks, Step
  <2>2. Agreed'
    BY <1>s, <1>a, <2>1 DEF AgreedShape
  <2>3. ASSUME NEW kind \in Kind, AskCreate(kind) PROVE Shape'
    <3>1. cmd'.pc = "define" /\ def'.state = "absent"
      BY <2>3 DEF AskCreate, Asks, CmdIdle
    <3>2. bound' = {}
      BY <1>t, <2>1, <3>1 DEF RecordInv
    <3>3. Existing' = {}
      BY <2>2, <3>1 DEF Agreed
    <3> QED BY <3>1, <3>2, <3>3, ShapeTo
  <2>4. ASSUME NEW kind \in Kind, AskUpdate(kind) PROVE cmd'.pc = "revise"
    BY <2>4 DEF AskUpdate, Asks, CmdIdle
  <2>5. AskDelete => cmd'.pc = "check"
    BY DEF AskDelete, Asks, CmdIdle
  <2>6. ASSUME NEW want \in OnOff, AskState(want) PROVE cmd'.pc = "read" /\ cmd'.op = "state"
    BY <2>6 DEF AskState, Asks, CmdIdle
  <2> QED BY <1>1, <2>2, <2>3, <2>4, <2>5, <2>6, ShapeTo DEF Asking
<1>2. CASE CmdStepFails
  <2>1. UNCHANGED <<def, provider, bound>> /\ cmd.pc # "idle" /\ Existing' = Existing
    BY <1>2, <1>e DEF CmdStepFails, Step
  <2>2. CASE cmd.pc = "bind"
    <3>1. GoCmd("discard")
      BY <1>2, <2>2 DEF CmdStepFails, Step
    <3>2. /\ bound = {} /\ Existing = {cmd.target} /\ provider[cmd.target].state = "active"
          /\ provider[cmd.target].kind = def.kind /\ provider[cmd.target].goal = def.goal
      BY <1>s, <2>2 DEF MadeShape, MadeFrom
    <3> QED BY <1>g, <1>u, <2>1, <2>2, <3>1, <3>2, ShapeToMade DEF CmdPc
  <2>3. CASE cmd.pc = "store"
    <3>0. /\ def.state # "absent" /\ bound = {cmd.target} /\ cmd.target \in Existing
          /\ Existing \subseteq {cmd.target}
          /\ provider[cmd.target].kind = def.kind /\ provider[cmd.target].goal = def.goal
          /\ provider[cmd.target].state = cmd.want /\ (cmd.op = "state" => cmd.prior = def.state)
          /\ (cmd.op \in {"update", "delete"} => def = cmd.task /\ cmd.want = def.state)
          /\ cmd.op # "create"
      BY <1>s, <1>t, <2>3 DEF SwitchShape, MadeFrom, TaskShape, Switching, ControlInv
    <3>1. GoCmd("restore")
      BY <1>2, <1>x, <2>3, <3>0 DEF CmdStepFails, Step
    <3> QED BY <1>g, <1>u, <2>1, <2>3, <3>0, <3>1, ShapeToSwitch DEF CmdPc
  <2>4. CASE cmd.pc \notin {"bind", "store"}
    <3>1. Raises /\ cmd.pc \notin {"discard", "restore"}
      BY <1>2, <2>4 DEF CmdStepFails, Step, Calm
    <3>2. cmd' = AfterRaise(cmd) /\ ~cmd.undo
      BY <1>c, <3>1 DEF Raises
    <3>3. cmd.op = "create" /\ cmd.pc # "define" => Existing = {} /\ bound = {}
      BY <1>s, <1>t, <2>4, <3>1, <3>2 DEF ControlInv, GoneShape
    <3>4. cmd.op = "update" /\ cmd.pc # "revise" =>
              \/ bound = {} /\ Existing = {}
              \/ \E p \in bound : bound = {p} /\ Existing \subseteq {p}
      <4>1. CASE cmd.pc \in {"find", "remove"}
        BY <1>s, <4>1 DEF FoundShape
      <4>2. CASE cmd.pc \in {"unbind", "provide"}
        BY <1>s, <4>2 DEF GoneShape
      <4>3. CASE cmd.pc = "read"
        BY <1>s, <4>3 DEF MadeShape
      <4>4. CASE cmd.pc = "switch"
        BY <1>s, <4>4 DEF SwitchShape
      <4>5. cmd.op = "update" /\ cmd.pc # "revise"
              => cmd.pc \in {"find", "remove", "unbind", "provide", "read", "switch"}
        BY <1>t, <2>4, <3>1, <3>2 DEF ControlInv, CmdRow, CmdPc
      <4> QED BY <4>1, <4>2, <4>3, <4>4, <4>5
    <3>5. cmd.op = "delete" /\ cmd.pc = "drop" => Existing = {} /\ bound = {}
      BY <1>s DEF GoneShape
    <3>6. ASSUME \/ cmd.op = "create" /\ cmd.pc = "define"
                 \/ cmd.op = "update" /\ cmd.pc = "revise"
                 \/ cmd.op = "delete" /\ cmd.pc # "drop"
                 \/ cmd.op \in {"state", "none"}
          PROVE  Agreed
      <4>1. CASE cmd.pc = "define"
        BY <1>s, <4>1 DEF GoneShape, Agreed
      <4>2. CASE cmd.pc \in {"revise", "check", "find", "remove"} /\ cmd.op \in {"update", "delete"}
                 /\ (cmd.op = "update" => cmd.pc = "revise")
        BY <1>s, <4>2 DEF AgreedShape
      <4>3. CASE cmd.pc = "unbind"
        BY <1>s, <1>u, <4>3 DEF GoneShape, Agreed
      <4>4. CASE cmd.pc = "read" /\ cmd.op = "state"
        BY <1>s, <4>4 DEF AgreedShape
      <4>5. CASE cmd.pc = "switch" /\ cmd.op = "state"
        BY <1>s, <4>5 DEF SwitchShape, Agreed
      <4> QED BY <1>t, <2>1, <2>4, <3>1, <3>2, <3>6, <4>1, <4>2, <4>3, <4>4, <4>5
              DEF ControlInv, CmdRow, CmdPc, Switching
    <3> QED BY <1>a, <1>s, <1>t, <2>1, <3>2, <3>3, <3>4, <3>5, <3>6, ShapeRaised
  <2> QED BY <2>2, <2>3, <2>4
<1>3. CASE Define
  <2>1. cmd.pc = "define" /\ cmd.op = "create"
    BY <1>3, <1>t DEF Define, Step, ControlInv, CmdRow, Op, Switching
  <2>2. def' = cmd.task /\ GoCmd("provide") /\ UNCHANGED <<provider, bound>>
    BY <1>3 DEF Define
  <2>3. Existing = {} /\ bound = {} /\ cmd.task.state = "active"
    BY <1>s, <1>t, <2>1 DEF GoneShape, RecordInv
  <2> QED BY <1>e, <1>g, <2>1, <2>2, <2>3, ShapeToGone DEF CmdPc
<1>4. CASE Revise
  <2>1. cmd.pc = "revise" /\ cmd.op = "update" /\ UNCHANGED <<provider, bound>>
    BY <1>4, <1>t DEF Revise, Step, ControlInv, CmdRow, Op, Switching
  <2>2. CASE def.state = "absent"
    <3>1. cmd'.pc = "idle" /\ UNCHANGED def
      BY <1>4, <2>2, ProductStarts DEF Revise
    <3> QED BY <1>a, <1>s, <2>1, <3>1, ShapeTo DEF AgreedShape
  <2>3. CASE def.state # "absent"
    <3> DEFINE new == [cmd.task EXCEPT !.state = def.state]
    <3>1. new.state = def.state
      BY <1>t DEF CmdRow, Definition
    <3>2. def' = new /\ cmd' = [cmd EXCEPT !.pc = "find", !.task = new, !.previous = def]
      BY <1>4, <2>3 DEF Revise
    <3> HIDE DEF new
    <3>3. cmd'.op = "update" /\ cmd'.pc = "find" /\ cmd'.task = new /\ cmd'.previous = def
      BY <1>t, <2>1, <3>2 DEF CmdRow
    <3>4. \E p \in bound : bound = {p} /\ Existing \subseteq {p}
      BY <1>s, <2>1, <2>3 DEF AgreedShape, Agreed
    <3> QED BY <1>e, <2>1, <2>3, <3>1, <3>2, <3>3, <3>4, ShapeToFound
  <2> QED BY <2>2, <2>3
<1>5. ASSUME NEW x \in BOOLEAN, CheckIdle(x) PROVE Shape'
  <2>1. cmd.pc = "check" /\ cmd.op = "delete" /\ UNCHANGED <<def, provider, bound>>
    BY <1>5, <1>t DEF CheckIdle, Step, ControlInv, CmdRow, Op, Switching
  <2>2. Agreed'
    BY <1>a, <1>s, <2>1 DEF AgreedShape
  <2>3. CASE cmd' = CmdIdle
    BY <2>2, <2>3, ProductStarts, ShapeTo
  <2>4. CASE def.state # "absent" /\ cmd' = [cmd EXCEPT !.pc = "find", !.task = def]
    <3>1. cmd'.op = "delete" /\ cmd'.pc = "find" /\ cmd'.task = def
      BY <1>t, <2>1, <2>4 DEF CmdRow
    <3> QED BY <2>1, <2>2, <2>4, <3>1, ShapeToFound
  <2> QED BY <1>5, <2>3, <2>4 DEF CheckIdle
<1>6. ASSUME NEW x \in BOOLEAN, Drop(x) PROVE Shape'
  <2>1. cmd.pc = "drop" /\ UNCHANGED provider /\ Existing' = {} /\ bound = {}
    BY <1>6, <1>s, <1>e DEF Drop, Step, GoneShape
  <2>2. CASE Raises /\ UNCHANGED <<def, bound>>
    <3>1. cmd.op = "delete"
      BY <1>c, <1>t, <2>1, <2>2 DEF ControlInv, CmdRow, Op, Switching
    <3> QED BY <1>c, <1>s, <1>t, <2>1, <2>2, <3>1, ShapeRaised DEF Raises
  <2>3. CASE def' = NoDef /\ cmd' = CmdIdle
    <3>1. def'.state = "absent"
      BY <2>3 DEF NoDef
    <3>2. Agreed'
      BY <2>1, <3>1 DEF Agreed
    <3> QED BY <2>3, <3>2, ShapeTo, ProductStarts
  <2> QED BY <1>6, <2>2, <2>3 DEF Drop
<1>r. ASSUME cmd' = AfterRemove, cmd.pc \in {"find", "unbind"}, UNCHANGED def,
             Existing' = {}, bound' = {}, cmd.op = "delete" => cmd.pc = "unbind"
      PROVE  Shape'
  <2>1. \/ cmd.op = "delete" /\ cmd' = [cmd EXCEPT !.pc = "drop"]
        \/ cmd.op = "update" /\ ~cmd.undo /\ cmd' = [cmd EXCEPT !.pc = "provide"]
        \/ cmd.op = "update" /\ cmd.undo /\ cmd' = [cmd EXCEPT !.pc = "revert"]
    BY <1>r, <1>t DEF AfterRemove, ControlInv, CmdRow, Op, Switching
  <2>2. /\ cmd'.pc \in {"drop", "provide", "revert"} /\ cmd'.op = cmd.op /\ cmd'.task = cmd.task
        /\ cmd'.previous = cmd.previous
    BY <1>t, <2>1 DEF CmdRow
  <2> QED BY <1>r, <1>u, <2>2, ShapeToGone
<1>7. CASE FindProvider
  <2>1. cmd.pc = "find" /\ UNCHANGED <<def, provider, bound>>
    BY <1>7 DEF FindProvider, Step
  <2>2. cmd.op \in {"update", "delete"}
    BY <1>t, <2>1 DEF ControlInv, CmdRow, Op, Switching
  <2>3. cmd.op = "delete" => Agreed /\ \E p \in bound : bound = {p}
    BY <1>s, <1>u, <2>1 DEF AgreedShape, Agreed
  <2>4. CASE bound = {} /\ cmd' = AfterRemove
    <3>1. cmd.op = "update" /\ Existing = {}
      BY <1>s, <2>1, <2>2, <2>3, <2>4 DEF FoundShape
    <3> QED BY <1>e, <1>r, <2>1, <2>4, <3>1
  <2>5. ASSUME NEW p \in bound, cmd' = [cmd EXCEPT !.pc = "remove", !.target = p] PROVE Shape'
    <3>1. /\ cmd'.pc = "remove" /\ cmd'.op = cmd.op /\ cmd'.task = cmd.task
          /\ cmd'.previous = cmd.previous /\ cmd'.target = p
      BY <1>t, <2>5 DEF CmdRow
    <3>2. cmd.op = "update" => \E q \in bound : bound = {q} /\ Existing \subseteq {q}
      BY <1>s, <2>1 DEF FoundShape
    <3> QED BY <1>a, <1>e, <1>u, <2>1, <2>3, <3>1, <3>2, ShapeToFound
  <2> QED BY <1>7, <2>4, <2>5 DEF FindProvider
<1>8. CASE RemoveProvider
  <2>1. cmd.pc = "remove" /\ provider' = Removed(cmd.target) /\ GoCmd("unbind")
        /\ UNCHANGED <<def, bound>>
    BY <1>8 DEF RemoveProvider, Step
  <2>2. cmd.op \in {"update", "delete"} /\ cmd.target \in bound
    BY <1>s, <1>t, <2>1 DEF ControlInv, CmdRow, Op, Switching, FoundShape
  <2>3. bound = {cmd.target} /\ Existing \subseteq {cmd.target}
    <3>1. CASE cmd.op = "update"
      BY <1>s, <2>1, <2>2, <3>1 DEF FoundShape
    <3>2. CASE cmd.op = "delete"
      BY <1>s, <1>u, <2>1, <2>2, <3>2 DEF AgreedShape, Agreed
    <3> QED BY <2>2, <3>1, <3>2
  <2>4. Existing' = {}
    BY <1>t, <2>1, <2>2, <2>3, ExistingMoves
  <2> QED BY <1>g, <1>t, <1>u, <2>1, <2>2, <2>3, <2>4, ShapeToGone DEF CmdPc
<1>9. CASE Unbind
  <2>1. cmd.pc = "unbind" /\ bound' = {} /\ cmd' = AfterRemove /\ UNCHANGED <<def, provider>>
    BY <1>9 DEF Unbind, Step
  <2>2. Existing' = {}
    BY <1>e, <1>s, <2>1 DEF GoneShape
  <2> QED BY <1>r, <2>1, <2>2
<1>10. CASE Provide
  <2>1. cmd.pc = "provide" /\ UNCHANGED <<def, bound>> /\ Existing = {} /\ bound = {}
    BY <1>10, <1>s DEF Provide, Step, GoneShape
  <2>2. PICK p \in Provider : /\ provider' = Created(p, cmd.task, FALSE)
                              /\ cmd' = [cmd EXCEPT !.pc = "bind", !.target = p]
    BY <1>10 DEF Provide, Unused
  <2>3. /\ cmd'.pc = "bind" /\ cmd'.op = cmd.op /\ cmd'.task = cmd.task
        /\ cmd'.previous = cmd.previous /\ cmd'.target = p
    BY <1>t, <2>2 DEF CmdRow
  <2>4. cmd.task \in Definition
    BY <1>t DEF CmdRow
  <2>5. /\ Existing' = {p} /\ provider'[p].state = "active"
        /\ provider'[p].kind = cmd.task.kind /\ provider'[p].goal = cmd.task.goal
    BY <1>t, <2>1, <2>2, <2>4, ExistingMoves
  <2> QED BY <1>u, <2>1, <2>3, <2>5, ShapeToMade
<1>11. CASE Bind
  <2>1. /\ cmd.pc = "bind" /\ UNCHANGED <<def, provider>>
        /\ bound = {} /\ Existing = {cmd.target} /\ provider[cmd.target].state = "active"
        /\ provider[cmd.target].kind = def.kind /\ provider[cmd.target].goal = def.goal
        /\ cmd.target \in Provider
    BY <1>11, <1>s, <1>x DEF Bind, Step, MadeShape, MadeFrom
  <2>2. def = cmd.task /\ def.state # "absent"
    BY <1>u, <2>1
  <2>3. bound' = {cmd.target} /\ cmd' = AfterProvide
    BY <1>11, <2>1, <2>2 DEF Bind, Bindable
  <2>4. CASE cmd.op = "create" \/ cmd.task.state = "active"
    <3>1. cmd' = CmdIdle
      BY <2>3, <2>4 DEF AfterProvide
    <3>2. def.state = "active"
      BY <1>t, <2>2, <2>4 DEF RecordInv
    <3>3. Agreed'
      BY <1>e, <2>1, <2>2, <2>3, <3>2 DEF Agreed, MadeFrom
    <3> QED BY <3>1, <3>3, ShapeTo, ProductStarts
  <2>5. CASE ~(cmd.op = "create" \/ cmd.task.state = "active")
    <3>1. cmd' = [cmd EXCEPT !.pc = "read", !.want = cmd.task.state]
      BY <2>3, <2>5 DEF AfterProvide
    <3>2. /\ cmd'.pc = "read" /\ cmd'.op = cmd.op /\ cmd'.task = cmd.task
          /\ cmd'.previous = cmd.previous /\ cmd'.want = cmd.task.state
      BY <1>t, <3>1 DEF CmdRow
    <3>3. cmd.op \in {"update", "delete"}
      BY <1>t, <2>1, <2>5 DEF ControlInv, CmdRow, Op, Switching
    <3> QED BY <1>e, <1>u, <2>1, <2>2, <2>3, <3>2, <3>3, ShapeToRead
  <2> QED BY <2>4, <2>5
<1>12. CASE Discard
  <2>1. /\ cmd.pc = "discard" /\ UNCHANGED <<def, bound>> /\ provider' = Removed(cmd.target)
        /\ Raises /\ bound = {} /\ Existing = {cmd.target} /\ cmd.target \in Provider
    BY <1>12, <1>s, <1>x DEF Discard, Step, MadeShape
  <2>2. Existing' = {}
    BY <1>t, <2>1, ExistingMoves
  <2>3. cmd.op \in {"create", "update"} /\ ~cmd.undo /\ cmd' = AfterRaise(cmd)
    BY <1>c, <1>t, <2>1 DEF Raises, ControlInv, CmdRow, Op, Switching
  <2> QED BY <1>s, <1>t, <2>1, <2>2, <2>3, ShapeRaised
<1>13. CASE ReadBinding
  <2>1. cmd.pc = "read" /\ UNCHANGED <<def, provider, bound>> /\ cmd.op \in {"state", "update", "delete"}
    BY <1>13, <1>t DEF ReadBinding, Step, ControlInv, CmdRow, Op
  <2>2. CASE def.state = "absent"
    <3>1. Raises /\ cmd.op = "state"
      BY <1>13, <1>s, <2>1, <2>2 DEF ReadBinding, TaskShape, Switching
    <3>2. Agreed'
      BY <1>a, <1>s, <2>1, <3>1 DEF AgreedShape
    <3> QED BY <1>c, <1>s, <1>t, <2>1, <3>1, <3>2, ShapeRaised DEF Raises
  <2>3. CASE def.state # "absent"
    <3>1. PICK p \in bound : bound = {p} /\ Existing \subseteq {p}
                             /\ (p \in Existing => /\ provider[p].kind = def.kind
                                                   /\ provider[p].goal = def.goal)
                             /\ (cmd.op # "state" => p \in Existing)
                             /\ (cmd.op = "state" /\ p \in Existing
                                   => provider[p].state = def.state)
      <4>1. CASE cmd.op = "state"
        BY <1>s, <2>1, <2>3, <4>1 DEF AgreedShape, Agreed, MadeFrom
      <4>2. CASE cmd.op # "state"
        BY <1>s, <2>1, <4>2 DEF MadeShape, MadeFrom
      <4> QED BY <4>1, <4>2
    <3>2. cmd' = [cmd EXCEPT !.pc = "switch", !.target = p]
      BY <1>13, <2>3, <3>1 DEF ReadBinding
    <3>3. /\ cmd'.pc = "switch" /\ cmd'.op = cmd.op /\ cmd'.task = cmd.task
          /\ cmd'.previous = cmd.previous /\ cmd'.target = p /\ cmd'.want = cmd.want
      BY <1>t, <3>2 DEF CmdRow
    <3>4. cmd.op \in {"update", "delete"} => def = cmd.task /\ cmd.want = def.state
      BY <1>s, <2>1 DEF TaskShape, Switching
    <3> QED BY <1>e, <1>u, <2>1, <2>3, <3>1, <3>3, <3>4, ShapeToSwitch
  <2> QED BY <2>2, <2>3
<1>w. ASSUME cmd.pc \in {"switch", "store", "restore"}
      PROVE  /\ def.state # "absent" /\ bound = {cmd.target} /\ Existing \subseteq {cmd.target}
             /\ cmd.target \in Provider /\ cmd.op \in {"state", "update", "delete"}
             /\ cmd.target \in Existing <=> Exists(cmd.target)
             /\ cmd.target \in Existing
                  => /\ provider[cmd.target].kind = def.kind
                     /\ provider[cmd.target].goal = def.goal
             /\ cmd.op # "state" => cmd.target \in Existing
             /\ cmd.op \in {"update", "delete"} => def = cmd.task /\ cmd.want = def.state
  BY <1>s, <1>t, <1>w DEF SwitchShape, MadeFrom, TaskShape, Switching, ControlInv, Existing, Exists,
                          CmdRow, Op
<1>14. CASE Switch
  <2>1. cmd.pc = "switch" /\ UNCHANGED <<def, bound>>
    BY <1>14 DEF Switch, Step
  <2>2. CASE ~Exists(cmd.target)
    <3>1. Raises /\ UNCHANGED provider /\ cmd.op = "state" /\ Existing = {}
      BY <1>14, <1>w, <2>1, <2>2 DEF Switch
    <3>2. Agreed'
      BY <1>e, <1>w, <2>1, <3>1 DEF Agreed
    <3> QED BY <1>c, <1>s, <1>t, <2>1, <3>1, <3>2, ShapeRaised DEF Raises
  <2>3. CASE Exists(cmd.target)
    <3>1. /\ provider' = [provider EXCEPT ![cmd.target].state = cmd.want]
          /\ cmd' = [cmd EXCEPT !.pc = "store", !.prior = provider[cmd.target].state]
      BY <1>14, <2>3 DEF Switch
    <3>2. cmd.want \in OnOff
      BY <1>t DEF CmdRow
    <3>3. /\ Existing' = Existing /\ provider'[cmd.target].state = cmd.want
          /\ provider'[cmd.target].kind = provider[cmd.target].kind
          /\ provider'[cmd.target].goal = provider[cmd.target].goal
      BY <1>t, <1>w, <2>1, <2>3, <3>1, <3>2, ExistingMoves
    <3>4. /\ cmd'.pc = "store" /\ cmd'.op = cmd.op /\ cmd'.task = cmd.task
          /\ cmd'.previous = cmd.previous /\ cmd'.target = cmd.target /\ cmd'.want = cmd.want
          /\ cmd'.prior = provider[cmd.target].state
      BY <1>t, <3>1 DEF CmdRow
    <3>5. cmd.op = "state" => provider[cmd.target].state = def.state
      BY <1>s, <1>w, <2>1, <2>3 DEF SwitchShape
    <3> QED BY <1>u, <1>w, <2>1, <2>3, <3>3, <3>4, <3>5, ShapeToSwitch
  <2> QED BY <2>2, <2>3
<1>15. CASE Store
  <2>1. /\ cmd.pc = "store" /\ UNCHANGED <<provider, bound>>
        /\ def' = [def EXCEPT !.state = cmd.want] /\ cmd' = CmdIdle
    BY <1>15, <1>w DEF Store, Step
  <2>2. /\ cmd.want \in OnOff /\ def'.state = cmd.want /\ def'.kind = def.kind
        /\ def'.goal = def.goal
    BY <1>t, <2>1 DEF CmdRow, Definition
  <2>3. cmd.target \in Existing /\ provider[cmd.target].state = cmd.want
    BY <1>s, <2>1 DEF SwitchShape
  <2>4. Agreed'
    <3>1. cmd.want # "absent"
      BY <2>2 DEF OnOff
    <3> QED BY <1>e, <1>w, <2>1, <2>2, <2>3, <3>1 DEF Agreed, MadeFrom
  <2> QED BY <2>1, <2>4, ShapeTo, ProductStarts
<1>16. CASE Restore
  <2>1. cmd.pc = "restore" /\ UNCHANGED <<def, bound>> /\ provider' = Restored /\ Raises
    BY <1>16 DEF Restore, Step
  <2>2. cmd.target \in Existing /\ (cmd.op = "state" => cmd.prior = def.state)
    BY <1>s, <2>1 DEF SwitchShape
  <2>3. cmd.prior \in OnOff
    BY <1>t DEF CmdRow
  <2>4. /\ Existing' = Existing /\ provider'[cmd.target].state = cmd.prior
        /\ provider'[cmd.target].kind = provider[cmd.target].kind
        /\ provider'[cmd.target].goal = provider[cmd.target].goal
    BY <1>t, <1>w, <2>1, <2>2, <2>3, ExistingMoves DEF Restored
  <2>5. cmd.op \in {"state", "update"} /\ ~cmd.undo /\ cmd' = AfterRaise(cmd)
    BY <1>c, <1>t, <1>w, <2>1 DEF Raises, ControlInv
  <2>6. cmd.op = "state" => Agreed'
    BY <1>w, <2>1, <2>2, <2>4 DEF Agreed, MadeFrom
  <2> QED BY <1>s, <1>t, <1>w, <2>1, <2>4, <2>5, <2>6, ShapeRaised
<1>17. CASE Revert
  <2>1. cmd.pc = "revert" /\ cmd.op = "update" /\ UNCHANGED <<provider, bound>>
    BY <1>17, <1>t DEF Revert, Step, ControlInv, CmdRow, Op, Switching
  <2>2. def.state # "absent" /\ cmd.previous.state = def.state /\ Existing = {} /\ bound = {}
    BY <1>s, <1>u, <2>1 DEF GoneShape
  <2>3. /\ def' = [cmd.previous EXCEPT !.state = def.state]
        /\ cmd' = [cmd EXCEPT !.pc = "provide", !.task = cmd.previous]
    BY <1>17, <2>2 DEF Revert
  <2>4. def' = cmd.previous
    BY <1>t, <2>2, <2>3 DEF CmdRow, Definition
  <2>5. /\ cmd'.pc = "provide" /\ cmd'.op = cmd.op /\ cmd'.task = cmd.previous
        /\ cmd'.previous = cmd.previous
    BY <1>t, <2>3 DEF CmdRow
  <2> QED BY <1>e, <2>1, <2>2, <2>4, <2>5, ShapeToGone
<1> QED
  BY <1>c, <1>1, <1>2, <1>3, <1>4, <1>5, <1>6, <1>7, <1>8, <1>9, <1>10, <1>11, <1>12, <1>13,
     <1>14, <1>15, <1>16, <1>17
  DEF CmdStep

\* The lifecycle of product Tasks keeps the invariant, whatever fails and dies.
THEOREM ProductInvariant == ProductSpec => []ProductInv
<1>1. ProductInit => ProductInv
  <2> SUFFICES ASSUME ProductInit PROVE ProductInv
    OBVIOUS
  <2>1. /\ def = NoDef /\ provider = [p \in Provider |-> NoProvider] /\ bound = {} /\ cmd = CmdIdle
        /\ repair \in {RepairIdle, RepairOff} /\ commands = 0 /\ failures = 0
        /\ logged = FALSE /\ crashed = FALSE
    BY DEF ProductInit
  <2>2. repair.pc \in {"idle", "off"}
    BY <2>1 DEF RepairIdle, RepairOff
  <2>3. def.state = "absent" /\ Existing = {}
    BY <2>1 DEF NoDef, Existing, NoProvider, OnOff
  <2>4. ProductTypeOK
    <3>1. 0 \in 0..MaxCommands /\ 0 \in 0..MaxFailures
      BY ProductAssumption
    <3> QED BY <2>1, <3>1, ProductStarts, ProductTypes
  <2>5. ControlInv /\ RecordInv
    BY <2>1, <2>2, ProductStarts DEF ControlInv, RecordInv
  <2>6. Shape
    BY <2>1, <2>3, ProductStarts
       DEF Shape, AgreedShape, TaskShape, GoneShape, FoundShape, MadeShape, SwitchShape, Agreed
  <2> QED BY <2>4, <2>5, <2>6 DEF ProductInv
<1>2. ProductInv /\ [ProductNext]_pvars => ProductInv'
  <2> SUFFICES ASSUME ProductInv, [ProductNext]_pvars PROVE ProductInv'
    OBVIOUS
  <2>1. ProductTypeOK' /\ ControlInv' /\ RecordInv'
    BY ProductTypeStep, ProductControlStep, ProductRecordStep DEF ProductInv
  <2>2. CASE ProductNext
    BY <2>1, <2>2, ProductShapeStep DEF ProductInv
  <2>3. CASE UNCHANGED pvars
    <3>1. (Calm => Shape)'
      BY <2>3 DEF ProductInv, pvars, Calm, Shape, AgreedShape, TaskShape, GoneShape, FoundShape,
                  MadeShape, SwitchShape, Agreed, Existing, MadeFrom
    <3> QED BY <2>1, <3>1 DEF ProductInv
  <2> QED BY <2>2, <2>3
<1> QED BY <1>1, <1>2, PTL DEF ProductSpec

\* The except clauses of ProductTaskLifecycle: wherever steps of a command fail, definition and
\* provider agree again when it is over, unless a rollback failed too, which is logged.
THEOREM NothingDrifts == ProductSpec => []NoSilentDrift
<1>1. ProductInv => NoSilentDrift
  <2> SUFFICES ASSUME ProductInv, Quiet, RepairAt("off"), ~crashed, ~logged PROVE Coherent
    BY DEF NoSilentDrift
  <2>1. Agreed
    BY DEF ProductInv, Calm, Shape, AgreedShape, Quiet, Step, RepairAt
  <2>2. \A p \in Provider : Exists(p) <=> p \in Existing
    BY DEF Exists, Existing
  <2>3. bound \subseteq Provider
    BY ProductTypes DEF ProductInv
  <2> QED BY <2>1, <2>2, <2>3 DEF Agreed, Coherent, MadeFrom
<1> QED BY <1>1, ProductInvariant, PTL

-----------------------------------------------------------------------------
(* The composition TLC checks (MCServices)                                 *)

\* A step of one part is a step of its component, and the other components stutter.
LEMMA ServicesStep ==
    ASSUME Approver # {}, ServicesNext \/ UNCHANGED mcvars
    PROVE  /\ [StreamNext]_svars /\ [TriggerNext]_tvars /\ [ProductNext]_pvars
           /\ [InteractionNext]_ivars /\ [ConversationNext]_cvars /\ [DelegationNext]_dvars
<1>1. CASE UNCHANGED mcvars
  BY <1>1 DEF mcvars
<1>2. CASE In("stream", Streaming) /\ UNCHANGED NotStream
  <2>1. ASSUME Writing({"feed", "final"}) PROVE StreamNext
    <3>1. Writing(EventKind)
      BY <2>1 DEF Writing, EventKind
    <3> QED
      BY <3>1 DEF StreamNext
  <2>2. Streaming => StreamNext
    BY <2>1 DEF Streaming, StreamNext
  <2> QED
    BY <1>2, <2>2 DEF In, NotStream
<1>3. CASE In("feed", Feeding) /\ UNCHANGED NotStream
  BY <1>3 DEF In, NotStream, Feeding, StreamNext
<1>4. CASE In("trigger", TriggerNext) /\ UNCHANGED NotTrigger
  BY <1>4 DEF In, NotTrigger
<1>5. CASE In("product", ProductNext) /\ UNCHANGED NotProduct
  BY <1>5 DEF In, NotProduct
<1>6. CASE In("question", InteractionNext) /\ UNCHANGED NotQuestion
  BY <1>6 DEF In, NotQuestion
<1>7. CASE In("chat", Chatting) /\ UNCHANGED NotChat
  BY <1>7 DEF In, NotChat, Chatting, ConversationNext
<1>8. CASE In("stop", Interrupting) /\ UNCHANGED NotChat
  <2>1. (CHOOSE c \in Approver : TRUE) \in Approver
    OBVIOUS
  <2>2. Interrupting => ConversationNext
    BY <2>1 DEF Interrupting, ConversationNext
  <2> QED
    BY <1>8, <2>2 DEF In, NotChat
<1>9. CASE In("viewer", Conversing) /\ UNCHANGED NotChat
  BY <1>9 DEF In, NotChat, ConversationNext
<1>10. CASE In("delegation", DelegationNext) /\ UNCHANGED NotDelegation
  BY <1>10 DEF In, NotDelegation
<1> QED
  BY <1>1, <1>2, <1>3, <1>4, <1>5, <1>6, <1>7, <1>8, <1>9, <1>10 DEF ServicesNext

\* Every behaviour of the composition is one of each of its components, with its fairness.
THEOREM ServicesCompose ==
    ASSUME Approver # {}
    PROVE  ServicesSpec => /\ StreamSpec /\ TriggerSpec /\ ProductSpec /\ InteractionSpec
                           /\ ConversationSpec /\ DelegationSpec
<1>1. ServicesInit => /\ StreamInit /\ TriggerInit /\ ProductInit /\ InteractionInit
                      /\ ConversationInit /\ DelegationInit
  BY DEF ServicesInit
<1>2. [ServicesNext]_mcvars
        => /\ [StreamNext]_svars /\ [TriggerNext]_tvars /\ [ProductNext]_pvars
           /\ [InteractionNext]_ivars /\ [ConversationNext]_cvars /\ [DelegationNext]_dvars
  BY ServicesStep
<1> QED
  BY <1>1, <1>2, PTL
  DEF ServicesSpec, StreamSpec, TriggerSpec, ProductSpec, InteractionSpec, ConversationSpec,
      DelegationSpec

\* The variables of the composition keep their types.
THEOREM ServicesTypeCorrect ==
    ASSUME Approver # {}
    PROVE  ServicesSpec => []ServicesTypeOK
<1>1. ServicesSpec => [](part \in Part)
  <2>1. part \in Part /\ [ServicesNext]_mcvars => (part \in Part)'
    BY DEF ServicesNext, mcvars, In
  <2>2. ServicesInit => part \in Part
    BY DEF ServicesInit
  <2> QED
    BY <2>1, <2>2, PTL DEF ServicesSpec
<1>2. ASSUME StreamInv, TriggerInv, ProductInv, InteractionInv, ConversationInv, DelegationTypeOK,
             part \in Part
      PROVE  ServicesTypeOK
  BY <1>2 DEF StreamInv, TriggerInv, ProductInv, InteractionInv, ConversationInv, ServicesTypeOK
<1> QED
  BY <1>1, <1>2, ServicesCompose, StreamInvariant, TriggerInvariant, ProductInvariant,
     InteractionInvariant, ConversationInvariant, DelegationTypeCorrect, PTL
================================================================================
