-------------------------- MODULE DurableTask_proofs --------------------------
(* Machine-checked proofs about the durable Task aggregate. *)
EXTENDS DurableTask, FiniteSetTheorems, WellFoundedInduction, TLAPS

-----------------------------------------------------------------------------
(* Type correctness. *)

\* AppendEvent keeps next_event_seq and the journal summary well-typed.
LEMMA AppendTyped ==
    ASSUME TypeOK, NEW S, NEW after \in [Task -> TaskState], AppendEvent(S, after)
    PROVE  nextSeq' \in [Task -> Nat] /\ journal' \in [Task -> JournalSummary]
BY DEF TypeOK, AppendEvent, JournalSummary, TaskState

LEMMA AppendOneTyped ==
    ASSUME TypeOK, NEW t \in Task, NEW s \in TaskState, AppendOne(t, s)
    PROVE  nextSeq' \in [Task -> Nat] /\ journal' \in [Task -> JournalSummary]
BY AppendTyped DEF AppendOne

\* Finishing the running attempts keeps the attempt table well-typed.
LEMMA FinishTyped ==
    ASSUME TypeOK, NEW S, NEW result \in [Task -> AttemptState],
           FinishActiveAttempt(S, result)
    PROVE  attempt' \in [Task -> [Ordinal -> AttemptState]]
BY DEF TypeOK, FinishActiveAttempt

LEMMA FinishOneTyped ==
    ASSUME TypeOK, NEW t \in Task, NEW r \in AttemptState, FinishOne(t, r)
    PROVE  attempt' \in [Task -> [Ordinal -> AttemptState]]
BY FinishTyped DEF FinishOne

LEMMA QuarantinedTyped ==
    ASSUME TypeOK, NEW t \in Task
    PROVE  Quarantined(t) \in [Step -> StepState]
BY DEF TypeOK, Quarantined, StepState

LEMMA CancelPendingTyped ==
    ASSUME TypeOK, NEW t \in Task
    PROVE  CancelPending(t) \in [Task -> [Action -> ApprovalState]]
BY DEF TypeOK, CancelPending, ApprovalState

LEMMA InitTyped == Init => TypeOK
<1> SUFFICES ASSUME Init PROVE TypeOK
  OBVIOUS
<1>1. /\ journal \in [Task -> JournalSummary]
      /\ nextSeq \in [Task -> Nat]
      /\ createdAt \in [Task -> Nat]
  <2>1. [rows |-> 0, last |-> 0, shown |-> "absent", terminals |-> 0] \in JournalSummary
    BY DEF JournalSummary, TaskState
  <2> QED
    BY <2>1 DEF Init
<1>2. attemptCount \in [Task -> 0..MaxAttempts]
  <2>1. 0 \in 0..MaxAttempts
    BY ConstantsAssumption
  <2> QED
    BY <2>1 DEF Init
<1> QED
  BY <1>1, <1>2
  DEF Init, TypeOK, TaskState, Phase, LeaseState, AttemptState, ApprovalState, StepState

LEMMA StatesAreStates ==
    /\ Live \subseteq TaskState
    /\ Terminal \subseteq TaskState
    /\ TransitionTarget \subseteq TaskState
    /\ \A target \in TransitionTarget : AttemptResult[target] \in AttemptState
BY DEF Live, Terminal, TaskState, TransitionTarget, AttemptResult, AttemptState

\* Every step keeps the types.
LEMMA NextTyped == TypeOK /\ [Next]_vars => TypeOK'
<1> SUFFICES ASSUME TypeOK, [Next]_vars PROVE TypeOK'
  OBVIOUS
<1> USE DEF taskVars, attemptVars, journalVars
<1>s. /\ {"queued", "running", "paused", "waiting_approval", "cancelled"} \subseteq TaskState
      /\ {"interrupted", "cancelled", "running"} \subseteq AttemptState
  BY DEF TaskState, Live, Terminal, AttemptState
<1>1. ASSUME NEW t \in Task, ClientCommand(t) PROVE TypeOK'
  <2>1. CASE Create(t)
    <3>1. CreationRank \in Nat
      <4>1. IsFiniteSet({u \in Task : Created(u)})
        BY ConstantsAssumption, FS_Subset
      <4> QED
        BY <4>1, FS_CardinalityType DEF CreationRank
    <3>2. AppendOne(t, "queued")
      BY <2>1 DEF Create
    <3>3. nextSeq' \in [Task -> Nat] /\ journal' \in [Task -> JournalSummary]
      BY <3>2, <1>s, AppendOneTyped
    <3> QED
      BY <2>1, <3>1, <3>3 DEF Create, TypeOK, TaskState, Live, Phase, InitialPhase
  <2>2. CASE CancelIdle(t)
    <3>1. AppendOne(t, "cancelled")
      BY <2>2 DEF CancelIdle
    <3>2. nextSeq' \in [Task -> Nat] /\ journal' \in [Task -> JournalSummary]
      BY <3>1, <1>s, AppendOneTyped
    <3>3. /\ approval' \in [Task -> [Action -> ApprovalState]]
          /\ attempt' \in [Task -> [Ordinal -> AttemptState]]
      <4>1. CASE state[t] = "waiting_approval"
        BY <2>2, <4>1, <1>s, CancelPendingTyped, FinishOneTyped DEF CancelIdle
      <4>2. CASE state[t] # "waiting_approval"
        BY <2>2, <4>2 DEF CancelIdle, TypeOK
      <4> QED
        BY <4>1, <4>2
    <3> QED
      BY <2>2, <3>2, <3>3 DEF CancelIdle, TypeOK, TaskState, Terminal, LeaseState
  <2>3. CASE CancelRunning(t)
    <3>1. nextSeq' \in [Task -> Nat] /\ journal' \in [Task -> JournalSummary]
      BY <2>3, <1>s, AppendOneTyped DEF CancelRunning
    <3> QED
      BY <2>3, <3>1 DEF CancelRunning, TypeOK
  <2>4. CASE PauseIdle(t)
    <3>1. nextSeq' \in [Task -> Nat] /\ journal' \in [Task -> JournalSummary]
      BY <2>4, <1>s, AppendOneTyped DEF PauseIdle
    <3>2. /\ approval' \in [Task -> [Action -> ApprovalState]]
          /\ attempt' \in [Task -> [Ordinal -> AttemptState]]
      <4>1. CASE state[t] = "waiting_approval"
        BY <2>4, <4>1, <1>s, CancelPendingTyped, FinishOneTyped DEF PauseIdle
      <4>2. CASE state[t] # "waiting_approval"
        BY <2>4, <4>2 DEF PauseIdle, TypeOK
      <4> QED
        BY <4>1, <4>2
    <3> QED
      BY <2>4, <3>1, <3>2 DEF PauseIdle, TypeOK, TaskState, Live, LeaseState, Phase
  <2>5. CASE PauseRunning(t)
    <3>1. nextSeq' \in [Task -> Nat] /\ journal' \in [Task -> JournalSummary]
      BY <2>5, <1>s, AppendOneTyped DEF PauseRunning
    <3> QED
      BY <2>5, <3>1 DEF PauseRunning, TypeOK, Phase
  <2>6. ASSUME NEW ack \in BOOLEAN, Resume(t, ack) PROVE TypeOK'
    <3>1. nextSeq' \in [Task -> Nat] /\ journal' \in [Task -> JournalSummary]
      BY <2>6, <1>s, AppendOneTyped DEF Resume
    <3> QED
      BY <2>6, <3>1 DEF Resume, TypeOK, TaskState, Live, LeaseState, Phase
  <2>7. CASE ActivateStaged(t)
    BY <2>7 DEF ActivateStaged, TypeOK, Phase
  <2> QED
    BY <1>1, <2>1, <2>2, <2>3, <2>4, <2>5, <2>6, <2>7
    DEF ClientCommand, RequestCancel, RequestPause
<1>2. ASSUME NEW t \in Task, ExecutorWrite(t) PROVE TypeOK'
  <2>1. CASE ClaimNext(t)
    <3>1. nextSeq' \in [Task -> Nat] /\ journal' \in [Task -> JournalSummary]
      BY <2>1, <1>s, AppendOneTyped DEF ClaimNext
    <3>2. attemptCount[t] + 1 \in 0..MaxAttempts /\ attemptCount[t] + 1 \in Ordinal
      BY <2>1, ConstantsAssumption DEF ClaimNext, TypeOK, Ordinal
    <3> QED
      BY <2>1, <3>1, <3>2
      DEF ClaimNext, TypeOK, TaskState, Live, LeaseState, AttemptState
  <2>2. CASE AppendArtifact(t)
    <3>1. journal[t].shown \in TaskState
      BY DEF TypeOK, JournalSummary
    <3>2. nextSeq' \in [Task -> Nat] /\ journal' \in [Task -> JournalSummary]
      BY <2>2, <3>1, AppendOneTyped DEF AppendArtifact
    <3> QED
      BY <2>2, <3>2 DEF AppendArtifact, TypeOK
  <2>3. ASSUME NEW target \in TransitionTarget, NEW newPhase \in Phase,
               Transition(t, target, newPhase)
        PROVE  TypeOK'
    <3>1. nextSeq' \in [Task -> Nat] /\ journal' \in [Task -> JournalSummary]
      BY <2>3, StatesAreStates, AppendOneTyped DEF Transition
    <3>2. attempt' \in [Task -> [Ordinal -> AttemptState]]
      BY <2>3, StatesAreStates, FinishOneTyped DEF Transition
    <3> QED
      BY <2>3, <3>1, <3>2, StatesAreStates DEF Transition, TypeOK, LeaseState
  <2>4. CASE RenewLease(t)
    BY <2>4 DEF RenewLease, TypeOK, LeaseState
  <2>5. CASE PauseForUnknownToolOutcome(t)
    <3>1. nextSeq' \in [Task -> Nat] /\ journal' \in [Task -> JournalSummary]
      BY <2>5, <1>s, AppendOneTyped DEF PauseForUnknownToolOutcome
    <3>2. attempt' \in [Task -> [Ordinal -> AttemptState]]
      BY <2>5, <1>s, FinishOneTyped DEF PauseForUnknownToolOutcome
    <3> QED
      BY <2>5, <3>1, <3>2, QuarantinedTyped
      DEF PauseForUnknownToolOutcome, TypeOK, TaskState, Live, LeaseState, Phase
  <2>6. ASSUME NEW s \in Step, BeginToolStep(t, s) PROVE TypeOK'
    BY <2>6 DEF BeginToolStep, TypeOK, StepState
  <2>7. ASSUME NEW s \in Step, NEW result \in {"completed", "failed"},
               FinishToolStep(t, s, result)
        PROVE  TypeOK'
    BY <2>7 DEF FinishToolStep, TypeOK, StepState
  <2>8. ASSUME NEW a \in Action, RequestApproval(t, a) PROVE TypeOK'
    <3>1. nextSeq' \in [Task -> Nat] /\ journal' \in [Task -> JournalSummary]
      BY <2>8, <1>s, AppendOneTyped DEF RequestApproval
    <3> QED
      BY <2>8, <3>1 DEF RequestApproval, TypeOK, TaskState, Live, ApprovalState
  <2>9. "manual_pause" \in Phase /\ "" \in Phase
    BY DEF Phase
  <2> QED
    BY <1>2, <2>1, <2>2, <2>3, <2>4, <2>5, <2>6, <2>7, <2>8, <2>9 DEF ExecutorWrite
<1>3. ASSUME NEW t \in Task, Decision(t) PROVE TypeOK'
  <2> PICK a \in Action, decision \in {"approved", "denied"}, r \in ResumeStates(t) :
        ResolveApproval(t, a, decision, r)
    BY <1>3 DEF Decision
  <2>1. r \in TaskState /\ r \in {"queued", "running"}
    BY <1>s DEF ResumeStates
  <2>2. nextSeq' \in [Task -> Nat] /\ journal' \in [Task -> JournalSummary]
    BY <2>1, AppendOneTyped DEF ResolveApproval
  <2>3. /\ attempt' \in [Task -> [Ordinal -> AttemptState]]
        /\ lease' \in [Task -> LeaseState]
    <3>1. CASE r = "queued"
      BY <3>1, <1>s, FinishOneTyped DEF ResolveApproval, TypeOK, LeaseState
    <3>2. CASE r # "queued"
      BY <3>2 DEF ResolveApproval, TypeOK
    <3> QED
      BY <3>1, <3>2
  <2> QED
    BY <2>1, <2>2, <2>3 DEF ResolveApproval, TypeOK, ApprovalState
<1>4. ASSUME NEW t \in Task, LeaseExpires(t) PROVE TypeOK'
  BY <1>4 DEF LeaseExpires, TypeOK, LeaseState
<1>5. CASE RecoverExpiredLeases
  <2>1. [t \in Task |-> "paused"] \in [Task -> TaskState]
    BY <1>s
  <2>2. nextSeq' \in [Task -> Nat] /\ journal' \in [Task -> JournalSummary]
    BY <1>5, <2>1, AppendTyped DEF RecoverExpiredLeases
  <2>3. attempt' \in [Task -> [Ordinal -> AttemptState]]
    BY <1>5, <1>s, FinishTyped DEF RecoverExpiredLeases
  <2> QED
    BY <1>5, <2>2, <2>3
    DEF RecoverExpiredLeases, TypeOK, TaskState, Live, LeaseState, Phase
<1>6. CASE RecoverInterrupted
  <2>1. [t \in Task |-> IF state[t] = "running" THEN "paused" ELSE state[t]]
            \in [Task -> TaskState]
    BY <1>s DEF TypeOK
  <2>2. nextSeq' \in [Task -> Nat] /\ journal' \in [Task -> JournalSummary]
    BY <1>6, <2>1, AppendTyped DEF RecoverInterrupted
  <2>3. attempt' \in [Task -> [Ordinal -> AttemptState]]
    BY <1>6, <1>s, FinishTyped DEF RecoverInterrupted
  <2>4. \A t \in Task : RecoveredPhase(t) \in Phase
    BY DEF RecoveredPhase, Phase
  <2>5. toolStep' \in [Task -> [Step -> StepState]]
    BY <1>6, QuarantinedTyped DEF RecoverInterrupted
  <2> QED
    BY <1>6, <2>1, <2>2, <2>3, <2>4, <2>5
    DEF RecoverInterrupted, TypeOK, LeaseState
<1>7. CASE UNCHANGED vars
  BY <1>7 DEF vars, TypeOK
<1> QED
  BY <1>1, <1>2, <1>3, <1>4, <1>5, <1>6, <1>7 DEF Next

\* TypeOK: the rows of the five task tables keep their types in every
\* behaviour of the repository.
THEOREM TypeCorrect == Spec => []TypeOK
BY InitTyped, NextTyped, PTL DEF Spec

-----------------------------------------------------------------------------
(* The journal tells the state of the Task. *)

\* Every repository method that writes events appends one event per Task it
\* touches, to unfinished Tasks only, showing the state it stores.
LEMMA AppendKeepsJournal ==
    ASSUME TypeOK, JournalMatchesTask, NEW S, NEW after, AppendEvent(S, after),
           \A t \in Task : t \in S => state[t] \notin Terminal /\ state'[t] = after[t],
           \A t \in Task : t \notin S => state'[t] = state[t]
    PROVE  JournalMatchesTask'
BY DEF TypeOK, JournalMatchesTask, AppendEvent, JournalSummary

LEMMA AppendOneKeepsJournal ==
    ASSUME TypeOK, JournalMatchesTask, NEW t \in Task, NEW x, AppendOne(t, x),
           state[t] \notin Terminal, state' = [state EXCEPT ![t] = x]
    PROVE  JournalMatchesTask'
<1>1. /\ \A u \in Task : u \in {t} => state[u] \notin Terminal
                                       /\ state'[u] = [v \in Task |-> x][u]
      /\ \A u \in Task : u \notin {t} => state'[u] = state[u]
  BY DEF TypeOK
<1> QED
  BY <1>1, AppendKeepsJournal DEF AppendOne

\* Steps that write no event leave the state of every Task alone.
LEMMA SilentKeepsJournal ==
    ASSUME JournalMatchesTask, UNCHANGED <<state, nextSeq, journal>>
    PROVE  JournalMatchesTask'
BY DEF JournalMatchesTask

\* _TRANSITIONS has no way out of a terminal state.
LEMMA TransitionFromLive ==
    ASSUME NEW t \in Task, NEW target, CanTransition(t, target)
    PROVE  state[t] \notin Terminal
<1>1. /\ Transitions["completed"] = {}
      /\ Transitions["failed"] = {}
      /\ Transitions["cancelled"] = {}
  BY DEF Transitions
<1> QED
  BY <1>1 DEF CanTransition, Terminal

LEMMA NextKeepsJournal == TypeOK /\ JournalMatchesTask /\ [Next]_vars => JournalMatchesTask'
<1> SUFFICES ASSUME TypeOK, JournalMatchesTask, [Next]_vars PROVE JournalMatchesTask'
  OBVIOUS
<1> USE DEF taskVars, attemptVars, journalVars
<1>1. ASSUME NEW t \in Task, ClientCommand(t) PROVE JournalMatchesTask'
  <2>1. CASE Create(t)
    BY <2>1, AppendOneKeepsJournal DEF Create, CreateOutcome, Created, Terminal
  <2>2. CASE CancelIdle(t)
    BY <2>2, AppendOneKeepsJournal DEF CancelIdle, Terminal
  <2>3. CASE CancelRunning(t)
    <3>1. state' = [state EXCEPT ![t] = "running"] /\ state[t] \notin Terminal
      BY <2>3 DEF CancelRunning, TypeOK, Terminal
    <3> QED
      BY <2>3, <3>1, AppendOneKeepsJournal DEF CancelRunning
  <2>4. CASE PauseIdle(t)
    BY <2>4, AppendOneKeepsJournal DEF PauseIdle, Terminal
  <2>5. CASE PauseRunning(t)
    <3>1. state' = [state EXCEPT ![t] = "running"] /\ state[t] \notin Terminal
      BY <2>5 DEF PauseRunning, TypeOK, Terminal
    <3> QED
      BY <2>5, <3>1, AppendOneKeepsJournal DEF PauseRunning
  <2>6. ASSUME NEW ack \in BOOLEAN, Resume(t, ack) PROVE JournalMatchesTask'
    BY <2>6, AppendOneKeepsJournal DEF Resume, Terminal
  <2>7. CASE ActivateStaged(t)
    BY <2>7, SilentKeepsJournal DEF ActivateStaged
  <2> QED
    BY <1>1, <2>1, <2>2, <2>3, <2>4, <2>5, <2>6, <2>7
    DEF ClientCommand, RequestCancel, RequestPause
<1>2. ASSUME NEW t \in Task, ExecutorWrite(t) PROVE JournalMatchesTask'
  <2>1. CASE ClaimNext(t)
    BY <2>1, AppendOneKeepsJournal DEF ClaimNext, NextClaim, Claimable, Terminal
  <2>2. CASE AppendArtifact(t)
    <3>1. state[t] \notin Terminal /\ state' = [state EXCEPT ![t] = journal[t].shown]
      BY <2>2 DEF AppendArtifact, JournalMatchesTask, TypeOK, Live, Terminal
    <3> QED
      BY <2>2, <3>1, AppendOneKeepsJournal DEF AppendArtifact
  <2>3. ASSUME NEW target \in TransitionTarget, NEW newPhase \in Phase,
               Transition(t, target, newPhase)
        PROVE  JournalMatchesTask'
    BY <2>3, TransitionFromLive, AppendOneKeepsJournal DEF Transition
  <2>4. CASE RenewLease(t)
    BY <2>4, SilentKeepsJournal DEF RenewLease
  <2>5. CASE PauseForUnknownToolOutcome(t)
    BY <2>5, AppendOneKeepsJournal DEF PauseForUnknownToolOutcome, Terminal
  <2>6. ASSUME NEW s \in Step, BeginToolStep(t, s) PROVE JournalMatchesTask'
    BY <2>6, SilentKeepsJournal DEF BeginToolStep
  <2>7. ASSUME NEW s \in Step, NEW result \in {"completed", "failed"},
               FinishToolStep(t, s, result)
        PROVE  JournalMatchesTask'
    BY <2>7, SilentKeepsJournal DEF FinishToolStep
  <2>8. ASSUME NEW a \in Action, RequestApproval(t, a) PROVE JournalMatchesTask'
    BY <2>8, AppendOneKeepsJournal DEF RequestApproval, Terminal
  <2>9. "manual_pause" \in Phase /\ "" \in Phase
    BY DEF Phase
  <2> QED
    BY <1>2, <2>1, <2>2, <2>3, <2>4, <2>5, <2>6, <2>7, <2>8, <2>9 DEF ExecutorWrite
<1>3. ASSUME NEW t \in Task, Decision(t) PROVE JournalMatchesTask'
  <2> PICK a \in Action, decision \in {"approved", "denied"}, r \in ResumeStates(t) :
        ResolveApproval(t, a, decision, r)
    BY <1>3 DEF Decision
  <2> QED
    BY AppendOneKeepsJournal DEF ResolveApproval, Terminal
<1>4. ASSUME NEW t \in Task, LeaseExpires(t) PROVE JournalMatchesTask'
  BY <1>4, SilentKeepsJournal DEF LeaseExpires
<1>5. CASE RecoverExpiredLeases
  <2> DEFINE after == [t \in Task |-> "paused"]
  <2>1. AppendEvent(ExpiredTasks, after)
    BY <1>5 DEF RecoverExpiredLeases
  <2>2. /\ \A t \in Task : t \in ExpiredTasks => state[t] \notin Terminal /\ state'[t] = after[t]
        /\ \A t \in Task : t \notin ExpiredTasks => state'[t] = state[t]
    BY <1>5 DEF RecoverExpiredLeases, ExpiredTasks, Terminal
  <2> QED
    BY <2>1, <2>2, AppendKeepsJournal
<1>6. CASE RecoverInterrupted
  <2> DEFINE after == [t \in Task |-> IF state[t] = "running" THEN "paused" ELSE state[t]]
  <2>1. AppendEvent(Interrupted, after)
    BY <1>6 DEF RecoverInterrupted
  <2>2. /\ \A t \in Task : t \in Interrupted => state[t] \notin Terminal /\ state'[t] = after[t]
        /\ \A t \in Task : t \notin Interrupted => state'[t] = state[t]
    BY <1>6 DEF RecoverInterrupted, Interrupted, Active, Terminal
  <2> QED
    BY <2>1, <2>2, AppendKeepsJournal
<1>7. CASE UNCHANGED vars
  BY <1>7, SilentKeepsJournal DEF vars
<1> QED
  BY <1>1, <1>2, <1>3, <1>4, <1>5, <1>6, <1>7 DEF Next

LEMMA InitJournal == Init => JournalMatchesTask
<1> SUFFICES ASSUME Init, NEW t \in Task
             PROVE  /\ journal[t].rows = nextSeq[t] - 1
                    /\ journal[t].last = nextSeq[t] - 1
                    /\ journal[t].shown = state[t]
                    /\ journal[t].terminals = IF state[t] \in Terminal THEN 1 ELSE 0
  BY DEF JournalMatchesTask
<1>1. /\ journal[t] = [rows |-> 0, last |-> 0, shown |-> "absent", terminals |-> 0]
      /\ nextSeq[t] = 1
      /\ state[t] = "absent"
  BY DEF Init
<1> QED
  BY <1>1 DEF Terminal

\* JournalMatchesTask: in every behaviour of the repository a client that has
\* read the journal knows the state of the Task, without gaps and with at most
\* one terminal event.
THEOREM JournalCorrect == Spec => []JournalMatchesTask
BY InitTyped, NextTyped, InitJournal, NextKeepsJournal, PTL DEF Spec

-----------------------------------------------------------------------------
(* One lease, one attempt. *)

\* Ending the attempts of the Tasks in S together with their leases, for
\* Tasks that leave `running'.
LEMMA ReleaseKeepsLease ==
    ASSUME TypeOK, LeaseFollowsAttempt, NEW S, NEW result,
           FinishActiveAttempt(S, result),
           \A t \in Task : t \in S => result[t] # "running" /\ state'[t] # "running",
           \A t \in Task : t \notin S => state'[t] = state[t],
           \A t \in Task : lease'[t] = IF t \in S THEN "none" ELSE lease[t],
           attemptCount' = attemptCount
    PROVE  LeaseFollowsAttempt'
<1> SUFFICES ASSUME NEW t \in Task
             PROVE  /\ \A k \in Ordinal : attempt'[t][k] = "running" => k = attemptCount'[t]
                    /\ lease'[t] # "none" <=> \E k \in Ordinal : attempt'[t][k] = "running"
                    /\ state'[t] = "running" => lease'[t] # "none"
                    /\ lease'[t] # "none" => state'[t] \in Active
  BY DEF LeaseFollowsAttempt, HasRunningAttempt
<1>1. CASE t \in S
  <2>1. \A k \in Ordinal : attempt'[t][k] # "running"
    BY <1>1 DEF FinishActiveAttempt
  <2> QED
    BY <1>1, <2>1
<1>2. CASE t \notin S
  <2>1. attempt'[t] = attempt[t]
    BY <1>2 DEF FinishActiveAttempt
  <2> QED
    BY <1>2, <2>1 DEF LeaseFollowsAttempt, HasRunningAttempt
<1> QED
  BY <1>1, <1>2

LEMMA ReleaseOneKeepsLease ==
    ASSUME TypeOK, LeaseFollowsAttempt, NEW t \in Task, NEW r, NEW x,
           FinishOne(t, r), r # "running", x # "running",
           state' = [state EXCEPT ![t] = x],
           lease' = [lease EXCEPT ![t] = "none"],
           attemptCount' = attemptCount
    PROVE  LeaseFollowsAttempt'
<1> DEFINE result == [u \in Task |-> r]
<1>1. FinishActiveAttempt({t}, result)
  BY DEF FinishOne
<1>2. /\ \A u \in Task : u \in {t} => result[u] # "running" /\ state'[u] # "running"
      /\ \A u \in Task : u \notin {t} => state'[u] = state[u]
      /\ \A u \in Task : lease'[u] = IF u \in {t} THEN "none" ELSE lease[u]
  BY DEF TypeOK
<1> QED
  BY <1>1, <1>2, ReleaseKeepsLease

\* Steps that leave the attempts alone: a Task without a lease stays without
\* one and is not made running, the others stay running or waiting.
LEMMA SameAttemptsKeepLease ==
    ASSUME TypeOK, LeaseFollowsAttempt, UNCHANGED attemptVars,
           \A t \in Task : lease'[t] = "none" <=> lease[t] = "none",
           \A t \in Task : lease[t] = "none" => state'[t] # "running",
           \A t \in Task : lease[t] # "none" => state'[t] \in Active
    PROVE  LeaseFollowsAttempt'
BY DEF LeaseFollowsAttempt, HasRunningAttempt, attemptVars

LEMMA IdleHasNoLease ==
    ASSUME LeaseFollowsAttempt, NEW t \in Task, state[t] \notin Active
    PROVE  lease[t] = "none"
BY DEF LeaseFollowsAttempt

LEMMA NextKeepsLease == TypeOK /\ LeaseFollowsAttempt /\ [Next]_vars => LeaseFollowsAttempt'
<1> SUFFICES ASSUME TypeOK, LeaseFollowsAttempt, [Next]_vars PROVE LeaseFollowsAttempt'
  OBVIOUS
<1> USE DEF taskVars, attemptVars, journalVars
<1>r. \A t \in Task : lease[t] = "none" => state[t] # "running"
  BY DEF LeaseFollowsAttempt
<1>a. \A t \in Task : lease[t] # "none" => state[t] \in Active
  BY DEF LeaseFollowsAttempt
<1>1. ASSUME NEW t \in Task, ClientCommand(t) PROVE LeaseFollowsAttempt'
  <2>1. CASE Create(t)
    <3>1. lease[t] = "none"
      BY <2>1, IdleHasNoLease DEF Create, CreateOutcome, Created, Active
    <3> QED
      BY <2>1, <3>1, <1>r, <1>a, SameAttemptsKeepLease DEF Create, TypeOK
  <2>2. CASE CancelIdle(t)
    <3>1. CASE state[t] = "waiting_approval"
      BY <2>2, <3>1, ReleaseOneKeepsLease DEF CancelIdle
    <3>2. CASE state[t] # "waiting_approval"
      <4>1. lease[t] = "none"
        BY <2>2, <3>2, IdleHasNoLease DEF CancelIdle, Active
      <4> QED
        BY <2>2, <3>2, <4>1, <1>r, <1>a, SameAttemptsKeepLease DEF CancelIdle, TypeOK
    <3> QED
      BY <3>1, <3>2
  <2>3. CASE CancelRunning(t)
    BY <2>3, <1>r, <1>a, SameAttemptsKeepLease DEF CancelRunning
  <2>4. CASE PauseIdle(t)
    <3>1. CASE state[t] = "waiting_approval"
      BY <2>4, <3>1, ReleaseOneKeepsLease DEF PauseIdle
    <3>2. CASE state[t] # "waiting_approval"
      <4>1. lease[t] = "none"
        BY <2>4, <3>2, IdleHasNoLease DEF PauseIdle, Active
      <4> QED
        BY <2>4, <3>2, <4>1, <1>r, <1>a, SameAttemptsKeepLease DEF PauseIdle, TypeOK
    <3> QED
      BY <3>1, <3>2
  <2>5. CASE PauseRunning(t)
    BY <2>5, <1>r, <1>a, SameAttemptsKeepLease DEF PauseRunning
  <2>6. ASSUME NEW ack \in BOOLEAN, Resume(t, ack) PROVE LeaseFollowsAttempt'
    <3>1. lease[t] = "none"
      BY <2>6, IdleHasNoLease DEF Resume, Active
    <3> QED
      BY <2>6, <3>1, <1>r, <1>a, SameAttemptsKeepLease DEF Resume, TypeOK
  <2>7. CASE ActivateStaged(t)
    BY <2>7, <1>r, <1>a, SameAttemptsKeepLease DEF ActivateStaged
  <2> QED
    BY <1>1, <2>1, <2>2, <2>3, <2>4, <2>5, <2>6, <2>7
    DEF ClientCommand, RequestCancel, RequestPause
<1>2. ASSUME NEW t \in Task, ExecutorWrite(t) PROVE LeaseFollowsAttempt'
  <2>1. CASE ClaimNext(t)
    <3>1. lease[t] = "none" /\ ~HasRunningAttempt(t)
      BY <2>1, IdleHasNoLease
      DEF ClaimNext, NextClaim, Claimable, Active, LeaseFollowsAttempt
    <3>2. attemptCount[t] + 1 \in Ordinal
      BY <2>1, ConstantsAssumption DEF ClaimNext, TypeOK, Ordinal
    <3>3. SUFFICES ASSUME NEW u \in Task
          PROVE  /\ \A k \in Ordinal : attempt'[u][k] = "running" => k = attemptCount'[u]
                 /\ lease'[u] # "none" <=> \E k \in Ordinal : attempt'[u][k] = "running"
                 /\ state'[u] = "running" => lease'[u] # "none"
                 /\ lease'[u] # "none" => state'[u] \in Active
      BY DEF LeaseFollowsAttempt, HasRunningAttempt
    <3>4. CASE u = t
      <4>1. /\ attempt'[t] = [attempt[t] EXCEPT ![attemptCount[t] + 1] = "running"]
            /\ attemptCount'[t] = attemptCount[t] + 1
            /\ lease'[t] = "fresh"
            /\ state'[t] = "running"
        BY <2>1 DEF ClaimNext, TypeOK
      <4>2. attempt[t] \in [Ordinal -> AttemptState]
        BY DEF TypeOK
      <4> QED
        BY <3>1, <3>2, <3>4, <4>1, <4>2 DEF HasRunningAttempt, Active
    <3>5. CASE u # t
      <4>1. /\ attempt'[u] = attempt[u]
            /\ attemptCount'[u] = attemptCount[u]
            /\ lease'[u] = lease[u]
            /\ state'[u] = state[u]
        BY <2>1, <3>5 DEF ClaimNext, TypeOK
      <4> QED
        BY <4>1 DEF LeaseFollowsAttempt, HasRunningAttempt
    <3> QED
      BY <3>4, <3>5
  <2>2. CASE AppendArtifact(t)
    BY <2>2, <1>r, <1>a, SameAttemptsKeepLease DEF AppendArtifact
  <2>3. ASSUME NEW target \in TransitionTarget, NEW newPhase \in Phase,
               Transition(t, target, newPhase)
        PROVE  LeaseFollowsAttempt'
    <3>1. target # "running" /\ AttemptResult[target] # "running"
      BY DEF TransitionTarget, AttemptResult
    <3> QED
      BY <2>3, <3>1, ReleaseOneKeepsLease DEF Transition
  <2>4. CASE RenewLease(t)
    <3>1. \A u \in Task : lease'[u] = "none" <=> lease[u] = "none"
      BY <2>4 DEF RenewLease, CanRenew, TypeOK
    <3> QED
      BY <2>4, <3>1, <1>r, <1>a, SameAttemptsKeepLease DEF RenewLease
  <2>5. CASE PauseForUnknownToolOutcome(t)
    BY <2>5, ReleaseOneKeepsLease DEF PauseForUnknownToolOutcome
  <2>6. ASSUME NEW s \in Step, BeginToolStep(t, s) PROVE LeaseFollowsAttempt'
    BY <2>6, <1>r, <1>a, SameAttemptsKeepLease DEF BeginToolStep
  <2>7. ASSUME NEW s \in Step, NEW result \in {"completed", "failed"},
               FinishToolStep(t, s, result)
        PROVE  LeaseFollowsAttempt'
    BY <2>7, <1>r, <1>a, SameAttemptsKeepLease DEF FinishToolStep
  <2>8. ASSUME NEW a \in Action, RequestApproval(t, a) PROVE LeaseFollowsAttempt'
    <3>1. \A u \in Task : lease[u] = "none" => state'[u] # "running"
      BY <2>8, <1>r DEF RequestApproval, TypeOK
    <3>2. \A u \in Task : lease[u] # "none" => state'[u] \in Active
      BY <2>8, <1>a DEF RequestApproval, TypeOK, Active
    <3> QED
      BY <2>8, <3>1, <3>2, SameAttemptsKeepLease DEF RequestApproval
  <2>9. "manual_pause" \in Phase /\ "" \in Phase
    BY DEF Phase
  <2> QED
    BY <1>2, <2>1, <2>2, <2>3, <2>4, <2>5, <2>6, <2>7, <2>8, <2>9 DEF ExecutorWrite
<1>3. ASSUME NEW t \in Task, Decision(t) PROVE LeaseFollowsAttempt'
  <2> PICK a \in Action, decision \in {"approved", "denied"}, r \in ResumeStates(t) :
        ResolveApproval(t, a, decision, r)
    BY <1>3 DEF Decision
  <2>1. CASE r = "queued"
    BY <2>1, ReleaseOneKeepsLease DEF ResolveApproval
  <2>2. CASE r # "queued"
    <3>1. r = "running" /\ lease[t] # "none"
      BY <2>2 DEF ResumeStates
    <3>2. \A u \in Task : lease[u] = "none" => state'[u] # "running"
      BY <3>1, <1>r DEF ResolveApproval, TypeOK
    <3>3. \A u \in Task : lease[u] # "none" => state'[u] \in Active
      BY <3>1, <1>a DEF ResolveApproval, TypeOK, Active
    <3> QED
      BY <2>2, <3>2, <3>3, SameAttemptsKeepLease DEF ResolveApproval
  <2> QED
    BY <2>1, <2>2
<1>4. ASSUME NEW t \in Task, LeaseExpires(t) PROVE LeaseFollowsAttempt'
  <2>1. \A u \in Task : lease'[u] = "none" <=> lease[u] = "none"
    BY <1>4 DEF LeaseExpires, TypeOK
  <2> QED
    BY <1>4, <2>1, <1>r, <1>a, SameAttemptsKeepLease DEF LeaseExpires
<1>5. CASE RecoverExpiredLeases
  <2> DEFINE result == [t \in Task |-> "interrupted"]
  <2>1. FinishActiveAttempt(ExpiredTasks, result)
    BY <1>5 DEF RecoverExpiredLeases
  <2>2. /\ \A t \in Task : t \in ExpiredTasks => result[t] # "running" /\ state'[t] # "running"
        /\ \A t \in Task : t \notin ExpiredTasks => state'[t] = state[t]
        /\ \A t \in Task : lease'[t] = IF t \in ExpiredTasks THEN "none" ELSE lease[t]
    BY <1>5 DEF RecoverExpiredLeases
  <2> QED
    BY <1>5, <2>1, <2>2, ReleaseKeepsLease DEF RecoverExpiredLeases
<1>6. CASE RecoverInterrupted
  <2> DEFINE result == [t \in Task |-> "interrupted"]
  <2>1. FinishActiveAttempt(Interrupted, result)
    BY <1>6 DEF RecoverInterrupted
  <2>2. /\ \A t \in Task : t \in Interrupted => result[t] # "running" /\ state'[t] # "running"
        /\ \A t \in Task : t \notin Interrupted => state'[t] = state[t]
        /\ \A t \in Task : lease'[t] = IF t \in Interrupted THEN "none" ELSE lease[t]
    BY <1>6 DEF RecoverInterrupted, Interrupted, Active
  <2> QED
    BY <1>6, <2>1, <2>2, ReleaseKeepsLease DEF RecoverInterrupted
<1>7. CASE UNCHANGED vars
  BY <1>7, <1>r, <1>a, SameAttemptsKeepLease DEF vars
<1> QED
  BY <1>1, <1>2, <1>3, <1>4, <1>5, <1>6, <1>7 DEF Next

LEMMA InitLease == Init => LeaseFollowsAttempt
<1> SUFFICES ASSUME Init, NEW t \in Task
             PROVE  /\ \A k \in Ordinal : attempt[t][k] # "running"
                    /\ lease[t] = "none"
                    /\ state[t] = "absent"
  BY DEF LeaseFollowsAttempt, HasRunningAttempt
<1> QED
  BY DEF Init

\* LeaseFollowsAttempt: for any number of Tasks, attempts and restarts, a Task
\* has at most one running attempt and exactly then a lease.
THEOREM LeaseCorrect == Spec => []LeaseFollowsAttempt
BY InitTyped, NextTyped, InitLease, NextKeepsLease, PTL DEF Spec

-----------------------------------------------------------------------------
(* The repository implements TaskLifecycle. *)

LEMMA SessionFreeFromBusy ==
    ASSUME NEW t \in Task, ~SessionBusy(SessionOf[t])
    PROVE  Life!SessionFree(t)
BY DEF SessionBusy, Active, Life!SessionFree, Life!Executing

LEMMA StepImplements == TypeOK /\ [Next]_vars => [Life!LifeNext]_state
<1> SUFFICES ASSUME TypeOK, [Next]_vars PROVE Life!LifeNext \/ state' = state
  OBVIOUS
<1> USE DEF taskVars, attemptVars, journalVars
<1>m. (\E t \in Task : Life!TaskMove(t)) => Life!LifeNext
  BY DEF Life!LifeNext
<1>1. ASSUME NEW t \in Task, ClientCommand(t) PROVE Life!LifeNext \/ state' = state
  <2>1. CASE Create(t)
    BY <2>1, <1>m DEF Create, CreateOutcome, Created, Life!TaskMove, Life!Accept, Life!Move
  <2>2. CASE CancelIdle(t)
    BY <2>2, <1>m DEF CancelIdle, Life!TaskMove, Life!Cancel, Life!Move
  <2>3. CASE PauseIdle(t)
    BY <2>3, <1>m DEF PauseIdle, Life!TaskMove, Life!Hold, Life!Move
  <2>4. ASSUME NEW ack \in BOOLEAN, Resume(t, ack) PROVE Life!LifeNext
    BY <2>4, <1>m DEF Resume, Life!TaskMove, Life!Requeue, Life!Move
  <2>5. CASE CancelRunning(t) \/ PauseRunning(t) \/ ActivateStaged(t)
    BY <2>5 DEF CancelRunning, PauseRunning, ActivateStaged
  <2> QED
    BY <1>1, <2>1, <2>2, <2>3, <2>4, <2>5 DEF ClientCommand, RequestCancel, RequestPause
<1>2. ASSUME NEW t \in Task, ExecutorWrite(t) PROVE Life!LifeNext \/ state' = state
  <2>1. CASE ClaimNext(t)
    <3>1. Life!SessionFree(t)
      BY <2>1, SessionFreeFromBusy DEF ClaimNext, NextClaim, Claimable
    <3> QED
      BY <2>1, <3>1, <1>m
      DEF ClaimNext, NextClaim, Claimable, Life!TaskMove, Life!Start, Life!Move
  <2>2. ASSUME NEW target \in TransitionTarget, NEW newPhase \in Phase,
               Transition(t, target, newPhase)
        PROVE  Life!LifeNext
    <3>1. /\ Transitions["queued"] = {"running", "cancelled"}
          /\ Transitions["running"] =
                {"waiting_approval", "paused", "completed", "failed", "cancelled"}
          /\ Transitions["waiting_approval"] = {"running", "paused", "cancelled"}
          /\ Transitions["paused"] = {"queued", "failed", "cancelled"}
      BY DEF Transitions
    <3>2. state[t] \in {"queued", "running", "waiting_approval", "paused"}
      <4>1. CanTransition(t, target)
        BY <2>2 DEF Transition
      <4>2. state[t] \notin Terminal
        BY <4>1, TransitionFromLive
      <4> QED
        BY <4>1, <4>2 DEF CanTransition, Created, TypeOK, TaskState, Live
    <3>3. target \in Transitions[state[t]] /\ state' = [state EXCEPT ![t] = target]
      BY <2>2 DEF Transition, CanTransition
    <3>4. CASE target = "completed"
      <4>1. state[t] = "running"
        BY <3>1, <3>2, <3>3, <3>4
      <4>2. Life!Complete(t)
        BY <3>3, <3>4, <4>1 DEF Life!Complete, Life!Move
      <4> QED
        BY <4>2, <1>m DEF Life!TaskMove
    <3>5. CASE target = "failed"
      <4>1. state[t] \in {"running", "paused"}
        BY <3>1, <3>2, <3>3, <3>5
      <4>2. Life!Fail(t)
        BY <3>3, <3>5, <4>1 DEF Life!Fail, Life!Move
      <4> QED
        BY <4>2, <1>m DEF Life!TaskMove
    <3>6. CASE target = "cancelled"
      BY <3>1, <3>2, <3>3, <3>6, <1>m DEF Life!TaskMove, Life!Cancel, Life!Move
    <3>7. CASE target = "paused"
      BY <3>1, <3>2, <3>3, <3>7, <1>m DEF Life!TaskMove, Life!Hold, Life!Move
    <3> QED
      BY <3>4, <3>5, <3>6, <3>7 DEF TransitionTarget
  <2>3. CASE PauseForUnknownToolOutcome(t)
    BY <2>3, <1>m DEF PauseForUnknownToolOutcome, Life!TaskMove, Life!Hold, Life!Move
  <2>4. ASSUME NEW a \in Action, RequestApproval(t, a) PROVE Life!LifeNext
    BY <2>4, <1>m DEF RequestApproval, Life!TaskMove, Life!Ask, Life!Move
  <2>5. CASE AppendArtifact(t) \/ RenewLease(t)
    BY <2>5 DEF AppendArtifact, RenewLease
  <2>6. ASSUME NEW s \in Step, BeginToolStep(t, s) PROVE state' = state
    BY <2>6 DEF BeginToolStep
  <2>7. ASSUME NEW s \in Step, NEW result \in {"completed", "failed"},
               FinishToolStep(t, s, result)
        PROVE  state' = state
    BY <2>7 DEF FinishToolStep
  <2>8. "manual_pause" \in Phase /\ "" \in Phase
    BY DEF Phase
  <2> QED
    BY <1>2, <2>1, <2>2, <2>3, <2>4, <2>5, <2>6, <2>7, <2>8 DEF ExecutorWrite
<1>3. ASSUME NEW t \in Task, Decision(t) PROVE Life!LifeNext
  <2> PICK a \in Action, decision \in {"approved", "denied"}, r \in ResumeStates(t) :
        ResolveApproval(t, a, decision, r)
    BY <1>3 DEF Decision
  <2>1. r \in {"running", "queued"}
    BY DEF ResumeStates
  <2> QED
    BY <2>1, <1>m DEF ResolveApproval, Life!TaskMove, Life!Answer, Life!Move
<1>4. ASSUME NEW t \in Task, LeaseExpires(t) PROVE state' = state
  BY <1>4 DEF LeaseExpires
<1>5. CASE RecoverExpiredLeases
  <2>1. Life!Suspend(ExpiredTasks) /\ ExpiredTasks \in SUBSET Task
    BY <1>5 DEF RecoverExpiredLeases, ExpiredTasks, Life!Suspend
  <2> QED
    BY <2>1 DEF Life!LifeNext
<1>6. CASE RecoverInterrupted
  <2> DEFINE S == {t \in Task : state[t] = "running"}
  <2>1. Life!Suspend(S) /\ S \in SUBSET Task
    BY <1>6 DEF RecoverInterrupted, Life!Suspend
  <2> QED
    BY <2>1 DEF Life!LifeNext
<1>7. CASE UNCHANGED vars
  BY <1>7 DEF vars
<1> QED
  BY <1>1, <1>2, <1>3, <1>4, <1>5, <1>6, <1>7 DEF Next

LEMMA InitImplements == Init => Life!LifeInit
BY DEF Init, Life!LifeInit

\* ImplementsLifecycle: every transaction of the repository is a move of the
\* abstract life cycle, for any number of Tasks and sessions.
THEOREM LifecycleImplemented == Spec => ImplementsLifecycle
BY InitTyped, NextTyped, InitImplements, StepImplements, PTL
   DEF Spec, ImplementsLifecycle, Life!LifeSpec

\* A legal move starts no second Task of a session.
LEMMA MoveKeepsSessions ==
    TypeOK /\ SessionExclusive /\ [Life!LifeNext]_state => SessionExclusive'
<1> SUFFICES ASSUME TypeOK, SessionExclusive, [Life!LifeNext]_state
             PROVE  SessionExclusive'
  OBVIOUS
<1>k. ASSUME \A u \in Task : state'[u] \in Active => state[u] \in Active
      PROVE  SessionExclusive'
  BY <1>k DEF SessionExclusive
<1>1. ASSUME NEW t \in Task, Life!Start(t) PROVE SessionExclusive'
  BY <1>1
  DEF SessionExclusive, TypeOK, Active, Life!Start, Life!Move, Life!SessionFree, Life!Executing
<1>2. ASSUME NEW t \in Task, Life!TaskMove(t), ~Life!Start(t) PROVE SessionExclusive'
  <2>1. \A u \in Task : state'[u] \in Active => state[u] \in Active
    BY <1>2
    DEF TypeOK, Active, Life!TaskMove, Life!Accept, Life!Ask, Life!Answer, Life!Hold,
        Life!Requeue, Life!Complete, Life!Fail, Life!Cancel, Life!Move
  <2> QED
    BY <2>1, <1>k
<1>3. ASSUME NEW S \in SUBSET Task, Life!Suspend(S) PROVE SessionExclusive'
  <2>1. \A u \in Task : state'[u] \in Active => state[u] \in Active
    BY <1>3 DEF Active, Life!Suspend
  <2> QED
    BY <2>1, <1>k
<1>4. CASE state' = state
  BY <1>4, <1>k
<1> QED
  BY <1>1, <1>2, <1>3, <1>4 DEF Life!LifeNext

\* SessionExclusive: two Tasks of one session are never executed together.
THEOREM SessionsExclusive == Spec => []SessionExclusive
<1>1. Init => SessionExclusive
  BY DEF Init, SessionExclusive, Active
<1> QED
  BY <1>1, InitTyped, NextTyped, StepImplements, MoveKeepsSessions, PTL DEF Spec

-----------------------------------------------------------------------------
(* What a step may never do. *)

\* What a step leaves alone of Task u.
Untouched(u) ==
    /\ state'[u] = state[u]
    /\ phase'[u] = phase[u]
    /\ lease'[u] = lease[u]
    /\ journal'[u] = journal[u]
    /\ attempt'[u] = attempt[u]
    /\ approval'[u] = approval[u]

LEMMA OneTouchesOnlyOne ==
    ASSUME TypeOK, NEW t \in Task, NEW u \in Task, u # t
    PROVE  /\ \A s : AppendOne(t, s) => journal'[u] = journal[u]
           /\ \A r : FinishOne(t, r) => attempt'[u] = attempt[u]
           /\ CancelPending(t)[u] = approval[u]
BY DEF AppendOne, AppendEvent, FinishOne, FinishActiveAttempt, CancelPending, TypeOK

LEMMA NextLeavesTerminal ==
    ASSUME TypeOK, LeaseFollowsAttempt, [Next]_vars, NEW u \in Task, state[u] \in Terminal
    PROVE  Untouched(u)
<1> USE DEF taskVars, attemptVars, journalVars, Untouched
<1>n. lease[u] = "none" /\ state[u] \notin {"absent", "queued", "running", "waiting_approval", "paused"}
  BY DEF LeaseFollowsAttempt, Terminal, Active
<1>1. ASSUME NEW t \in Task, ClientCommand(t) PROVE Untouched(u)
  <2>1. CASE Create(t)
    <3>1. u # t
      BY <2>1, <1>n DEF Create, CreateOutcome, Created
    <3> QED
      BY <2>1, <3>1, OneTouchesOnlyOne DEF Create, TypeOK
  <2>2. CASE CancelIdle(t)
    <3>1. u # t
      BY <2>2, <1>n DEF CancelIdle
    <3> QED
      BY <2>2, <3>1, OneTouchesOnlyOne DEF CancelIdle, TypeOK
  <2>3. CASE PauseIdle(t)
    <3>1. u # t
      BY <2>3, <1>n DEF PauseIdle
    <3> QED
      BY <2>3, <3>1, OneTouchesOnlyOne DEF PauseIdle, TypeOK
  <2>4. CASE CancelRunning(t) \/ PauseRunning(t)
    <3>1. u # t
      BY <2>4, <1>n DEF CancelRunning, PauseRunning
    <3> QED
      BY <2>4, <3>1, OneTouchesOnlyOne DEF CancelRunning, PauseRunning, TypeOK
  <2>5. ASSUME NEW ack \in BOOLEAN, Resume(t, ack) PROVE Untouched(u)
    <3>1. u # t
      BY <2>5, <1>n DEF Resume
    <3> QED
      BY <2>5, <3>1, OneTouchesOnlyOne DEF Resume, TypeOK
  <2>6. CASE ActivateStaged(t)
    BY <2>6, <1>n DEF ActivateStaged, TypeOK
  <2> QED
    BY <1>1, <2>1, <2>2, <2>3, <2>4, <2>5, <2>6 DEF ClientCommand, RequestCancel, RequestPause
<1>2. ASSUME NEW t \in Task, ExecutorWrite(t) PROVE Untouched(u)
  <2>1. CASE ClaimNext(t)
    <3>1. u # t
      BY <2>1, <1>n DEF ClaimNext, NextClaim, Claimable
    <3> QED
      BY <2>1, <3>1, OneTouchesOnlyOne DEF ClaimNext, TypeOK
  <2>2. CASE AppendArtifact(t)
    <3>1. u # t
      BY <2>2, <1>n DEF AppendArtifact, Live
    <3> QED
      BY <2>2, <3>1, OneTouchesOnlyOne DEF AppendArtifact
  <2>3. ASSUME NEW target \in TransitionTarget, NEW newPhase \in Phase,
               Transition(t, target, newPhase)
        PROVE  Untouched(u)
    <3>1. u # t
      BY <2>3, TransitionFromLive DEF Transition
    <3> QED
      BY <2>3, <3>1, OneTouchesOnlyOne DEF Transition, TypeOK
  <2>4. CASE RenewLease(t)
    BY <2>4, <1>n DEF RenewLease, CanRenew, TypeOK
  <2>5. CASE PauseForUnknownToolOutcome(t)
    <3>1. u # t
      BY <2>5, <1>n DEF PauseForUnknownToolOutcome
    <3> QED
      BY <2>5, <3>1, OneTouchesOnlyOne DEF PauseForUnknownToolOutcome, TypeOK
  <2>6. ASSUME NEW s \in Step, BeginToolStep(t, s) PROVE Untouched(u)
    BY <2>6 DEF BeginToolStep
  <2>7. ASSUME NEW s \in Step, NEW result \in {"completed", "failed"},
               FinishToolStep(t, s, result)
        PROVE  Untouched(u)
    BY <2>7 DEF FinishToolStep
  <2>8. ASSUME NEW a \in Action, RequestApproval(t, a) PROVE Untouched(u)
    <3>1. u # t
      BY <2>8, <1>n DEF RequestApproval
    <3> QED
      BY <2>8, <3>1, OneTouchesOnlyOne DEF RequestApproval, TypeOK
  <2>9. "manual_pause" \in Phase /\ "" \in Phase
    BY DEF Phase
  <2> QED
    BY <1>2, <2>1, <2>2, <2>3, <2>4, <2>5, <2>6, <2>7, <2>8, <2>9 DEF ExecutorWrite
<1>3. ASSUME NEW t \in Task, Decision(t) PROVE Untouched(u)
  <2> PICK a \in Action, decision \in {"approved", "denied"}, r \in ResumeStates(t) :
        ResolveApproval(t, a, decision, r)
    BY <1>3 DEF Decision
  <2>1. u # t
    BY <1>n DEF ResolveApproval
  <2> QED
    BY <2>1, OneTouchesOnlyOne DEF ResolveApproval, TypeOK
<1>4. ASSUME NEW t \in Task, LeaseExpires(t) PROVE Untouched(u)
  BY <1>4, <1>n DEF LeaseExpires, TypeOK
<1>5. CASE RecoverExpiredLeases
  <2>1. u \notin ExpiredTasks
    BY <1>n DEF ExpiredTasks
  <2> QED
    BY <1>5, <2>1 DEF RecoverExpiredLeases, FinishActiveAttempt, AppendEvent
<1>6. CASE RecoverInterrupted
  <2>1. u \notin Interrupted
    BY <1>n DEF Interrupted, Active
  <2> QED
    BY <1>6, <1>n, <2>1 DEF RecoverInterrupted, FinishActiveAttempt, AppendEvent
<1>7. CASE UNCHANGED vars
  BY <1>7 DEF vars
<1> QED
  BY <1>1, <1>2, <1>3, <1>4, <1>5, <1>6, <1>7 DEF Next

\* TerminalIsFinal: no command, executor write, heartbeat or recovery pass of
\* the repository changes a completed, failed or cancelled Task.
THEOREM TerminalsFinal == Spec => TerminalIsFinal
<1>1. TypeOK /\ LeaseFollowsAttempt /\ [Next]_vars =>
        [\A t \in Task : state[t] \in Terminal =>
            /\ state'[t] = state[t]
            /\ phase'[t] = phase[t]
            /\ lease'[t] = lease[t]
            /\ journal'[t] = journal[t]
            /\ attempt'[t] = attempt[t]
            /\ approval'[t] = approval[t]]_vars
  BY NextLeavesTerminal DEF Untouched
<1> QED
  BY <1>1, TypeCorrect, LeaseCorrect, PTL DEF Spec, TerminalIsFinal

\* What a step may do to the approvals and to the tool steps.
ApprovalsOnce ==
    \A t \in Task, a \in Action :
        approval[t][a] \notin {"none", "pending"} => approval'[t][a] = approval[t][a]

StepsOnce ==
    \A t \in Task, s \in Step :
        /\ toolStep[t][s] \notin {"none", "committing"} => toolStep'[t][s] = toolStep[t][s]
        /\ toolStep[t][s] = "committing" => toolStep'[t][s] # "none"

LEMMA CancelPendingDecides ==
    ASSUME TypeOK, NEW t \in Task, approval' = CancelPending(t)
    PROVE  ApprovalsOnce
BY DEF ApprovalsOnce, CancelPending, TypeOK

LEMMA NextDecidesApprovalsOnce == TypeOK /\ [Next]_vars => ApprovalsOnce
<1> SUFFICES ASSUME TypeOK, [Next]_vars PROVE ApprovalsOnce
  OBVIOUS
<1> USE DEF taskVars, attemptVars, journalVars
<1>u. approval' = approval => ApprovalsOnce
  BY DEF ApprovalsOnce
<1>1. ASSUME NEW t \in Task, ClientCommand(t) PROVE ApprovalsOnce
  BY <1>1, <1>u, CancelPendingDecides
  DEF ClientCommand, Create, RequestCancel, CancelIdle, CancelRunning, RequestPause,
      PauseIdle, PauseRunning, Resume, ActivateStaged
<1>2. ASSUME NEW t \in Task, ExecutorWrite(t) PROVE ApprovalsOnce
  <2>1. ASSUME NEW a \in Action, RequestApproval(t, a) PROVE ApprovalsOnce
    BY <2>1 DEF RequestApproval, ApprovalsOnce, TypeOK
  <2> QED
    BY <1>2, <1>u, <2>1
    DEF ExecutorWrite, ClaimNext, AppendArtifact, Transition, RenewLease,
        PauseForUnknownToolOutcome, BeginToolStep, FinishToolStep
<1>3. ASSUME NEW t \in Task, Decision(t) PROVE ApprovalsOnce
  BY <1>3 DEF Decision, ResolveApproval, ApprovalsOnce, TypeOK
<1> QED
  BY <1>1, <1>2, <1>3, <1>u
  DEF Next, LeaseExpires, RecoverExpiredLeases, RecoverInterrupted, vars

LEMMA NextStepsOnce == TypeOK /\ [Next]_vars => StepsOnce
<1> SUFFICES ASSUME TypeOK, [Next]_vars PROVE StepsOnce
  OBVIOUS
<1> USE DEF taskVars, attemptVars, journalVars
<1>u. toolStep' = toolStep => StepsOnce
  BY DEF StepsOnce
<1>1. ASSUME NEW t \in Task, ClientCommand(t) PROVE StepsOnce
  BY <1>1, <1>u
  DEF ClientCommand, Create, RequestCancel, CancelIdle, CancelRunning, RequestPause,
      PauseIdle, PauseRunning, Resume, ActivateStaged
<1>2. ASSUME NEW t \in Task, ExecutorWrite(t) PROVE StepsOnce
  <2>1. ASSUME NEW s \in Step, BeginToolStep(t, s) PROVE StepsOnce
    BY <2>1 DEF BeginToolStep, StepsOnce, TypeOK
  <2>2. ASSUME NEW s \in Step, NEW result \in {"completed", "failed"},
               FinishToolStep(t, s, result)
        PROVE  StepsOnce
    BY <2>2 DEF FinishToolStep, StepsOnce, TypeOK
  <2>3. CASE PauseForUnknownToolOutcome(t)
    BY <2>3 DEF PauseForUnknownToolOutcome, Quarantined, StepsOnce, TypeOK
  <2> QED
    BY <1>2, <1>u, <2>1, <2>2, <2>3
    DEF ExecutorWrite, ClaimNext, AppendArtifact, Transition, RenewLease, RequestApproval
<1>3. ASSUME NEW t \in Task, Decision(t) PROVE StepsOnce
  BY <1>3, <1>u DEF Decision, ResolveApproval
<1>4. CASE RecoverInterrupted
  BY <1>4 DEF RecoverInterrupted, Quarantined, StepsOnce
<1> QED
  BY <1>1, <1>2, <1>3, <1>4, <1>u DEF Next, LeaseExpires, RecoverExpiredLeases, vars

\* DecidedOnce: an approval is decided once and a tool step is committed once,
\* whichever of the repository's methods interleave.
THEOREM DecisionsOnce == Spec => DecidedOnce
<1>1. TypeOK /\ [Next]_vars =>
        [\A t \in Task :
            /\ \A a \in Action :
                  approval[t][a] \notin {"none", "pending"} =>
                        approval'[t][a] = approval[t][a]
            /\ \A s \in Step :
                  /\ toolStep[t][s] \notin {"none", "committing"} =>
                        toolStep'[t][s] = toolStep[t][s]
                  /\ toolStep[t][s] = "committing" => toolStep'[t][s] # "none"]_vars
  BY NextDecidesApprovalsOnce, NextStepsOnce DEF ApprovalsOnce, StepsOnce
<1> QED
  BY <1>1, TypeCorrect, PTL DEF Spec, DecidedOnce

-----------------------------------------------------------------------------
(* The limits on unfinished Tasks. *)

\* Only create() adds an unfinished Task.
LEMMA OnlyCreateAdds ==
    ASSUME TypeOK, [Next]_vars, \A t \in Task : ~Create(t)
    PROVE  ActiveTasks' \subseteq ActiveTasks
<1> SUFFICES ASSUME NEW u \in Task, state[u] \notin Live PROVE state'[u] = state[u]
  BY DEF ActiveTasks, TypeOK
<1> USE DEF taskVars, attemptVars, journalVars
<1>n. state[u] \notin {"queued", "running", "waiting_approval", "paused"}
  BY DEF Live
<1>1. ASSUME NEW t \in Task, ClientCommand(t) PROVE state'[u] = state[u]
  BY <1>1, <1>n
  DEF ClientCommand, RequestCancel, CancelIdle, CancelRunning, RequestPause, PauseIdle,
      PauseRunning, Resume, ActivateStaged, TypeOK
<1>2. ASSUME NEW t \in Task, ExecutorWrite(t) PROVE state'[u] = state[u]
  <2>1. ASSUME NEW target \in TransitionTarget, NEW newPhase \in Phase,
               Transition(t, target, newPhase)
        PROVE  state'[u] = state[u]
    <3>1. state[t] \notin Terminal /\ Created(t)
      BY <2>1, TransitionFromLive DEF Transition, CanTransition
    <3>2. u # t
      BY <3>1, <1>n DEF Created, TypeOK, TaskState, Live
    <3> QED
      BY <2>1, <3>2 DEF Transition, TypeOK
  <2>2. ASSUME NEW a \in Action, RequestApproval(t, a) PROVE state'[u] = state[u]
    BY <2>2, <1>n DEF RequestApproval, TypeOK
  <2>3. CASE ClaimNext(t) \/ PauseForUnknownToolOutcome(t)
    BY <2>3, <1>n DEF ClaimNext, NextClaim, Claimable, PauseForUnknownToolOutcome, TypeOK
  <2>4. "manual_pause" \in Phase /\ "" \in Phase
    BY DEF Phase
  <2> QED
    BY <1>2, <2>1, <2>2, <2>3, <2>4
    DEF ExecutorWrite, AppendArtifact, RenewLease, BeginToolStep, FinishToolStep
<1>3. ASSUME NEW t \in Task, Decision(t) PROVE state'[u] = state[u]
  BY <1>3, <1>n DEF Decision, ResolveApproval, TypeOK
<1>4. ASSUME NEW t \in Task, LeaseExpires(t) PROVE state'[u] = state[u]
  BY <1>4 DEF LeaseExpires
<1>5. CASE RecoverExpiredLeases \/ RecoverInterrupted
  BY <1>5, <1>n DEF RecoverExpiredLeases, RecoverInterrupted, ExpiredTasks
<1>6. CASE UNCHANGED vars
  BY <1>6 DEF vars
<1> QED
  BY <1>1, <1>2, <1>3, <1>4, <1>5, <1>6 DEF Next

LEMMA ActiveFinite ==
    /\ IsFiniteSet(ActiveTasks) /\ Cardinality(ActiveTasks) \in Nat
    /\ \A p : IsFiniteSet(ActiveTasksOf(p)) /\ Cardinality(ActiveTasksOf(p)) \in Nat
<1>1. ActiveTasks \subseteq Task /\ \A p : ActiveTasksOf(p) \subseteq Task
  BY DEF ActiveTasks, ActiveTasksOf
<1> QED
  BY <1>1, ConstantsAssumption, FS_Subset, FS_CardinalityType

LEMMA NextKeepsCapacity == TypeOK /\ CapacityRespected /\ [Next]_vars => CapacityRespected'
<1> SUFFICES ASSUME TypeOK, CapacityRespected, [Next]_vars PROVE CapacityRespected'
  OBVIOUS
<1>1. CASE \A t \in Task : ~Create(t)
  <2>1. ActiveTasks' \subseteq ActiveTasks
    BY <1>1, OnlyCreateAdds
  <2>2. \A p \in Principal : ActiveTasksOf(p)' \subseteq ActiveTasksOf(p)
    BY <2>1 DEF ActiveTasksOf
  <2>3. /\ Cardinality(ActiveTasks)' \in Nat
        /\ Cardinality(ActiveTasks)' <= Cardinality(ActiveTasks)
    BY <2>1, ActiveFinite, FS_Subset, FS_CardinalityType
  <2>4. ASSUME NEW p \in Principal
        PROVE  /\ Cardinality(ActiveTasksOf(p))' \in Nat
               /\ Cardinality(ActiveTasksOf(p))' <= Cardinality(ActiveTasksOf(p))
    BY <2>2, ActiveFinite, FS_Subset, FS_CardinalityType
  <2> QED
    BY <2>3, <2>4, ActiveFinite, ConstantsAssumption DEF CapacityRespected
<1>2. ASSUME NEW t \in Task, Create(t) PROVE CapacityRespected'
  <2>1. /\ ~Created(t)
        /\ ~(Cardinality(ActiveTasks) >= MaxActive)
        /\ ~(Cardinality(ActiveTasksOf(OwnerOf[t])) >= MaxActivePerPrincipal)
    BY <1>2 DEF Create, CreateOutcome
  <2>2. state' = [state EXCEPT ![t] = "queued"]
    BY <1>2 DEF Create
  <2>3. ActiveTasks' = ActiveTasks \cup {t} /\ t \notin ActiveTasks
    BY <2>1, <2>2 DEF ActiveTasks, Created, Live, TypeOK
  <2>4. Cardinality(ActiveTasks)' <= MaxActive
    <3>1. Cardinality(ActiveTasks \cup {t}) = Cardinality(ActiveTasks) + 1
      BY <2>3, ActiveFinite, FS_AddElement
    <3>2. Cardinality(ActiveTasks)' = Cardinality(ActiveTasks) + 1
      BY <2>3, <3>1
    <3> QED
      BY <2>1, <3>2, ActiveFinite, ConstantsAssumption
  <2>5. ASSUME NEW p \in Principal
        PROVE  Cardinality(ActiveTasksOf(p))' <= MaxActivePerPrincipal
    <3>1. CASE p = OwnerOf[t]
      <4>1. ActiveTasksOf(p)' = ActiveTasksOf(p) \cup {t} /\ t \notin ActiveTasksOf(p)
        BY <2>3, <3>1 DEF ActiveTasksOf
      <4>2. Cardinality(ActiveTasksOf(p) \cup {t}) = Cardinality(ActiveTasksOf(p)) + 1
        BY <4>1, ActiveFinite, FS_AddElement
      <4>3. Cardinality(ActiveTasksOf(p))' = Cardinality(ActiveTasksOf(p)) + 1
        BY <4>1, <4>2
      <4> QED
        BY <2>1, <3>1, <4>3, ActiveFinite, ConstantsAssumption
    <3>2. CASE p # OwnerOf[t]
      <4>1. ActiveTasksOf(p)' = ActiveTasksOf(p)
        BY <2>3, <3>2 DEF ActiveTasksOf
      <4> QED
        BY <4>1 DEF CapacityRespected
    <3> QED
      BY <3>1, <3>2
  <2> QED
    BY <2>4, <2>5 DEF CapacityRespected
<1> QED
  BY <1>1, <1>2

LEMMA InitCapacity == Init => CapacityRespected
<1> SUFFICES ASSUME Init PROVE CapacityRespected
  OBVIOUS
<1>1. ActiveTasks = {} /\ \A p : ActiveTasksOf(p) = {}
  BY DEF Init, ActiveTasks, ActiveTasksOf, Live
<1> QED
  BY <1>1, FS_EmptySet, ConstantsAssumption DEF CapacityRespected

\* CapacityRespected: no sequence of commands, executions and recoveries brings
\* the number of unfinished Tasks above either limit, whatever the limits are.
THEOREM CapacityCorrect == Spec => []CapacityRespected
BY InitTyped, NextTyped, InitCapacity, NextKeepsCapacity, PTL DEF Spec

-----------------------------------------------------------------------------
(* claim_next() finds a Task whenever one may be claimed. *)

CreatedTasks == {t \in Task : Created(t)}

\* created_at numbers the Tasks in the order in which they were created.
CreationOrder ==
    /\ \A t \in CreatedTasks : createdAt[t] \in 1..Cardinality(CreatedTasks)
    /\ \A t, u \in CreatedTasks : t # u => createdAt[t] # createdAt[u]

LEMMA CreatedFinite == IsFiniteSet(CreatedTasks) /\ Cardinality(CreatedTasks) \in Nat
BY ConstantsAssumption, FS_Subset, FS_CardinalityType DEF CreatedTasks

LEMMA OnlyCreateCreates ==
    ASSUME TypeOK, [Next]_vars, \A t \in Task : ~Create(t)
    PROVE  createdAt' = createdAt /\ CreatedTasks' = CreatedTasks
<1> USE DEF taskVars, attemptVars, journalVars
<1> SUFFICES createdAt' = createdAt /\ \A u \in Task : Created(u)' <=> Created(u)
  BY DEF CreatedTasks
<1> DEFINE Same == createdAt' = createdAt /\ \A u \in Task : Created(u)' <=> Created(u)
<1>1. ASSUME NEW t \in Task, ClientCommand(t) PROVE Same
  BY <1>1
  DEF ClientCommand, RequestCancel, CancelIdle, CancelRunning, RequestPause, PauseIdle,
      PauseRunning, Resume, ActivateStaged, TypeOK, Created
<1>2. ASSUME NEW t \in Task, ExecutorWrite(t) PROVE Same
  <2>1. ASSUME NEW target \in TransitionTarget, NEW newPhase \in Phase,
               Transition(t, target, newPhase)
        PROVE  Same
    BY <2>1 DEF Transition, CanTransition, TransitionTarget, Created, TypeOK
  <2>2. ASSUME NEW a \in Action, RequestApproval(t, a) PROVE Same
    BY <2>2 DEF RequestApproval, Created, TypeOK
  <2>3. CASE ClaimNext(t) \/ PauseForUnknownToolOutcome(t)
    BY <2>3 DEF ClaimNext, NextClaim, Claimable, PauseForUnknownToolOutcome, Created, TypeOK
  <2>4. "manual_pause" \in Phase /\ "" \in Phase
    BY DEF Phase
  <2>5. CASE \/ AppendArtifact(t) \/ RenewLease(t)
             \/ \E s \in Step : BeginToolStep(t, s)
             \/ \E s \in Step, result \in {"completed", "failed"} : FinishToolStep(t, s, result)
    BY <2>5 DEF AppendArtifact, RenewLease, BeginToolStep, FinishToolStep, Created
  <2> QED
    BY <1>2, <2>1, <2>2, <2>3, <2>4, <2>5 DEF ExecutorWrite
<1>3. ASSUME NEW t \in Task, Decision(t) PROVE Same
  BY <1>3 DEF Decision, ResolveApproval, ResumeStates, Created, TypeOK
<1>4. ASSUME NEW t \in Task, LeaseExpires(t) PROVE Same
  BY <1>4 DEF LeaseExpires, Created
<1>5. CASE RecoverExpiredLeases \/ RecoverInterrupted
  BY <1>5 DEF RecoverExpiredLeases, RecoverInterrupted, ExpiredTasks, Created
<1>6. CASE UNCHANGED vars
  BY <1>6 DEF vars, Created
<1> QED
  BY <1>1, <1>2, <1>3, <1>4, <1>5, <1>6 DEF Next

LEMMA NextKeepsOrder == TypeOK /\ CreationOrder /\ [Next]_vars => CreationOrder'
<1> SUFFICES ASSUME TypeOK, CreationOrder, [Next]_vars PROVE CreationOrder'
  OBVIOUS
<1>1. CASE \A t \in Task : ~Create(t)
  <2>1. createdAt' = createdAt /\ CreatedTasks' = CreatedTasks
    BY <1>1, OnlyCreateCreates
  <2> QED
    BY <2>1 DEF CreationOrder
<1>2. ASSUME NEW t \in Task, Create(t) PROVE CreationOrder'
  <2>1. t \notin CreatedTasks
    BY <1>2 DEF Create, CreateOutcome, CreatedTasks
  <2>2. CreatedTasks' = CreatedTasks \cup {t}
    BY <1>2 DEF Create, CreatedTasks, Created, TypeOK
  <2>3. Cardinality(CreatedTasks') = Cardinality(CreatedTasks) + 1
    BY <2>1, <2>2, CreatedFinite, FS_AddElement
  <2>4. createdAt'[t] = Cardinality(CreatedTasks) + 1
    BY <1>2 DEF Create, CreationRank, CreatedTasks, TypeOK
  <2>5. \A u \in CreatedTasks : createdAt'[u] = createdAt[u]
    BY <1>2, <2>1 DEF Create, CreatedTasks, TypeOK
  <2> QED
    BY <2>2, <2>3, <2>4, <2>5, CreatedFinite DEF CreationOrder
<1> QED
  BY <1>1, <1>2

LEMMA InitOrder == Init => CreationOrder
<1> SUFFICES ASSUME Init PROVE CreationOrder
  OBVIOUS
<1>1. CreatedTasks = {}
  BY DEF Init, CreatedTasks, Created
<1> QED
  BY <1>1 DEF CreationOrder

LEMMA OrderCorrect == Spec => []CreationOrder
BY TypeCorrect, InitOrder, NextKeepsOrder, PTL DEF Spec

\* A non-empty set of naturals has a least one.
LEMMA LeastNatural ==
    ASSUME NEW T, T \subseteq Nat, T # {}
    PROVE  \E x \in T : \A y \in T : x <= y
<1>1. PICK x \in T : \A y \in T : <<y, x>> \notin OpToRel(<, Nat)
  BY NatLessThanWellFounded, WFMin
<1>2. \A y \in T : ~(y < x)
  BY <1>1 DEF OpToRel
<1> QED
  BY <1>2

\* Where some Task may be claimed, ORDER BY priority DESC, created_at puts one first, and
\* claim_next() takes it.
LEMMA SomethingIsNext ==
    ASSUME TypeOK, CreationOrder, NEW t \in Task, Claimable(t)
    PROVE  \E u \in Task : NextClaim(u)
<1> DEFINE C == {u \in Task : Claimable(u)}
           Rank(u) == 9 - Priority[u]
<1>1. \A u \in Task : Priority[u] \in 0..9 /\ createdAt[u] \in Nat /\ Rank(u) \in Nat
  BY ConstantsAssumption DEF TypeOK
<1>2. PICK u \in C : \A v \in C : Rank(u) <= Rank(v)
  <2>1. {Rank(v) : v \in C} \subseteq Nat /\ {Rank(v) : v \in C} # {}
    BY <1>1
  <2>2. PICK x \in {Rank(v) : v \in C} : \A y \in {Rank(v) : v \in C} : x <= y
    BY <2>1, LeastNatural
  <2> QED
    BY <2>2
<1> DEFINE H == {v \in C : Rank(v) = Rank(u)}
<1>3. PICK w \in H : \A v \in H : createdAt[w] <= createdAt[v]
  <2>1. {createdAt[v] : v \in H} \subseteq Nat /\ {createdAt[v] : v \in H} # {}
    BY <1>1, <1>2
  <2>2. PICK x \in {createdAt[v] : v \in H} : \A y \in {createdAt[v] : v \in H} : x <= y
    BY <2>1, LeastNatural
  <2> QED
    BY <2>2
<1>4. ASSUME NEW v \in Task \ {w}, Claimable(v) PROVE ClaimedBefore(w, v)
  <2>1. v \in CreatedTasks /\ w \in CreatedTasks /\ v \in C
    BY <1>3, <1>4 DEF CreatedTasks, Created, Claimable
  <2>2. createdAt[w] # createdAt[v]
    BY <1>4, <2>1 DEF CreationOrder
  <2>3. Rank(w) = Rank(u) /\ Rank(u) <= Rank(v) /\ w \in Task
    BY <1>2, <1>3, <2>1
  <2>4. Rank(v) = Rank(w) => createdAt[w] <= createdAt[v]
    BY <1>3, <2>1, <2>3
  <2> QED
    BY <1>1, <2>2, <2>3, <2>4 DEF ClaimedBefore
<1> QED
  BY <1>3, <1>4 DEF NextClaim

=============================================================================
