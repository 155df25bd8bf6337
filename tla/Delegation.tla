----------------------------- MODULE Delegation -----------------------------
(***************************************************************************)
(* Agents that delegate: DelegationService.spawn() makes a child Task of   *)
(* an agent's Task or turn.                                                *)
(*                                                                         *)
(* The child is created staged, so that the executor leaves it alone,      *)
(* until its invocation policy and its link to the parent are stored; then *)
(* it is activated.  These are separate transactions.  Any of them may     *)
(* raise, the caller may be cancelled at an await, Core may die in         *)
(* between, and clients see the child Task from its creation on.           *)
(***************************************************************************)
EXTENDS Integers, FiniteSets

CONSTANTS
    Key,                 \* the idempotency keys that one parent uses
    MaxChildren,         \* limits.max_children
    MaxParallelChildren, \* limits.max_parallel_children
    MaxBreaks            \* bound: steps that raise, crashes of Core

ASSUME DelegationAssumption ==
    /\ IsFiniteSet(Key) /\ Key # {}
    /\ MaxChildren \in Nat
    /\ MaxParallelChildren \in Nat
    /\ MaxBreaks \in Nat

VARIABLES
    child,  \* of every key: its runtime Task, as far as delegation can tell
    policy, \* the keys whose child has a row in invocation_policy_snapshots
    link,   \* the keys with a row in agent_delegations
    files,  \* the keys whose child session holds the artifacts of its policy
    spawn,  \* _spawn_unlocked(): there is one at a time (_spawn_lock)
    adrift, \* the keys whose activate_staged() goes on in a thread nobody awaits
    core,   \* has Core started, or is it in recover_staged()
    past,   \* of every key: what has happened to its child
    breaks  \* how many faults there have been

dvars == <<child, policy, link, files, spawn, adrift, core, past, breaks>>

\* staged: queued, in the phase delegation_staged.
ChildState == {"absent", "staged", "queued", "running", "paused", "over"}
Live == {"staged", "queued", "running", "paused"}
SpawnPc == {"idle", "creating", "recording", "linking", "activating", "cancelling", "cleaning"}

\* cancelled: a cancellation was accepted; touched: it was paused while it was staged;
\* kept: the cancellation of the rollback failed.
Past == {"cancelled", "touched", "kept"}

DelegationTypeOK ==
    /\ child \in [Key -> ChildState]
    /\ policy \subseteq Key /\ link \subseteq Key /\ files \subseteq Key /\ adrift \subseteq Key
    /\ spawn \in [pc : SpawnPc, key : Key]
    /\ core \in {"up", "recovering"}
    /\ past \in [Key -> SUBSET Past]
    /\ breaks \in 0..MaxBreaks

SpawnIdle == [pc |-> "idle", key |-> CHOOSE k \in Key : TRUE]

DelegationInit ==
    /\ child = [k \in Key |-> "absent"]
    /\ policy = {} /\ link = {} /\ files = {} /\ adrift = {}
    /\ spawn = SpawnIdle
    /\ core = "up"
    /\ past = [k \in Key |-> {}]
    /\ breaks = 0

SpawnAt(pc) == spawn.pc = pc
SpawnGoes(pc) == spawn' = [spawn EXCEPT !.pc = pc]
Breaks == breaks < MaxBreaks /\ breaks' = breaks + 1

\* activate_staged() of the repository; a Task that is not staged raises.
Activated(k) == IF child[k] = "staged" THEN [child EXCEPT ![k] = "queued"] ELSE child

\* request_cancel(): a running Task is only told.
Cancelled(k) ==
    /\ child' = [child EXCEPT ![k] = IF @ \in Live \ {"running"} THEN "over" ELSE @]
    /\ past' = [past EXCEPT ![k] = IF child[k] \in Live THEN @ \cup {"cancelled"} ELSE @]

-----------------------------------------------------------------------------
(* DelegationService.spawn() *)

\* A key that has a link is only activated, if that has not been done yet.
SpawnAgain(k) ==
    /\ core = "up" /\ SpawnAt("idle") /\ k \in link
    /\ child' = Activated(k)
    /\ UNCHANGED <<policy, link, files, spawn, adrift, core, past, breaks>>

\* The limits count the links of the parent; then the child session gets the artifacts.
SpawnNew(k) ==
    /\ core = "up" /\ SpawnAt("idle") /\ k \notin link
    /\ Cardinality(link) < MaxChildren
    /\ Cardinality({l \in link : child[l] \in Live}) < MaxParallelChildren
    /\ spawn' = [pc |-> "creating", key |-> k]
    /\ UNCHANGED <<child, policy, link, files, adrift, core, past, breaks>>

\* TaskService.create(staged=True): a new session is another request, so that the
\* child of an attempt that failed conflicts.
CreateChild ==
    /\ SpawnAt("creating")
    /\ LET k == spawn.key IN
       IF child[k] = "absent"
       THEN /\ child' = [child EXCEPT ![k] = "staged"]
            /\ files' = files \cup {k}
            /\ SpawnGoes("recording")
       ELSE spawn' = SpawnIdle /\ UNCHANGED <<child, files>>
    /\ UNCHANGED <<policy, link, adrift, core, past, breaks>>

\* It raises before the transaction or after it; the artifacts are removed.
CreateFails(committed) ==
    /\ SpawnAt("creating")
    /\ Breaks
    /\ child' = IF committed /\ child[spawn.key] = "absent"
                THEN [child EXCEPT ![spawn.key] = "staged"] ELSE child
    /\ spawn' = SpawnIdle
    /\ UNCHANGED <<policy, link, files, adrift, core, past>>

RecordPolicy ==
    /\ SpawnAt("recording")
    /\ policy' = policy \cup {spawn.key}
    /\ SpawnGoes("linking")
    /\ UNCHANGED <<child, link, files, adrift, core, past, breaks>>

LinkChild ==
    /\ SpawnAt("linking")
    /\ link' = link \cup {spawn.key}
    /\ SpawnGoes("activating")
    /\ UNCHANGED <<child, policy, files, adrift, core, past, breaks>>

Activate ==
    /\ SpawnAt("activating")
    /\ child' = Activated(spawn.key)
    /\ IF child[spawn.key] = "staged" THEN spawn' = SpawnIdle ELSE SpawnGoes("cancelling")
    /\ UNCHANGED <<policy, link, files, adrift, core, past, breaks>>

\* except BaseException: a caller that is cancelled while it awaits the activation leaves
\* its thread to go on.
SpawnStepFails ==
    /\ spawn.pc \in {"recording", "linking", "activating"}
    /\ Breaks
    /\ SpawnGoes("cancelling")
    /\ \/ UNCHANGED adrift
       \/ SpawnAt("activating") /\ adrift' = adrift \cup {spawn.key}
    /\ UNCHANGED <<child, policy, link, files, core, past>>

AdriftActivates(k) ==
    /\ k \in adrift
    /\ adrift' = adrift \ {k}
    /\ child' = Activated(k)
    /\ UNCHANGED <<policy, link, files, spawn, core, past, breaks>>

\* The rollback: the child is cancelled, ...
CancelStaged ==
    /\ SpawnAt("cancelling")
    /\ Cancelled(spawn.key)
    /\ SpawnGoes("cleaning")
    /\ UNCHANGED <<policy, link, files, adrift, core, breaks>>

CancelStagedFails ==
    /\ SpawnAt("cancelling")
    /\ Breaks
    /\ past' = [past EXCEPT ![spawn.key] = @ \cup {"kept"}]
    /\ SpawnGoes("cleaning")
    /\ UNCHANGED <<child, policy, link, files, adrift, core>>

\* ... and, finally, its artifacts are removed.
CleanUp ==
    /\ SpawnAt("cleaning")
    /\ files' = files \ {spawn.key}
    /\ spawn' = SpawnIdle
    /\ UNCHANGED <<child, policy, link, adrift, core, past, breaks>>

-----------------------------------------------------------------------------
(* The child Task: the executor and the clients (DurableTask) *)

ClaimChild(k) ==
    /\ core = "up" /\ child[k] = "queued"
    /\ child' = [child EXCEPT ![k] = "running"]
    /\ UNCHANGED <<policy, link, files, spawn, adrift, core, past, breaks>>

ChildEnds(k) ==
    /\ core = "up" /\ child[k] = "running"
    /\ child' = [child EXCEPT ![k] = "over"]
    /\ UNCHANGED <<policy, link, files, spawn, adrift, core, past, breaks>>

\* pause(): the phase is no longer delegation_staged ...
PauseChild(k) ==
    /\ core = "up" /\ child[k] \in {"staged", "queued", "running"}
    /\ child' = [child EXCEPT ![k] = "paused"]
    /\ past' = [past EXCEPT ![k] = IF child[k] = "staged" THEN @ \cup {"touched"} ELSE @]
    /\ UNCHANGED <<policy, link, files, spawn, adrift, core, breaks>>

\* ... and resume() leaves it empty.
ResumeChild(k) ==
    /\ core = "up" /\ child[k] = "paused"
    /\ child' = [child EXCEPT ![k] = "queued"]
    /\ UNCHANGED <<policy, link, files, spawn, adrift, core, past, breaks>>

\* DelegationService.cancel(), or a client that cancels the Task.
CancelChild(k) ==
    /\ core = "up" /\ child[k] \in Live
    /\ Cancelled(k)
    /\ UNCHANGED <<policy, link, files, spawn, adrift, core, breaks>>

-----------------------------------------------------------------------------
(* Core dies and starts *)

DelegationCrash ==
    /\ Breaks
    /\ core' = "recovering"
    /\ spawn' = SpawnIdle
    /\ adrift' = {}
    /\ UNCHANGED <<child, policy, link, files, past>>

\* Mutation: a staged child of the last life is activated as it is.
Complete_Always(k) == TRUE

\* The policy and the link are there; both are written by the same spawn.
Complete(k) == k \in policy /\ k \in link

\* recover_staged(): before the executor starts.
RecoverStaged(k) ==
    /\ core = "recovering" /\ child[k] = "staged"
    /\ IF Complete(k)
       THEN child' = Activated(k) /\ UNCHANGED <<files, past>>
       ELSE Cancelled(k) /\ files' = files \ {k}
    /\ UNCHANGED <<policy, link, spawn, adrift, core, breaks>>

\* TaskService.start(): what was running is paused, or queued again.
CoreHasStarted ==
    /\ core = "recovering" /\ \A k \in Key : child[k] # "staged"
    /\ core' = "up"
    /\ \E to \in {"paused", "queued"} :
          child' = [k \in Key |-> IF child[k] = "running" THEN to ELSE child[k]]
    /\ UNCHANGED <<policy, link, files, spawn, adrift, past, breaks>>

DelegationNext ==
    \/ CreateChild \/ RecordPolicy \/ LinkChild \/ Activate \/ CancelStaged \/ CleanUp
    \/ SpawnStepFails \/ CancelStagedFails
    \/ \E committed \in BOOLEAN : CreateFails(committed)
    \/ \E k \in Key : \/ SpawnAgain(k) \/ SpawnNew(k) \/ AdriftActivates(k)
                      \/ ClaimChild(k) \/ ChildEnds(k) \/ PauseChild(k) \/ ResumeChild(k)
                      \/ CancelChild(k) \/ RecoverStaged(k)
    \/ DelegationCrash
    \/ CoreHasStarted

DelegationSpec == DelegationInit /\ [][DelegationNext]_dvars

-----------------------------------------------------------------------------
(* Properties *)

MayRun(k) == child[k] \in {"queued", "running"} /\ "touched" \notin past[k]

\* spawn() and recover_staged(), "fail closed on incomplete staging": whatever step of a
\* spawn fails and wherever Core dies, a child that may run has the policy that limits it
\* and the link its parent finds it by; it has its artifacts too, unless it was cancelled
\* or the rollback could not cancel it; and the parent's limit on parallel children holds.
\* A child that was paused while it was staged is not covered: resume() lets it run.
FailClosed ==
    /\ \A k \in Key : MayRun(k) => /\ k \in policy /\ k \in link
                                   /\ k \in files \/ past[k] \cap {"cancelled", "kept"} # {}
    /\ Cardinality({k \in Key : MayRun(k)}) <= MaxParallelChildren
=============================================================================
