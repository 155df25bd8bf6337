--------------------------- MODULE MCDurableTask ---------------------------
(***************************************************************************)
(* A small instance of DurableTask for TLC.  Every behaviour is of one     *)
(* part: one Task in depth, or several Tasks that compete for the executor *)
(* and are claimed once.  The Tasks of the other part are never created.   *)
(***************************************************************************)
EXTENDS DurableTask, TLC

CONSTANTS t0, t1, t2, t3, s0, s1, s2, p0, p1, p2

VARIABLE part

\* One Task; two Tasks of one session and a Task of another principal.
Crowd == {t1, t2, t3}
ManySessionOf == (t0 :> s0) @@ (t1 :> s1) @@ (t2 :> s1) @@ (t3 :> s2)
ManyOwnerOf == (t0 :> p0) @@ (t1 :> p1) @@ (t2 :> p1) @@ (t3 :> p2)
ManyPriority == (t0 :> 0) @@ (t1 :> 0) @@ (t2 :> 0) @@ (t3 :> 1)

\* The two Tasks of the session have the same owner and priority.
TwinSymmetry == Permutations({t1, t2})

\* Every action, of one Task.
DeepNext ==
    \/ ClientCommand(t0) \/ ExecutorWrite(t0) \/ Decision(t0) \/ LeaseExpires(t0)
    \/ RecoverExpiredLeases
    \/ RecoverInterrupted

\* What decides who is created, who is claimed and who is done.
ManyNext ==
    \/ \E t \in Crowd :
         \/ Create(t) \/ RequestCancel(t) \/ RequestPause(t)
         \/ ClaimNext(t) /\ attemptCount[t] = 0
         \/ \E target \in TransitionTarget :
              Transition(t, target, IF target = "paused" THEN "manual_pause" ELSE "")
         \/ RenewLease(t) \/ LeaseExpires(t)
         \/ PauseForUnknownToolOutcome(t)
    \/ RecoverExpiredLeases

MCInit == Init /\ part \in {"deep", "many"}

MCNext ==
    \/ part = "deep" /\ DeepNext /\ UNCHANGED part
    \/ part = "many" /\ ManyNext /\ UNCHANGED part

MCSpec == MCInit /\ [][MCNext]_<<vars, part>>

=============================================================================
