----------------------- MODULE ScheduleDelivery_proofs -----------------------
(***************************************************************************)
(* Theorems about ScheduleDelivery, for every recurrence, every limit on   *)
(* the attempts and any number of occurrences and crashes.                 *)
(***************************************************************************)
EXTENDS ScheduleDelivery, TLAPS

-----------------------------------------------------------------------------
(* Types *)

\* An interval is a number of seconds, 0 standing for a one-time schedule.
LEMMA IntervalsTyped == Intervals \cup {0} \subseteq Nat
BY DeliveryAssumption

\* next_fire_at() returns a time or nothing.
LEMMA NextFireAtTyped ==
    ASSUME NEW i \in Nat, NEW x \in Int
    PROVE  NextFireAt(i, x) \in Int
BY DeliveryAssumption DEF NextFireAt, Never

\* The empty database is type correct.
LEMMA DeliveryInitTyped == DeliveryInit => DeliveryTypeOK
BY DeliveryAssumption
   DEF DeliveryInit, DeliveryTypeOK, NoOccurrence, Idle, Never, ScheduleState, OccurrenceState,
       Timer, RunState, CallPc, Request, Manual, Fire, Caller

\* Every step keeps the types.
LEMMA DeliveryNextTyped == DeliveryTypeOK /\ [DeliveryNext]_dvars => DeliveryTypeOK'
<1> SUFFICES ASSUME DeliveryTypeOK, [DeliveryNext]_dvars PROVE DeliveryTypeOK'
  OBVIOUS
<1> USE DeliveryAssumption DEF DeliveryTypeOK
<1>0. /\ Following \in Int
      /\ FollowingState \in {"active", "completed"}
  <2>1. schedule.interval \in Intervals \cup {0} /\ now \in 0..MaxTime
    OBVIOUS
  <2>2. schedule.interval \in Nat
    BY <2>1, IntervalsTyped, Zenon
  <2>3. Following \in Int
    BY <2>1, <2>2, NextFireAtTyped DEF Following
  <2> QED BY <2>3 DEF FollowingState
<1>1. ASSUME NEW i \in Intervals, CreateSchedule(i) PROVE DeliveryTypeOK'
  <2>1. i \in Nat /\ now \in Int
    OBVIOUS
  <2>2. NextFireAt(i, now) \in Int
    BY <2>1, NextFireAtTyped
  <2> QED BY <1>1, <2>2 DEF CreateSchedule, ScheduleState
<1>2. CASE PauseSchedule
  BY <1>2 DEF PauseSchedule, ScheduleState
<1>3. CASE ResumeSchedule
  BY <1>3, <1>0 DEF ResumeSchedule, ScheduleState
<1>4. CASE DeleteSchedule
  BY <1>4 DEF DeleteSchedule, ScheduleState, OccurrenceState, Timer, NoOccurrence, Never
<1>5. CASE StartByHand
  BY <1>5 DEF StartByHand, CallPc, Request, Caller
<1>6. CASE ClaimNew
  <2>1. NextOrdinal \in Fire /\ NextOrdinal \in 0..MaxFires
    BY <1>6 DEF ClaimNew, Fire
  <2>2. schedule' \in [state : ScheduleState, interval : Intervals \cup {0}, next : Int,
                       last : Int, fires : 0..MaxFires]
    BY <1>6, <1>0, <2>1 DEF ClaimNew, ScheduleState
  <2>3. [state |-> "claimed", due |-> ScheduledFor, attempts |-> 1, timer |-> "running"]
           \in [state : OccurrenceState, due : Int, attempts : Nat, timer : Timer]
    BY DEF ScheduledFor, OccurrenceState, Timer
  <2>4. occ' \in [Fire -> [state : OccurrenceState, due : Int, attempts : Nat, timer : Timer]]
    BY <1>6, <2>1, <2>3 DEF ClaimNew
  <2>5. call' \in [Caller -> [pc : CallPc, request : Request]]
    BY <1>6, <2>1 DEF ClaimNew, Delivering, CallPc, Request, Caller
  <2> QED BY <1>6, <2>2, <2>4, <2>5 DEF ClaimNew
<1>7. ASSUME NEW o \in Fire, GiveUp(o) \/ ClaimAgain(o) PROVE DeliveryTypeOK'
  BY <1>7 DEF GiveUp, ClaimAgain, Delivering, OccurrenceState, Timer, CallPc, Caller, Request
<1>8. CASE ReadSchedule
  BY <1>8 DEF ReadSchedule, Fails, Goto, CallPc, Caller
<1>9. ASSUME NEW c \in Caller, Launch(c) PROVE DeliveryTypeOK'
  <2>1. ASSUME NEW b \in BOOLEAN, CheckActive(c, b) PROVE DeliveryTypeOK'
    BY <2>1 DEF CheckActive, Fails, Goto, Idle, CallPc, Caller, Request
  <2>2. ASSUME NEW b \in BOOLEAN, CreateRun(c, b) PROVE DeliveryTypeOK'
    BY <2>2 DEF CreateRun, Fails, Goto, Idle, CallPc, Caller, Request, RunState
  <2>3. CASE LinkRun(c)
    BY <2>3 DEF LinkRun, AfterLink, Idle, CallPc, Caller, Request
  <2> QED BY <1>9, <2>1, <2>2, <2>3 DEF Launch
<1>10. CASE MarkTaskCreated
  BY <1>10 DEF MarkTaskCreated, Current, Released, Fails, Goto, Idle, OccurrenceState, Timer,
     CallPc, Caller, Request
<1>11. ASSUME NEW b \in BOOLEAN, MarkDeliveryFailed(b) PROVE DeliveryTypeOK'
  BY <1>11 DEF MarkDeliveryFailed, FailedState, Current, Released, Idle, OccurrenceState, Timer,
     CallPc, Caller, Request
<1>12. CASE Tick
  BY <1>12 DEF Tick
<1>13. ASSUME NEW o \in Fire, TimerElapses(o) PROVE DeliveryTypeOK'
  BY <1>13 DEF TimerElapses, Timer
<1>14. ASSUME NEW r \in Request, NEW to \in RunState, RunMoves(r, to) PROVE DeliveryTypeOK'
  BY <1>14 DEF RunMoves
<1>15. CASE Crash
  BY <1>15 DEF Crash, Idle, CallPc, Request
<1>16. CASE UNCHANGED dvars
  BY <1>16 DEF dvars
<1> QED
  BY <1>1, <1>2, <1>3, <1>4, <1>5, <1>6, <1>7, <1>8, <1>9, <1>10, <1>11, <1>12, <1>13, <1>14,
     <1>15, <1>16 DEF DeliveryNext, Command, Dispatch, Claim, Caller

\* Every reachable state of the schedule tables and of the calls in flight is
\* type correct: no operation writes a state nobody reads.
THEOREM DeliveryTypeCorrect == DeliverySpec => []DeliveryTypeOK
BY DeliveryInitTyped, DeliveryNextTyped, PTL DEF DeliverySpec

-----------------------------------------------------------------------------
(* Attempts *)

\* The limit alone is not inductive: a waiting occurrence is claimed again
\* without a test, so it must have an attempt left.
AttemptsInv ==
    \A o \in Fire :
        /\ occ[o].attempts <= MaxDeliveryAttempts
        /\ occ[o].state = "retry_wait" => occ[o].attempts < MaxDeliveryAttempts

\* No claim, failure record or deletion exceeds the limit.
LEMMA NextKeepsAttempts ==
    DeliveryTypeOK /\ AttemptsInv /\ [DeliveryNext]_dvars => AttemptsInv'
<1> SUFFICES ASSUME DeliveryTypeOK, AttemptsInv, [DeliveryNext]_dvars PROVE AttemptsInv'
  OBVIOUS
<1> USE DeliveryAssumption DEF AttemptsInv
<1>0. occ \in [Fire -> [state : OccurrenceState, due : Int, attempts : Nat, timer : Timer]]
  BY DEF DeliveryTypeOK
<1>1. CASE UNCHANGED occ
  BY <1>1
<1>2. CASE DeleteSchedule
  BY <1>2 DEF DeleteSchedule, NoOccurrence
<1>3. CASE ClaimNew
  BY <1>3, <1>0 DEF ClaimNew
<1>4. ASSUME NEW o \in Fire, GiveUp(o) PROVE AttemptsInv'
  BY <1>4, <1>0 DEF GiveUp
<1>5. ASSUME NEW o \in Fire, ClaimAgain(o) PROVE AttemptsInv'
  <2>1. occ[o].state \in {"retry_wait", "claimed"}
    BY <1>5 DEF ClaimAgain, FirstDue, DueOccurrences
  <2>2. occ[o].attempts + 1 <= MaxDeliveryAttempts
    BY <1>5, <1>0, <2>1 DEF ClaimAgain, Exhausted
  <2> QED BY <1>5, <1>0, <2>2 DEF ClaimAgain
<1>6. CASE MarkTaskCreated
  BY <1>6, <1>0 DEF MarkTaskCreated
<1>7. ASSUME NEW b \in BOOLEAN, MarkDeliveryFailed(b) PROVE AttemptsInv'
  BY <1>7, <1>0 DEF MarkDeliveryFailed, FailedState, Exhausted
<1>8. ASSUME NEW o \in Fire, TimerElapses(o) PROVE AttemptsInv'
  BY <1>8, <1>0 DEF TimerElapses
<1> QED
  BY <1>1, <1>2, <1>3, <1>4, <1>5, <1>6, <1>7, <1>8
     DEF DeliveryNext, Command, Dispatch, Claim, Launch, dvars, CreateSchedule, PauseSchedule,
         ResumeSchedule, StartByHand, ReadSchedule, CheckActive, CreateRun, LinkRun, Tick,
         RunMoves, Crash

\* An occurrence that does not exist has used no attempt.
LEMMA InitAttempts == DeliveryInit => AttemptsInv
BY DeliveryAssumption DEF DeliveryInit, AttemptsInv, NoOccurrence

\* Whatever fails, is lost or crashes, and in whatever order leases and backoffs
\* run out, claim_due() never claims an occurrence more often than
\* max_delivery_attempts.
THEOREM AttemptsCorrect == DeliverySpec => []AttemptsBounded
<1>1. DeliverySpec => []AttemptsInv
  BY DeliveryInitTyped, DeliveryNextTyped, InitAttempts, NextKeepsAttempts, PTL DEF DeliverySpec
<1>2. AttemptsInv => AttemptsBounded
  BY DEF AttemptsInv, AttemptsBounded
<1> QED BY <1>1, <1>2, PTL

-----------------------------------------------------------------------------
(* Links *)

\* What a call in flight has established by the time it links and marks.
LinkInv ==
    /\ \A r \in linked : run[r] # "absent"
    /\ \A c \in Caller :
          /\ call[c].pc = "linking" => run[call[c].request] # "absent"
          /\ call[c].pc = "marking" => call[c].request \in linked
    /\ MarkedIsLinked

\* Every step keeps it: a runtime Task is never deleted and a link never removed.
LEMMA NextKeepsLinks == DeliveryTypeOK /\ LinkInv /\ [DeliveryNext]_dvars => LinkInv'
<1> SUFFICES ASSUME DeliveryTypeOK, LinkInv, [DeliveryNext]_dvars PROVE LinkInv'
  OBVIOUS
<1> USE DEF LinkInv, MarkedIsLinked
<1>0. /\ occ \in [Fire -> [state : OccurrenceState, due : Int, attempts : Nat, timer : Timer]]
      /\ run \in [Request -> RunState]
      /\ linked \subseteq Request
      /\ call \in [Caller -> [pc : CallPc, request : Request]]
      /\ Fire \subseteq Request
  BY DEF DeliveryTypeOK, Request
<1>1. CASE UNCHANGED <<occ, run, linked, call>>
  BY <1>1
<1>2. CASE DeleteSchedule
  BY <1>2 DEF DeleteSchedule, NoOccurrence
<1>3. CASE StartByHand
  BY <1>3, <1>0 DEF StartByHand
<1>4. CASE ClaimNew
  BY <1>4, <1>0 DEF ClaimNew, Delivering
<1>5. ASSUME NEW o \in Fire, GiveUp(o) PROVE LinkInv'
  BY <1>5, <1>0 DEF GiveUp
<1>5a. ASSUME NEW o \in Fire, ClaimAgain(o) PROVE LinkInv'
  BY <1>5a, <1>0 DEF ClaimAgain, Delivering
<1>6. CASE ReadSchedule
  BY <1>6, <1>0 DEF ReadSchedule, Fails, Goto
<1>7. ASSUME NEW c \in Caller, Launch(c) PROVE LinkInv'
  <2>1. ASSUME NEW b \in BOOLEAN, CheckActive(c, b) PROVE LinkInv'
    BY <2>1, <1>0 DEF CheckActive, Fails, Goto, Idle
  <2>2. ASSUME NEW b \in BOOLEAN, CreateRun(c, b) PROVE LinkInv'
    BY <2>2, <1>0 DEF CreateRun, Fails, Goto, Idle
  <2>3. CASE LinkRun(c)
    BY <2>3, <1>0 DEF LinkRun, AfterLink, Idle, At
  <2> QED BY <1>7, <2>1, <2>2, <2>3 DEF Launch
<1>8. CASE MarkTaskCreated
  BY <1>8, <1>0 DEF MarkTaskCreated, Current, Released, Fails, Goto, Idle, At, Caller
<1>9. ASSUME NEW b \in BOOLEAN, MarkDeliveryFailed(b) PROVE LinkInv'
  BY <1>9, <1>0 DEF MarkDeliveryFailed, FailedState, Current, Released, Idle
<1>10. ASSUME NEW o \in Fire, TimerElapses(o) PROVE LinkInv'
  BY <1>10, <1>0 DEF TimerElapses
<1>11. ASSUME NEW r \in Request, NEW to \in RunState, RunMoves(r, to) PROVE LinkInv'
  BY <1>11, <1>0 DEF RunMoves
<1>12. CASE Crash
  BY <1>12, <1>0 DEF Crash, Idle
<1> QED
  BY <1>1, <1>2, <1>3, <1>4, <1>5, <1>5a, <1>6, <1>7, <1>8, <1>9, <1>10, <1>11, <1>12
     DEF DeliveryNext, Command, Dispatch, Claim, dvars, CreateSchedule, PauseSchedule,
         ResumeSchedule, Tick, Caller

\* Nothing is linked at first.
LEMMA InitLinks == DeliveryInit => LinkInv
BY DEF DeliveryInit, LinkInv, MarkedIsLinked, NoOccurrence, Idle

\* An occurrence recorded as task_created has its runtime Task, listed as an
\* execution of the product Task, through crashes and retries of dispatch_once().
THEOREM MarksCorrect == DeliverySpec => []MarkedIsLinked
<1>1. DeliverySpec => []LinkInv
  BY DeliveryInitTyped, DeliveryNextTyped, InitLinks, NextKeepsLinks, PTL DEF DeliverySpec
<1>2. LinkInv => MarkedIsLinked
  BY DEF LinkInv
<1> QED BY <1>1, <1>2, PTL

-----------------------------------------------------------------------------
(* Instants *)

\* What the integer division of next_fire_at() means, without division.
LEMMA WholeIntervals ==
    ASSUME NEW a \in Nat, NEW i \in Nat \ {0}
    PROVE  /\ a \div i \in 0..a
           /\ (a \div i) * i <= a
           /\ a < (a \div i + 1) * i
OBVIOUS

\* Instants come in the order of their numbers.
LEMMA InstantOrder ==
    ASSUME NEW i \in Nat, NEW k \in Nat, NEW q \in Nat, k * i > q * i
    PROVE  k * i >= (q + 1) * i
<1>1. k >= q + 1
  OBVIOUS
<1> QED BY <1>1

\* next_fire_at() returns the first instant of the recurrence after its argument.
LEMMA FirstInstant ==
    ASSUME NEW i \in Nat, NEW x \in 0..MaxTime, NextFireAt(i, x) # Never
    PROVE  /\ NextFireAt(i, x) \in Instants(i)
           /\ NextFireAt(i, x) > x
           /\ \A y \in Instants(i) : y > x => NextFireAt(i, x) <= y
<1> USE DeliveryAssumption
<1>1. CASE RunAt > x
  <2>1. NextFireAt(i, x) = RunAt + 0 * i
    BY <1>1 DEF NextFireAt
  <2>2. \A k \in 0..(MaxTime + 1) : k * i \in Nat
    OBVIOUS
  <2> QED BY <1>1, <2>1, <2>2 DEF Instants
<1>2. CASE ~(RunAt > x)
  <2>1. i # 0
    BY <1>2 DEF NextFireAt
  <2> DEFINE q == (x - RunAt) \div i
  <2>2. x - RunAt \in Nat /\ x - RunAt <= MaxTime
    BY <1>2
  <2>3. NextFireAt(i, x) = RunAt + (q + 1) * i
    BY <1>2, <2>1 DEF NextFireAt
  <2>4. q \in 0..(x - RunAt) /\ q * i <= x - RunAt /\ x - RunAt < (q + 1) * i
    BY <2>1, <2>2, WholeIntervals
  <2> HIDE DEF q
  <2>5. q + 1 \in 0..(MaxTime + 1) /\ q \in Nat /\ q * i \in Nat /\ (q + 1) * i \in Nat
    BY <2>2, <2>4
  <2>6. NextFireAt(i, x) \in Instants(i)
    BY <2>3, <2>5 DEF Instants
  <2>7. NextFireAt(i, x) > x
    BY <2>3, <2>4, <2>5
  <2>8. ASSUME NEW y \in Instants(i), y > x PROVE NextFireAt(i, x) <= y
    <3>1. PICK k \in 0..(MaxTime + 1) : y = RunAt + k * i
      BY DEF Instants
    <3>2. k \in Nat /\ k * i \in Nat
      OBVIOUS
    <3>3. k * i > q * i
      BY <2>4, <2>5, <2>8, <3>1, <3>2
    <3>4. k * i >= (q + 1) * i
      BY <2>5, <3>2, <3>3, InstantOrder
    <3> QED BY <2>3, <2>5, <3>1, <3>2, <3>4
  <2> QED BY <2>6, <2>7, <2>8
<1> QED BY <1>1, <1>2

\* Creation, a claim and a resume set next_fire_at to the first instant to come.
LEMMA NextIsFirst ==
    ASSUME DeliveryTypeOK, [DeliveryNext]_dvars,
           schedule'.next # schedule.next, schedule'.next # Never
    PROVE  /\ schedule'.next \in Instants(schedule'.interval)
           /\ schedule'.next > now
           /\ \A x \in Instants(schedule'.interval) : x > now => schedule'.next <= x
<1> USE DeliveryAssumption
<1>0. /\ schedule \in [state : ScheduleState, interval : Intervals \cup {0}, next : Int,
                       last : Int, fires : 0..MaxFires]
      /\ now \in 0..MaxTime
  BY DEF DeliveryTypeOK
<1>1. schedule.interval \in Nat
  BY <1>0, IntervalsTyped, Zenon
<1>2. schedule' # schedule
  OBVIOUS
<1>3. ASSUME NEW i \in Intervals, CreateSchedule(i)
      PROVE  schedule'.next = NextFireAt(i, now) /\ schedule'.interval = i /\ i \in Nat
  BY <1>3, <1>0 DEF CreateSchedule
<1>4. ASSUME ResumeSchedule \/ ClaimNew
      PROVE  /\ schedule'.next = NextFireAt(schedule.interval, now)
             /\ schedule'.interval = schedule.interval
  BY <1>4, <1>0 DEF ResumeSchedule, ClaimNew, Following
<1>5. (\E i \in Intervals : CreateSchedule(i)) \/ ResumeSchedule \/ ClaimNew
  <2>1. ~PauseSchedule /\ ~DeleteSchedule
    BY <1>0 DEF PauseSchedule, DeleteSchedule
  <2> QED
    BY <1>2, <2>1
       DEF DeliveryNext, Command, Dispatch, Claim, Launch, dvars, StartByHand, GiveUp, ClaimAgain,
           ReadSchedule, CheckActive, CreateRun, LinkRun, MarkTaskCreated, MarkDeliveryFailed,
           Tick, TimerElapses, RunMoves, Crash
<1> QED BY <1>0, <1>1, <1>3, <1>4, <1>5, FirstInstant

\* Nothing fires twice, drifts or catches up after downtime, for every recurrence.
THEOREM FiresCorrect == DeliverySpec => FiresOnSchedule
<1>1. DeliverySpec => []DeliveryTypeOK
  BY DeliveryTypeCorrect
<1>2. DeliveryTypeOK /\ [DeliveryNext]_dvars =>
        [(schedule'.next # schedule.next /\ schedule'.next # Never) =>
          /\ schedule'.next \in Instants(schedule'.interval)
          /\ schedule'.next > now
          /\ \A x \in Instants(schedule'.interval) : x > now => schedule'.next <= x]_dvars
  BY NextIsFirst
<1> QED BY <1>1, <1>2, PTL DEF DeliverySpec, FiresOnSchedule

-----------------------------------------------------------------------------
(* Accounting *)

\* A schedule that was never created has not fired, and one that may still fire
\* has an instant to come that is later than all its occurrences.
AccountInv ==
    /\ schedule.state = "absent" => schedule.fires = 0
    /\ schedule.state \in {"active", "paused"} =>
          /\ schedule.next \in Instants(schedule.interval)
          /\ \A o \in Fire : o <= schedule.fires => occ[o].due < schedule.next
    /\ schedule.state # "deleted" =>
          /\ \A o \in Fire : occ[o].state # "none" <=> o <= schedule.fires
          /\ \A o \in Fire : o <= schedule.fires =>
                /\ occ[o].due \in Instants(schedule.interval) /\ occ[o].due <= now
                /\ \A p \in Fire : p < o => occ[p].due < occ[o].due
          /\ schedule.fires > 0 => schedule.last = occ[schedule.fires].due

\* A step that leaves the schedule alone and no row's existence or date changed keeps it.
LEMMA AccountFrame ==
    ASSUME DeliveryTypeOK, AccountInv, schedule' = schedule, now' \in Nat, now' >= now,
           \A o \in Fire : /\ occ'[o].due = occ[o].due
                           /\ occ'[o].state = "none" <=> occ[o].state = "none"
    PROVE  AccountInv'
<1>0. /\ schedule \in [state : ScheduleState, interval : Intervals \cup {0}, next : Int,
                       last : Int, fires : 0..MaxFires]
      /\ now \in Nat /\ MaxFires \in Nat
      /\ \A o \in Fire : occ[o].due \in Int
  BY DeliveryAssumption DEF DeliveryTypeOK
<1>1. schedule.fires > 0 => schedule.fires \in Fire
  BY <1>0 DEF Fire
<1>2. \A o \in Fire : occ[o].due <= now => occ'[o].due <= now'
  BY <1>0
<1> QED BY <1>0, <1>1, <1>2 DEF AccountInv, Instants

\* Every step keeps it.
LEMMA NextKeepsAccount ==
    DeliveryTypeOK /\ AccountInv /\ [DeliveryNext]_dvars => AccountInv'
<1> SUFFICES ASSUME DeliveryTypeOK, AccountInv, [DeliveryNext]_dvars PROVE AccountInv'
  OBVIOUS
<1> USE DeliveryAssumption
<1>0. /\ schedule \in [state : ScheduleState, interval : Intervals \cup {0}, next : Int,
                       last : Int, fires : 0..MaxFires]
      /\ now \in 0..MaxTime
      /\ occ \in [Fire -> [state : OccurrenceState, due : Int, attempts : Nat, timer : Timer]]
      /\ schedule.fires \in 0..MaxFires
  BY DEF DeliveryTypeOK
<1>i. schedule.interval \in Nat
  BY <1>0, IntervalsTyped, Zenon
<1>1. CASE UNCHANGED <<now, schedule, occ>>
  BY <1>0, <1>1, AccountFrame
<1>2. ASSUME NEW i \in Intervals, CreateSchedule(i) PROVE AccountInv'
  <2>1. NextFireAt(i, now) \in Instants(i)
    BY <1>0, <1>2, FirstInstant DEF CreateSchedule
  <2>2. /\ schedule'.state = "active" /\ schedule'.next = NextFireAt(i, now)
        /\ schedule'.interval = i /\ schedule'.fires = 0 /\ schedule.fires = 0
        /\ schedule.state = "absent" /\ occ' = occ
    BY <1>0, <1>2 DEF CreateSchedule, AccountInv
  <2> QED BY <1>0, <2>1, <2>2 DEF AccountInv, Fire
<1>3. CASE PauseSchedule
  <2>1. /\ schedule.state = "active" /\ schedule'.state = "paused"
        /\ schedule'.next = schedule.next /\ schedule'.interval = schedule.interval
        /\ schedule'.fires = schedule.fires /\ schedule'.last = schedule.last
        /\ occ' = occ /\ now' = now
    BY <1>0, <1>3 DEF PauseSchedule
  <2> QED BY <2>1 DEF AccountInv, Instants
<1>4. CASE ResumeSchedule
  <2>1. /\ schedule.state = "paused" /\ schedule'.state = FollowingState
        /\ schedule'.next = Following /\ schedule'.interval = schedule.interval
        /\ schedule'.fires = schedule.fires /\ schedule'.last = schedule.last
        /\ occ' = occ /\ now' = now
    BY <1>0, <1>4 DEF ResumeSchedule
  <2>2. FollowingState = "active" => Following \in Instants(schedule.interval) /\ Following > now
    BY <1>0, <1>i, FirstInstant DEF Following, FollowingState
  <2>3. Following \in Int
    BY <1>0, <1>i, NextFireAtTyped DEF Following
  <2>4. FollowingState \in {"active", "completed"}
    BY DEF FollowingState
  <2>5. FollowingState = "active" =>
           \A o \in Fire : o <= schedule.fires => occ[o].due < Following
    BY <1>0, <2>1, <2>2, <2>3 DEF AccountInv
  <2> QED BY <2>1, <2>2, <2>4, <2>5 DEF AccountInv, Instants
<1>5. CASE DeleteSchedule
  BY <1>0, <1>5 DEF DeleteSchedule, AccountInv
<1>6. CASE ClaimNew
  <2> DEFINE n == schedule.fires + 1
  <2>1. /\ schedule.state = "active" /\ schedule.next <= now
        /\ n \in Fire
        /\ schedule'.state = FollowingState /\ schedule'.next = Following
        /\ schedule'.last = schedule.next /\ schedule'.fires = n
        /\ schedule'.interval = schedule.interval
        /\ now' = now
    BY <1>0, <1>6 DEF ClaimNew, NextOrdinal
  <2>2. /\ occ'[n].state = "claimed" /\ occ'[n].due = schedule.next
        /\ \A o \in Fire \ {n} : occ'[o] = occ[o]
    BY <1>0, <1>6, <2>1 DEF ClaimNew, NextOrdinal, ScheduledFor
  <2>3. FollowingState = "active" => Following \in Instants(schedule.interval) /\ Following > now
    BY <1>0, <1>i, FirstInstant DEF Following, FollowingState
  <2>4. Following \in Int
    BY <1>0, <1>i, NextFireAtTyped DEF Following
  <2>5. FollowingState \in {"active", "completed"}
    BY DEF FollowingState
  <2>6. \A o \in Fire : o <= n <=> o <= schedule.fires \/ o = n
    BY <1>0 DEF Fire
  <2>7. \A o \in Fire : o <= schedule.fires => o # n /\ occ'[o] = occ[o] /\ occ[o].due < schedule.next
    <3>1. \A o \in Fire : o <= schedule.fires => o # n
      BY <1>0 DEF Fire
    <3>2. \A o \in Fire : o <= schedule.fires => occ[o].due < schedule.next
      BY <2>1 DEF AccountInv
    <3> QED BY <2>2, <3>1, <3>2
  <2>8. \A o \in Fire : o <= n => occ'[o].due \in Instants(schedule.interval) /\ occ'[o].due <= now
    BY <2>1, <2>2, <2>6, <2>7 DEF AccountInv
  <2>9. \A o \in Fire : o <= n => \A p \in Fire : p < o => occ'[p].due < occ'[o].due
    <3> SUFFICES ASSUME NEW o \in Fire, o <= n, NEW p \in Fire, p < o PROVE occ'[p].due < occ'[o].due
      OBVIOUS
    <3>1. p <= schedule.fires
      BY <1>0 DEF Fire
    <3>2. CASE o = n
      BY <2>2, <2>7, <3>1, <3>2
    <3>3. CASE o <= schedule.fires
      BY <2>1, <2>7, <3>1, <3>3 DEF AccountInv
    <3> QED BY <2>6, <3>2, <3>3
  <2>10. \A o \in Fire : occ'[o].state # "none" <=> o <= n
    BY <2>1, <2>2, <2>6, <2>7 DEF AccountInv
  <2>11. FollowingState = "active" => \A o \in Fire : o <= n => occ'[o].due < Following
    BY <1>0, <2>1, <2>2, <2>3, <2>4, <2>6, <2>7
  <2> HIDE DEF n
  <2> QED BY <2>1, <2>2, <2>3, <2>5, <2>8, <2>9, <2>10, <2>11 DEF AccountInv, Instants
<1>7. ASSUME NEW o \in Fire, GiveUp(o) PROVE AccountInv'
  BY <1>0, <1>7, AccountFrame DEF GiveUp
<1>8. ASSUME NEW o \in Fire, ClaimAgain(o) PROVE AccountInv'
  <2>1. occ[o].state # "none"
    BY <1>8 DEF ClaimAgain, FirstDue, DueOccurrences
  <2> QED BY <1>0, <1>8, <2>1, AccountFrame DEF ClaimAgain
<1>9. CASE MarkTaskCreated
  BY <1>0, <1>9, AccountFrame DEF MarkTaskCreated
<1>10. ASSUME NEW b \in BOOLEAN, MarkDeliveryFailed(b) PROVE AccountInv'
  BY <1>0, <1>10, AccountFrame DEF MarkDeliveryFailed, FailedState
<1>11. CASE Tick
  BY <1>0, <1>11, AccountFrame DEF Tick
<1>12. ASSUME NEW o \in Fire, TimerElapses(o) PROVE AccountInv'
  BY <1>0, <1>12, AccountFrame DEF TimerElapses
<1> QED
  BY <1>1, <1>2, <1>3, <1>4, <1>5, <1>6, <1>7, <1>8, <1>9, <1>10, <1>11, <1>12
     DEF DeliveryNext, Command, Dispatch, Claim, Launch, dvars, StartByHand, ReadSchedule,
         CheckActive, CreateRun, LinkRun, RunMoves, Crash

\* Without a schedule there is nothing to account for.
LEMMA InitAccount == DeliveryInit => AccountInv
BY DeliveryAssumption DEF DeliveryInit, AccountInv, NoOccurrence, Fire

\* Schedule and occurrences account for each other, and what a row says of its own
\* delivery is true, through pauses, deletion, lost records and crashes.
THEOREM AccountsCorrect == DeliverySpec => []OccurrencesAccounted
<1>1. DeliverySpec => []AccountInv
  BY DeliveryInitTyped, DeliveryNextTyped, InitAccount, NextKeepsAccount, PTL DEF DeliverySpec
<1>2. AccountInv /\ AttemptsBounded /\ MarkedIsLinked => OccurrencesAccounted
  BY DEF AccountInv, OccurrencesAccounted
<1> QED BY <1>1, <1>2, AttemptsCorrect, MarksCorrect, PTL

-----------------------------------------------------------------------------
(* The promise of BoundedDelivery *)

\* What the dispatcher has in hand is an occurrence it claimed, unless the schedule
\* was deleted under it; a client's call is never for an occurrence.
HandInv ==
    /\ schedule.state = "deleted" => \A o \in Fire : occ[o].state = "none"
    /\ \A o \in Fire : occ[o].state = "none" => occ[o].attempts = 0
    /\ call["client"].request = Manual
    /\ call["dispatcher"].pc # "idle" =>
          /\ Current \in Fire
          /\ schedule.state # "deleted" => occ[Current].state = "claimed"

\* Every step keeps it.
LEMMA NextKeepsHand ==
    DeliveryTypeOK /\ HandInv /\ [DeliveryNext]_dvars => HandInv'
<1> SUFFICES ASSUME DeliveryTypeOK, HandInv, [DeliveryNext]_dvars PROVE HandInv'
  OBVIOUS
<1> USE DEF HandInv, Current
<1>0. /\ schedule \in [state : ScheduleState, interval : Intervals \cup {0}, next : Int,
                       last : Int, fires : 0..MaxFires]
      /\ occ \in [Fire -> [state : OccurrenceState, due : Int, attempts : Nat, timer : Timer]]
      /\ call \in [Caller -> [pc : CallPc, request : Request]]
      /\ "client" \in Caller /\ "dispatcher" \in Caller
  BY DEF DeliveryTypeOK, Caller
<1>1. CASE UNCHANGED <<schedule, occ, call>>
  BY <1>1
<1>2. CASE (\E i \in Intervals : CreateSchedule(i)) \/ PauseSchedule \/ ResumeSchedule
  <2>1. /\ schedule.state # "deleted" /\ schedule'.state # "deleted"
        /\ occ' = occ /\ call' = call
    BY <1>0, <1>2 DEF CreateSchedule, PauseSchedule, ResumeSchedule, FollowingState
  <2> QED BY <2>1
<1>3. CASE DeleteSchedule
  <2>1. schedule'.state = "deleted" /\ call' = call
    BY <1>0, <1>3 DEF DeleteSchedule
  <2>2. \A o \in Fire : occ'[o].state = "none" /\ occ'[o].attempts = 0
    BY <1>3 DEF DeleteSchedule, NoOccurrence
  <2> QED BY <2>1, <2>2
<1>4. CASE StartByHand
  BY <1>4, <1>0 DEF StartByHand
<1>5. CASE ClaimNew
  <2>1. NextOrdinal \in Fire /\ schedule.state = "active" /\ schedule'.state # "deleted"
    BY <1>5, <1>0 DEF ClaimNew, FollowingState
  <2>2. /\ occ'[NextOrdinal].state = "claimed"
        /\ \A o \in Fire \ {NextOrdinal} : occ'[o] = occ[o]
    BY <1>5, <1>0, <2>1 DEF ClaimNew
  <2>3. /\ call'["dispatcher"].request = NextOrdinal
        /\ call'["client"] = call["client"]
    BY <1>5, <1>0 DEF ClaimNew, Delivering
  <2> QED BY <2>1, <2>2, <2>3
<1>6. ASSUME NEW o \in Fire, GiveUp(o) PROVE HandInv'
  BY <1>6, <1>0 DEF GiveUp, At, FirstDue, DueOccurrences
<1>7. ASSUME NEW o \in Fire, ClaimAgain(o) PROVE HandInv'
  <2>1. occ[o].state # "none"
    BY <1>7 DEF ClaimAgain, FirstDue, DueOccurrences
  <2>2. /\ occ'[o].state = "claimed" /\ schedule' = schedule
        /\ \A p \in Fire \ {o} : occ'[p] = occ[p]
    BY <1>7, <1>0 DEF ClaimAgain
  <2>3. /\ call'["dispatcher"].request = o /\ call'["client"] = call["client"]
    BY <1>7, <1>0 DEF ClaimAgain, Delivering
  <2> QED BY <2>1, <2>2, <2>3
<1>8. CASE ReadSchedule
  BY <1>8, <1>0 DEF ReadSchedule, Fails, Goto, At
<1>9. ASSUME NEW c \in Caller, Launch(c) PROVE HandInv'
  <2>1. /\ call[c].pc # "idle" /\ schedule' = schedule /\ occ' = occ
        /\ \A d \in Caller \ {c} : call'[d] = call[d]
    BY <1>9, <1>0 DEF Launch, CheckActive, CreateRun, LinkRun, Fails, Goto, At
  <2>2. c = "dispatcher" => call'[c].request = call[c].request
    <3>1. ASSUME c = "dispatcher", NEW b \in BOOLEAN, CheckActive(c, b)
          PROVE  call'[c].request = call[c].request
      BY <3>1, <1>0 DEF CheckActive, Fails, Goto
    <3>2. ASSUME c = "dispatcher", NEW b \in BOOLEAN, CreateRun(c, b)
          PROVE  call'[c].request = call[c].request
      BY <3>2, <1>0 DEF CreateRun, Fails, Goto
    <3>3. ASSUME c = "dispatcher", LinkRun(c)
          PROVE  call'[c].request = call[c].request
      BY <3>3, <1>0 DEF LinkRun, AfterLink
    <3> QED BY <1>9, <3>1, <3>2, <3>3 DEF Launch
  <2>3. c = "client" => call'[c].request = Manual
    <3>1. ASSUME c = "client", NEW b \in BOOLEAN, CheckActive(c, b)
          PROVE  call'[c].request = Manual
      BY <3>1, <1>0 DEF CheckActive, Fails, Goto, Idle
    <3>2. ASSUME c = "client", NEW b \in BOOLEAN, CreateRun(c, b)
          PROVE  call'[c].request = Manual
      BY <3>2, <1>0 DEF CreateRun, Fails, Goto, Idle
    <3>3. ASSUME c = "client", LinkRun(c)
          PROVE  call'[c].request = Manual
      BY <3>3, <1>0 DEF LinkRun, AfterLink, Idle
    <3> QED BY <1>9, <3>1, <3>2, <3>3 DEF Launch
  <2>4. CASE c = "dispatcher"
    BY <1>0, <2>1, <2>2, <2>4
  <2>5. CASE c = "client"
    BY <1>0, <2>1, <2>3, <2>5
  <2> QED BY <2>4, <2>5 DEF Caller
<1>10. CASE MarkTaskCreated
  <2>1. /\ call["dispatcher"].pc # "idle" /\ schedule' = schedule
        /\ call'["client"] = call["client"]
        /\ \A o \in Fire \ {Current} : occ'[o] = occ[o]
    BY <1>10, <1>0 DEF MarkTaskCreated, At, Released, Fails, Goto
  <2>2. CASE occ[Current].state \in {"claimed", "task_created"}
    <3>1. Current \in Fire /\ schedule.state # "deleted"
      BY <2>1, <2>2
    <3>2. call' = Released /\ occ'[Current].state = "task_created"
      BY <1>10, <1>0, <2>2, <3>1 DEF MarkTaskCreated
    <3>3. call'["dispatcher"].pc = "idle"
      BY <1>0, <3>2 DEF Released, Idle
    <3> QED BY <1>0, <2>1, <2>2, <3>1, <3>2, <3>3
  <2>3. CASE occ[Current].state \notin {"claimed", "task_created"}
    BY <1>10, <1>0, <2>1, <2>3 DEF MarkTaskCreated, Fails, Goto
  <2> QED BY <2>2, <2>3
<1>11. ASSUME NEW b \in BOOLEAN, MarkDeliveryFailed(b) PROVE HandInv'
  <2>1. /\ call["dispatcher"].pc # "idle" /\ schedule' = schedule
        /\ call'["client"] = call["client"] /\ call'["dispatcher"].pc = "idle"
    BY <1>11, <1>0 DEF MarkDeliveryFailed, At, Released, Idle
  <2>2. CASE occ' = occ
    BY <2>1, <2>2
  <2>3. CASE b /\ occ[Current].state = "claimed"
    <3>1. /\ occ'[Current].state # "none"
          /\ \A o \in Fire \ {Current} : occ'[o] = occ[o]
      BY <1>11, <1>0, <2>1, <2>3 DEF MarkDeliveryFailed, FailedState
    <3> QED BY <2>1, <2>3, <3>1
  <2> QED BY <1>11, <2>2, <2>3 DEF MarkDeliveryFailed
<1>12. ASSUME NEW o \in Fire, TimerElapses(o) PROVE HandInv'
  BY <1>12, <1>0 DEF TimerElapses
<1>13. CASE Crash
  BY <1>13, <1>0 DEF Crash, Idle
<1> QED
  BY <1>1, <1>2, <1>3, <1>4, <1>5, <1>6, <1>7, <1>8, <1>9, <1>10, <1>11, <1>12, <1>13
     DEF DeliveryNext, Command, Dispatch, Claim, dvars, Tick, RunMoves, Caller

\* Nothing is in hand at first.
LEMMA InitHand == DeliveryInit => HandInv
BY DEF DeliveryInit, HandInv, NoOccurrence, Idle, Caller

\* How the states of an occurrence are called in the promise.
LEMMA StageNames ==
    /\ Stages["none"] = "unknown"
    /\ Stages["claimed"] = "claimed"
    /\ Stages["retry_wait"] = "waiting"
    /\ Stages["task_created"] = "delivered"
    /\ Stages["dead"] = "given_up"
BY DEF Stages

\* A step that changes the row of one occurrence, and neither links nor deletes.
OnlyRow(o) ==
    /\ schedule'.state = "deleted" <=> schedule.state = "deleted"
    /\ linked' = linked
    /\ \A p \in Fire \ {o} : occ'[p] = occ[p]

\* To the promise, such a step moves the one item and touches nothing else.
LEMMA OneMoves ==
    ASSUME NEW o \in Fire, OnlyRow(o), NEW to, Stages[occ'[o].state] = to
    PROVE  /\ [p \in Fire |-> Stages[occ[p].state]]'
                = [[p \in Fire |-> Stages[occ[p].state]] EXCEPT ![o] = to]
           /\ [p \in Fire |-> Stages[occ[p].state]][o] = Stages[occ[o].state]
           /\ [p \in Fire |-> occ[p].attempts][o] = occ[o].attempts
           /\ UNCHANGED <<linked \cap Fire, schedule.state = "deleted">>
BY DEF OnlyRow

\* A claim of an occurrence that has attempts left.
LEMMA ClaimMoves ==
    ASSUME NEW o \in Fire, OnlyRow(o), schedule.state # "deleted",
           occ[o].state \in {"none", "retry_wait", "claimed"}, occ'[o].state = "claimed",
           occ[o].attempts < MaxDeliveryAttempts, occ'[o].attempts = occ[o].attempts + 1
    PROVE  Promise!Claim(o)
<1>1. /\ Stages[occ[o].state] \in {"unknown", "waiting", "claimed"}
      /\ Stages[occ'[o].state] = "claimed"
  BY StageNames
<1>2. [p \in Fire |-> occ[p].attempts]'
        = [[p \in Fire |-> occ[p].attempts] EXCEPT ![o] = [p \in Fire |-> occ[p].attempts][o] + 1]
  BY DEF OnlyRow
<1>3. [p \in Fire |-> occ[p].attempts][o] < MaxDeliveryAttempts
  OBVIOUS
<1>4. [p \in Fire |-> Stages[occ[p].state]][o] \in {"unknown", "waiting", "claimed"}
  BY <1>1
<1>5. /\ [p \in Fire |-> Stages[occ[p].state]]'
             = [[p \in Fire |-> Stages[occ[p].state]] EXCEPT ![o] = "claimed"]
      /\ UNCHANGED <<linked \cap Fire, schedule.state = "deleted">>
  BY <1>1, OneMoves, Zenon
<1> QED BY <1>2, <1>3, <1>4, <1>5, Zenon DEF Promise!Claim, Promise!Move

\* A claimed occurrence is settled or sent back to wait, with the attempts it has.
LEMMA ClaimEnds ==
    ASSUME NEW o \in Fire, OnlyRow(o), occ[o].state = "claimed",
           occ'[o].attempts = occ[o].attempts
    PROVE  /\ occ'[o].state = "task_created" /\ o \in linked => Promise!Deliver(o)
           /\ occ'[o].state = "retry_wait" /\ occ[o].attempts < MaxDeliveryAttempts
                => Promise!Fail(o)
           /\ occ'[o].state = "dead" /\ occ[o].attempts >= MaxDeliveryAttempts
                => Promise!GiveUpOn(o)
<1>1. [p \in Fire |-> Stages[occ[p].state]][o] \in {"claimed"}
  BY StageNames
<1>2. [p \in Fire |-> occ[p].attempts]'
        = [[p \in Fire |-> occ[p].attempts] EXCEPT ![o] = [p \in Fire |-> occ[p].attempts][o]]
  BY DEF OnlyRow
<1>3. [p \in Fire |-> occ[p].attempts][o] = occ[o].attempts
  OBVIOUS
<1>4. ASSUME NEW to, Stages[occ'[o].state] = to
      PROVE  /\ [p \in Fire |-> Stages[occ[p].state]]'
                   = [[p \in Fire |-> Stages[occ[p].state]] EXCEPT ![o] = to]
             /\ UNCHANGED <<linked \cap Fire, schedule.state = "deleted">>
  BY <1>4, OneMoves, Zenon
<1>5. ASSUME occ'[o].state = "task_created", o \in linked PROVE Promise!Deliver(o)
  <2>1. Stages[occ'[o].state] = "delivered" /\ o \in linked \cap Fire
    BY <1>5, StageNames
  <2> QED BY <1>1, <1>2, <1>4, <2>1, Zenon DEF Promise!Deliver, Promise!Move
<1>6. ASSUME occ'[o].state = "retry_wait", occ[o].attempts < MaxDeliveryAttempts
      PROVE  Promise!Fail(o)
  <2>1. Stages[occ'[o].state] = "waiting"
    BY <1>6, StageNames
  <2>2. [p \in Fire |-> occ[p].attempts][o] < MaxDeliveryAttempts
    BY <1>3, <1>6
  <2> QED BY <1>1, <1>2, <1>4, <2>1, <2>2, Zenon DEF Promise!Fail, Promise!Move
<1>7. ASSUME occ'[o].state = "dead", occ[o].attempts >= MaxDeliveryAttempts
      PROVE  Promise!GiveUpOn(o)
  <2>1. Stages[occ'[o].state] = "given_up"
    BY <1>7, StageNames
  <2>2. [p \in Fire |-> occ[p].attempts][o] >= MaxDeliveryAttempts
    BY <1>3, <1>7
  <2> QED BY <1>1, <1>2, <1>4, <2>1, <2>2, Zenon DEF Promise!GiveUpOn, Promise!Move
<1> QED BY <1>5, <1>6, <1>7

\* A step that changes no state and no attempt of an occurrence, links none and does not
\* delete the schedule is no step of the promise.
LEMMA NoneMoves ==
    ASSUME schedule'.state = "deleted" <=> schedule.state = "deleted",
           linked' \cap Fire = linked \cap Fire,
           \A p \in Fire : /\ occ'[p].state = occ[p].state
                           /\ occ'[p].attempts = occ[p].attempts
    PROVE  UNCHANGED Promise!promise
<1>1. [p \in Fire |-> Stages[occ[p].state]]' = [p \in Fire |-> Stages[occ[p].state]]
  OBVIOUS
<1>2. [p \in Fire |-> occ[p].attempts]' = [p \in Fire |-> occ[p].attempts]
  OBVIOUS
<1>3. (schedule.state = "deleted")' = (schedule.state = "deleted")
  OBVIOUS
<1>4. (linked \cap Fire)' = linked \cap Fire
  OBVIOUS
<1> QED BY <1>1, <1>2, <1>3, <1>4 DEF Promise!promise

\* Every step of the schedule's tables and of the dispatcher is a step of the promise, or
\* none of its business.
LEMMA StepKeepsPromise ==
    DeliveryTypeOK /\ AttemptsInv /\ LinkInv /\ AccountInv /\ HandInv /\ [DeliveryNext]_dvars
        => [Promise!PromiseNext]_(Promise!promise)
<1> SUFFICES ASSUME DeliveryTypeOK, AttemptsInv, LinkInv, AccountInv, HandInv,
                    [DeliveryNext]_dvars
             PROVE  Promise!PromiseNext \/ UNCHANGED Promise!promise
  OBVIOUS
<1>0. /\ schedule \in [state : ScheduleState, interval : Intervals \cup {0}, next : Int,
                       last : Int, fires : 0..MaxFires]
      /\ occ \in [Fire -> [state : OccurrenceState, due : Int, attempts : Nat, timer : Timer]]
      /\ call \in [Caller -> [pc : CallPc, request : Request]]
      /\ MaxDeliveryAttempts \in Nat \ {0}
      /\ schedule.fires \in Nat
  BY DeliveryAssumption DEF DeliveryTypeOK
<1>1. CASE UNCHANGED <<schedule, occ, linked>>
  BY <1>1, NoneMoves
<1>2. CASE (\E i \in Intervals : CreateSchedule(i)) \/ PauseSchedule \/ ResumeSchedule
  <2>1. /\ schedule.state # "deleted" /\ schedule'.state # "deleted"
        /\ occ' = occ /\ linked' = linked
    BY <1>0, <1>2 DEF CreateSchedule, PauseSchedule, ResumeSchedule, FollowingState
  <2> QED BY <2>1, NoneMoves
<1>3. CASE DeleteSchedule
  <2>1. /\ schedule.state # "deleted" /\ schedule'.state = "deleted" /\ linked' = linked
        /\ \A o \in Fire : occ'[o].state = "none" /\ occ'[o].attempts = 0
    BY <1>0, <1>3 DEF DeleteSchedule, NoOccurrence
  <2>2. [p \in Fire |-> Stages[occ[p].state]]' = [p \in Fire |-> "unknown"]
    BY <2>1, StageNames
  <2>3. [p \in Fire |-> occ[p].attempts]' = [p \in Fire |-> 0]
    BY <2>1
  <2>4. Promise!Withdraw
    BY <2>1, <2>2, <2>3 DEF Promise!Withdraw
  <2> QED BY <2>4 DEF Promise!PromiseNext
<1>4. CASE ClaimNew
  <2> PICK n \in Fire : n = NextOrdinal
    BY <1>4 DEF ClaimNew
  <2>1. schedule.state = "active" /\ schedule'.state # "deleted" /\ linked' = linked
    BY <1>4, <1>0 DEF ClaimNew, FollowingState
  <2>2. occ[n].state = "none" /\ occ[n].attempts = 0
    <3>1. ~(n <= schedule.fires)
      BY <1>0 DEF NextOrdinal
    <3> QED BY <2>1, <3>1 DEF AccountInv, HandInv
  <2>3. /\ occ'[n].state = "claimed" /\ occ'[n].attempts = occ[n].attempts + 1
        /\ \A o \in Fire \ {n} : occ'[o] = occ[o]
    BY <1>4, <1>0, <2>1, <2>2 DEF ClaimNew
  <2>4. OnlyRow(n)
    BY <2>1, <2>3 DEF OnlyRow
  <2>5. Promise!Claim(n)
    BY <1>0, <2>1, <2>2, <2>3, <2>4, ClaimMoves
  <2> QED BY <2>1, <2>5 DEF Promise!PromiseNext
<1>5. ASSUME NEW o \in Fire, GiveUp(o) PROVE Promise!PromiseNext
  <2>1. /\ occ[o].state = "claimed" /\ occ[o].attempts >= MaxDeliveryAttempts
        /\ occ'[o].state = "dead" /\ occ'[o].attempts = occ[o].attempts
        /\ \A p \in Fire \ {o} : occ'[p] = occ[p]
        /\ schedule' = schedule /\ linked' = linked
    BY <1>5, <1>0 DEF GiveUp, Exhausted
  <2>2. OnlyRow(o)
    BY <2>1 DEF OnlyRow
  <2>3. Promise!GiveUpOn(o)
    BY <2>1, <2>2, ClaimEnds
  <2> QED BY <2>3 DEF Promise!PromiseNext
<1>6. ASSUME NEW o \in Fire, ClaimAgain(o) PROVE Promise!PromiseNext
  <2>1. occ[o].state \in {"retry_wait", "claimed"} /\ schedule.state # "deleted"
    BY <1>6 DEF ClaimAgain, FirstDue, DueOccurrences, HandInv
  <2>2. /\ occ[o].attempts < MaxDeliveryAttempts
        /\ occ'[o].state = "claimed" /\ occ'[o].attempts = occ[o].attempts + 1
        /\ \A p \in Fire \ {o} : occ'[p] = occ[p]
        /\ schedule' = schedule /\ linked' = linked
    BY <1>6, <1>0, <2>1 DEF ClaimAgain, Exhausted, AttemptsInv
  <2>3. OnlyRow(o)
    BY <2>2 DEF OnlyRow
  <2>4. Promise!Claim(o)
    BY <2>1, <2>2, <2>3, ClaimMoves
  <2> QED BY <2>4 DEF Promise!PromiseNext
<1>7. ASSUME NEW c \in Caller, LinkRun(c)
      PROVE  Promise!PromiseNext \/ UNCHANGED Promise!promise
  <2>1. /\ linked' = linked \cup {call[c].request} /\ call[c].pc = "linking"
        /\ schedule' = schedule /\ occ' = occ
    BY <1>7 DEF LinkRun, At
  <2>2. CASE c = "client"
    <3>1. call[c].request \notin Fire
      BY <2>2, DeliveryAssumption DEF HandInv, Manual, Fire
    <3> QED BY <2>1, <3>1, NoneMoves
  <2>3. CASE c = "dispatcher"
    <3> PICK o \in Fire : o = Current
      BY <2>1, <2>3 DEF HandInv, Current
    <3>1. schedule.state = "deleted" \/ [p \in Fire |-> Stages[occ[p].state]][o] = "claimed"
      BY <2>1, <2>3, StageNames DEF HandInv, Current
    <3>2. (linked \cap Fire)' = (linked \cap Fire) \cup {o}
      BY <2>1, <2>3 DEF Current
    <3>3. Promise!Start(o)
      BY <2>1, <3>1, <3>2 DEF Promise!Start
    <3> QED BY <3>3 DEF Promise!PromiseNext
  <2> QED BY <2>2, <2>3 DEF Caller
<1>8. CASE MarkTaskCreated
  <2> PICK o \in Fire : o = Current
    BY <1>8 DEF MarkTaskCreated, At, HandInv
  <2>1. /\ call["dispatcher"].pc = "marking" /\ o \in linked
        /\ schedule' = schedule /\ linked' = linked
    BY <1>8 DEF MarkTaskCreated, At, LinkInv, Current, Caller
  <2>2. CASE schedule.state = "deleted"
    <3>1. occ' = occ
      BY <1>8, <2>1, <2>2 DEF MarkTaskCreated, HandInv
    <3> QED BY <2>1, <3>1, NoneMoves
  <2>3. CASE schedule.state # "deleted"
    <3>1. occ[o].state = "claimed"
      BY <2>1, <2>3 DEF HandInv
    <3>2. occ' = [occ EXCEPT ![o].state = "task_created", ![o].timer = "none"]
      BY <1>8, <3>1 DEF MarkTaskCreated
    <3>3. /\ occ'[o].state = "task_created"
          /\ occ'[o].attempts = occ[o].attempts
          /\ \A p \in Fire \ {o} : occ'[p] = occ[p]
      BY <1>0, <2>1, <3>2
    <3>4. OnlyRow(o)
      BY <2>1, <3>3 DEF OnlyRow
    <3>5. Promise!Deliver(o)
      BY <2>1, <3>1, <3>3, <3>4, ClaimEnds
    <3> QED BY <2>1, <3>5 DEF Promise!PromiseNext
  <2> QED BY <2>2, <2>3
<1>9. ASSUME NEW b \in BOOLEAN, MarkDeliveryFailed(b)
      PROVE  Promise!PromiseNext \/ UNCHANGED Promise!promise
  <2> PICK o \in Fire : o = Current
    BY <1>9 DEF MarkDeliveryFailed, At, HandInv
  <2>1. /\ call["dispatcher"].pc = "failing" /\ schedule' = schedule /\ linked' = linked
    BY <1>9 DEF MarkDeliveryFailed, At
  <2>2. CASE occ' = occ
    BY <2>1, <2>2, NoneMoves
  <2>3. CASE b /\ occ[o].state = "claimed"
    <3>1. /\ occ'[o].state = FailedState(o)
          /\ occ'[o].attempts = occ[o].attempts
          /\ \A p \in Fire \ {o} : occ'[p] = occ[p]
      BY <1>9, <1>0, <2>1, <2>3 DEF MarkDeliveryFailed
    <3>2. OnlyRow(o)
      BY <2>1, <3>1 DEF OnlyRow
    <3>3. Promise!GiveUpOn(o) \/ Promise!Fail(o)
      BY <1>0, <2>1, <2>3, <3>1, <3>2, ClaimEnds DEF FailedState, Exhausted
    <3> QED BY <2>1, <3>3 DEF Promise!PromiseNext
  <2> QED BY <1>9, <2>2, <2>3 DEF MarkDeliveryFailed
<1>10. ASSUME NEW o \in Fire, TimerElapses(o) PROVE UNCHANGED Promise!promise
  <2>1. /\ \A p \in Fire : occ'[p].state = occ[p].state /\ occ'[p].attempts = occ[p].attempts
        /\ schedule' = schedule /\ linked' = linked
    BY <1>0, <1>10 DEF TimerElapses
  <2> QED BY <2>1, NoneMoves
<1> QED
  BY <1>1, <1>2, <1>3, <1>4, <1>5, <1>6, <1>7, <1>8, <1>9, <1>10
     DEF DeliveryNext, Command, Dispatch, Claim, Launch, dvars, StartByHand, ReadSchedule,
         CheckActive, CreateRun, Tick, RunMoves, Crash, Caller

\* At first nothing is known, started or withdrawn.
LEMMA InitPromised == DeliveryInit => Promise!PromiseInit
BY StageNames DEF DeliveryInit, NoOccurrence, Promise!PromiseInit

\* The tables of the schedules and the dispatcher keep the promise of BoundedDelivery:
\* through failures, lost failure records, lapsed leases, pauses, deletion and crashes,
\* every step of claim_due(), execute_definition(), mark_task_created() and
\* mark_delivery_failed() is one of its moves or leaves it alone.
THEOREM OccurrencesArePromised == DeliverySpec => DeliversAsPromised
<1>1. DeliverySpec => [](DeliveryTypeOK /\ AttemptsInv /\ LinkInv /\ AccountInv /\ HandInv)
  BY DeliveryInitTyped, DeliveryNextTyped, InitAttempts, NextKeepsAttempts, InitLinks,
     NextKeepsLinks, InitAccount, NextKeepsAccount, InitHand, NextKeepsHand, PTL
     DEF DeliverySpec
<1> QED
  BY <1>1, InitPromised, StepKeepsPromise, PTL
     DEF DeliverySpec, DeliversAsPromised, Promise!PromiseSpec

-----------------------------------------------------------------------------
(* No occurrence is left where nothing would bring it up again *)

\* A row that says claimed or retry_wait has a lease or a backoff.
Timed(row) == row.state \in {"claimed", "retry_wait"} => row.timer # "none"

TimedInv == \A o \in Fire : Timed(occ[o])

\* Whoever writes such a row starts a timer in the same statement.
LEMMA NextKeepsTimed ==
    DeliveryTypeOK /\ TimedInv /\ [DeliveryNext]_dvars => TimedInv'
<1> SUFFICES ASSUME DeliveryTypeOK, TimedInv, [DeliveryNext]_dvars PROVE TimedInv'
  OBVIOUS
<1>0. /\ occ \in [Fire -> [state : OccurrenceState, due : Int, attempts : Nat, timer : Timer]]
      /\ \A o \in Fire : occ[o] \in [state : OccurrenceState, due : Int, attempts : Nat,
                                     timer : Timer]
  BY DEF DeliveryTypeOK
<1> SUFFICES \A o \in Fire : occ'[o] = occ[o] \/ Timed(occ'[o])
  BY DEF TimedInv
<1>1. CASE UNCHANGED occ
  BY <1>1
<1>2. CASE DeleteSchedule
  <2>1. \A o \in Fire : occ'[o].state = "none"
    BY <1>2 DEF DeleteSchedule, NoOccurrence
  <2> QED BY <2>1 DEF Timed
<1>3. CASE ClaimNew
  <2>1. \A o \in Fire : occ'[o] = occ[o] \/ occ'[o].timer = "running"
    BY <1>3, <1>0 DEF ClaimNew
  <2> QED BY <2>1 DEF Timed
<1>4. ASSUME NEW o \in Fire, GiveUp(o) \/ ClaimAgain(o) \/ TimerElapses(o)
      PROVE  \A p \in Fire : occ'[p] = occ[p] \/ Timed(occ'[p])
  <2>1. /\ occ'[o].state = "dead" \/ occ'[o].timer \in {"running", "elapsed"}
        /\ \A p \in Fire \ {o} : occ'[p] = occ[p]
    BY <1>0, <1>4 DEF GiveUp, ClaimAgain, TimerElapses
  <2> QED BY <2>1 DEF Timed
<1>5. CASE MarkTaskCreated
  <2>1. \A o \in Fire : occ'[o] = occ[o] \/ occ'[o].state = "task_created"
    BY <1>0, <1>5 DEF MarkTaskCreated
  <2> QED BY <2>1 DEF Timed
<1>6. ASSUME NEW b \in BOOLEAN, MarkDeliveryFailed(b)
      PROVE  \A o \in Fire : occ'[o] = occ[o] \/ Timed(occ'[o])
  <2>1. \A o \in Fire : \/ occ'[o] = occ[o]
                        \/ occ'[o].state = "dead"
                        \/ occ'[o].timer = "running"
    BY <1>0, <1>6 DEF MarkDeliveryFailed, FailedState
  <2> QED BY <2>1 DEF Timed
<1> QED
  BY <1>1, <1>2, <1>3, <1>4, <1>5, <1>6
     DEF DeliveryNext, Command, Dispatch, Claim, Launch, dvars, CreateSchedule, PauseSchedule,
         ResumeSchedule, StartByHand, ReadSchedule, CheckActive, CreateRun, LinkRun, Tick,
         RunMoves, Crash

\* The dispatcher and the repository: no crash, no lost failure record and no lapsed lease
\* leaves an occurrence that is not settled where claim_due() would never find it again.
THEOREM OccurrencesAreAttended == DeliverySpec => []OccurrenceIsAttended
<1>1. DeliveryInit => TimedInv
  BY DEF DeliveryInit, TimedInv, Timed, NoOccurrence
<1>2. DeliveryTypeOK /\ TimedInv => OccurrenceIsAttended
  <2> SUFFICES ASSUME DeliveryTypeOK, TimedInv, NEW o \in Fire,
                      occ[o].state \notin {"task_created", "dead", "none"}
               PROVE  o \in DueOccurrences \/ occ[o].timer = "running"
    BY DEF OccurrenceIsAttended
  <2>1. /\ occ[o].state \in {"claimed", "retry_wait"}
        /\ occ[o].timer \in {"none", "running", "elapsed"}
    BY DEF DeliveryTypeOK, OccurrenceState, Timer
  <2> QED BY <2>1 DEF TimedInv, Timed, DueOccurrences
<1>3. DeliverySpec => []TimedInv
  BY <1>1, DeliveryTypeCorrect, NextKeepsTimed, PTL DEF DeliverySpec
<1> QED BY <1>2, <1>3, DeliveryTypeCorrect, PTL

=============================================================================
