----------------------- MODULE AgentGenerations_proofs -----------------------
(***************************************************************************)
(* Theorems about AgentGenerations, for any set of turns, any number of    *)
(* places in a generation and of configurations that are put in force.     *)
(***************************************************************************)
EXTENDS AgentGenerations, SequenceTheorems, TLAPS

-----------------------------------------------------------------------------
(* Queues *)

\* Who leaves a queue leaves the others in it, and the first one stays the first.
LEMMA LeavingQueue ==
    ASSUME NEW S, NEW s \in Seq(S), NEW x
    PROVE  /\ Leave(s, x) \in Seq(S)
           /\ s # <<>> /\ Head(s) # x => Leave(s, x) # <<>> /\ Head(Leave(s, x)) = Head(s)
<1>1. CASE ~ \E i \in 1..Len(s) : s[i] = x
  BY <1>1 DEF Leave
<1>2. CASE \E i \in 1..Len(s) : s[i] = x
  <2>1. PICK m \in 1..Len(s) : s[m] = x /\ Leave(s, x) = RemoveAt(s, m)
    BY <1>2 DEF Leave
  <2>2. Leave(s, x) = SubSeq(s, 1, m - 1) \o SubSeq(s, m + 1, Len(s))
    BY <2>1 DEF RemoveAt
  <2> DEFINE left == SubSeq(s, 1, m - 1)
             right == SubSeq(s, m + 1, Len(s))
  <2>3. /\ left \in Seq(S) /\ right \in Seq(S)
        /\ Len(left) = m - 1
        /\ \A i \in 1..m - 1 : left[i] = s[i]
    <3>1. \A i \in 1..Len(s) : s[i] \in S
      BY ElementOfSeq
    <3>2. m - 1 \in Int /\ Len(s) \in Int /\ m + 1 \in Int
      BY LenProperties
    <3>3. /\ left \in Seq(S)
          /\ Len(left) = IF 1 <= m - 1 THEN m - 1 - 1 + 1 ELSE 0
          /\ \A i \in 1..m - 1 - 1 + 1 : left[i] = s[1 + i - 1]
      BY <3>1, <3>2, SubSeqProperties
    <3>4. right \in Seq(S)
      BY <3>1, <3>2, SubSeqProperties
    <3> QED BY <3>2, <3>3, <3>4
  <2> HIDE DEF left, right
  <2>4. /\ left \o right \in Seq(S)
        /\ Len(left \o right) = Len(left) + Len(right)
        /\ \A i \in 1..Len(left) + Len(right) :
              (left \o right)[i] = IF i <= Len(left) THEN left[i] ELSE right[i - Len(left)]
    BY <2>3, ConcatProperties
  <2>5. ASSUME s # <<>>, Head(s) # x
        PROVE  left \o right # <<>> /\ Head(left \o right) = Head(s)
    <3>1. m > 1
      BY <2>1, <2>5
    <3>2. Len(left \o right) > 0 /\ (left \o right)[1] = s[1]
      BY <3>1, <2>3, <2>4, LenProperties
    <3> QED BY <3>2, <2>4, <2>5
  <2> QED BY <2>2, <2>4, <2>5 DEF left, right
<1> QED BY <1>1, <1>2

-----------------------------------------------------------------------------
(* The inductive invariant *)

\* Who has asked for a place knows in which generation.
PlaceInv ==
    \A j \in Job :
        job[j].pc \in {"joining", "waiting", "deleting"} \cup Leasing => job[j].gen \in Revision

\* A turn on its way to a generation has the barrier, and what its policy was resolved for is
\* still active.
Preparing == {"binding", "joining", "creating", "seeking", "waiting"}

BarrierInv ==
    \A j \in Job : job[j].pc \in Preparing =>
        HoldsBarrier(j) /\ job[j].policy = managed[job[j].agent].active

\* A generation that drains has been replaced.
DrainInv == \A g \in Agent \X Revision : gen[g].drain # "none" => ~gen[g].accepting

\* The bound on the configurations is kept.
ApplyInv == applier # "nobody" => current < MaxApplies

GenerationInv ==
    GenerationTypeOK /\ ApplyInv /\ PlaceInv /\ BarrierInv /\ DrainInv /\ GenerationsSound

JobRow == [pc : JobPc, agent : Agent, policy : Revision \cup {Absent}, gen : Revision \cup {Absent}]
GenRow == [accepting : BOOLEAN, places : Seq(Job), drain : {"none", "asked", "draining", "drained"}]

-----------------------------------------------------------------------------
(* Types *)

LEMMA JobsTyped ==
    /\ \A t \in Turn : Own(t) \in Job /\ Helper(t) \in Job /\ Own(t) # Helper(t)
    /\ Applier \notin Job
    /\ NoJob \in JobRow /\ JobOver \in JobRow
    /\ NoJob.pc = "idle" /\ JobOver.pc = "over"
BY DEF Job, Helpers, Own, Helper, Applier, NoJob, JobOver, JobRow, JobPc, Agent, Absent

\* The three leases, and what each of them passes through.
LEMMA LeaseStages ==
    /\ DOMAIN WaitsFor = {"binding", "seeking", "cleaning"}
    /\ WaitsFor["binding"] = "joining" /\ WaitsFor["seeking"] = "waiting"
    /\ WaitsFor["cleaning"] = "deleting"
    /\ DOMAIN Gets = {"joining", "waiting", "deleting"} /\ DOMAIN AsksAgain = DOMAIN Gets
    /\ Gets["joining"] = "creating" /\ Gets["waiting"] = "leased" /\ Gets["deleting"] = "erasing"
    /\ AsksAgain["joining"] = "binding" /\ AsksAgain["waiting"] = "seeking"
    /\ AsksAgain["deleting"] = "cleaning"
BY DEF WaitsFor, Gets, AsksAgain

\* What is left of the places of a generation when a turn leaves.
LEMMA PlacesTyped ==
    ASSUME GenerationTypeOK, NEW j \in Job
    PROVE  /\ PlacesLeft(j) \in [Agent \X Revision -> GenRow]
           /\ \A g \in Agent \X Revision :
                 PlacesLeft(j)[g].accepting = gen[g].accepting
                 /\ PlacesLeft(j)[g].drain = gen[g].drain
<1>1. gen \in [Agent \X Revision -> GenRow]
  BY DEF GenerationTypeOK, GenRow
<1>2. \A g \in Agent \X Revision : Leave(gen[g].places, j) \in Seq(Job)
  BY <1>1, LeavingQueue DEF GenRow
<1> DEFINE g == GenOf(j)
<1>3. PlacesLeft(j) = [gen EXCEPT ![g].places = Leave(gen[g].places, j)]
  BY DEF PlacesLeft
<1> HIDE DEF g
<1>4. CASE g \in Agent \X Revision
  <2>1. [gen[g] EXCEPT !.places = Leave(gen[g].places, j)] \in GenRow
    BY <1>1, <1>2, <1>4 DEF GenRow
  <2>2. PlacesLeft(j) = [gen EXCEPT ![g] = [gen[g] EXCEPT !.places = Leave(gen[g].places, j)]]
    BY <1>3
  <2> QED BY <1>1, <1>4, <2>1, <2>2 DEF GenRow
<1>5. CASE g \notin Agent \X Revision
  BY <1>1, <1>3, <1>5
<1> QED BY <1>4, <1>5

\* Who leaves the barrier.
LEMMA BarrierTyped ==
    ASSUME GenerationTypeOK, NEW j
    PROVE  /\ Leave(barrier, j) \in Seq(Job \cup {Applier})
           /\ \A x : HoldsBarrier(x) /\ x # j =>
                 Leave(barrier, j) # <<>> /\ Head(Leave(barrier, j)) = x
BY LeavingQueue DEF GenerationTypeOK, HoldsBarrier

\* Every step keeps the types.
LEMMA TypeStep ==
    ASSUME GenerationTypeOK, ApplyInv, [GenerationNext]_avars
    PROVE  GenerationTypeOK'
<1> USE GenerationAssumption, JobsTyped
<1>1. /\ barrier \in Seq(Job \cup {Applier})
      /\ job \in [Job -> JobRow]
      /\ wait \in [Turn -> Waits]
      /\ gen \in [Agent \X Revision -> GenRow]
      /\ managed \in [Agent -> [active : Revision \cup {Absent}, draining : Revision \cup {Absent}]]
      /\ applier \in Turn \cup {Operator, "nobody"}
      /\ current \in Revision
      /\ removed \subseteq Agent
  BY DEF GenerationTypeOK, JobRow, GenRow
<1> DEFINE Typed ==
      /\ barrier' \in Seq(Job \cup {Applier})
      /\ job' \in [Job -> JobRow]
      /\ wait' \in [Turn -> Waits]
      /\ gen' \in [Agent \X Revision -> GenRow]
      /\ managed' \in [Agent -> [active : Revision \cup {Absent}, draining : Revision \cup {Absent}]]
      /\ applier' \in Turn \cup {Operator, "nobody"}
      /\ current' \in Revision
      /\ removed' \subseteq Agent
<1>2. SUFFICES Typed
  BY DEF GenerationTypeOK, JobRow, GenRow
<1>3. \A j \in Job : AfterTurn(j) \in JobRow
  BY <1>1 DEF AfterTurn, JobRow, JobPc, Absent
<1>4. \A j \in Job : /\ PlacesLeft(j) \in [Agent \X Revision -> GenRow]
                    /\ Leave(barrier, j) \in Seq(Job \cup {Applier})
  BY PlacesTyped, BarrierTyped
<1>5. ASSUME NEW j \in Job, JobStep(j) PROVE Typed
  <2>1. CASE Prepare(j)
    <3>1. CASE Prepared(j)
      <4>1. managed[job[j].agent].active \in Revision \cup {Absent}
        BY <1>1 DEF JobRow
      <4>2. PICK next \in {"binding", "seeking"} :
                  job' = [job EXCEPT ![j].pc = next, ![j].policy = managed[job[j].agent].active]
        BY <2>1, <3>1 DEF Prepare, AfterPolicy
      <4>3. [job[j] EXCEPT !.pc = next, !.policy = managed[job[j].agent].active] \in JobRow
        BY <1>1, <4>1 DEF JobRow, JobPc
      <4>4. job' = [job EXCEPT ![j] =
                      [job[j] EXCEPT !.pc = next, !.policy = managed[job[j].agent].active]]
        BY <4>2, <1>1
      <4> QED BY <2>1, <3>1, <4>3, <4>4, <1>1 DEF Prepare
    <3>2. CASE ~Prepared(j)
      BY <2>1, <3>2, <1>1, <1>4 DEF Prepare
    <3> QED BY <3>1, <3>2
  <2>2. CASE SeekPlace(j)
    <3> DEFINE g == <<job[j].agent, managed[job[j].agent].active>>
    <3>1. g \in Agent \X Revision /\ g[2] \in Revision
      BY <2>2, <1>1 DEF SeekPlace, JobRow
    <3>2. [gen[g] EXCEPT !.places = Append(@, j)] \in GenRow
      <4>1. gen[g] \in GenRow
        BY <3>1, <1>1
      <4>2. Append(gen[g].places, j) \in Seq(Job)
        BY <4>1, AppendProperties DEF GenRow
      <4> HIDE DEF g
      <4> QED BY <4>1, <4>2 DEF GenRow
    <3>3. gen' = [gen EXCEPT ![g] = [gen[g] EXCEPT !.places = Append(@, j)]]
      BY <2>2 DEF SeekPlace
    <3>4. job' \in [Job -> JobRow]
      <4>1. WaitsFor[job[j].pc] \in JobPc
        BY <2>2, LeaseStages DEF SeekPlace, JobPc
      <4> QED BY <2>2, <1>1, <3>1, <4>1 DEF SeekPlace, JobRow
    <3>5. UNCHANGED <<barrier, wait, managed, applier, current, removed>>
      BY <2>2 DEF SeekPlace, KeepsBarrier
    <3> QED BY <1>1, <3>1, <3>2, <3>3, <3>4, <3>5
  <2>3. CASE SeekFails(j)
    BY <2>3, <1>1 DEF SeekFails
  <2>4. CASE TakePlace(j)
    <3>1. \A pc \in JobPc : /\ [job[j] EXCEPT !.pc = pc] \in JobRow
                            /\ [job[j] EXCEPT !.gen = Absent, !.pc = pc] \in JobRow
      BY <1>1 DEF JobRow
    <3>2. \E pc \in JobPc : \/ job' = [job EXCEPT ![j] = [job[j] EXCEPT !.pc = pc]]
                            \/ job' = [job EXCEPT ![j] = [job[j] EXCEPT !.gen = Absent, !.pc = pc]]
      <4>1. CASE StillActive(j)
        <5> DEFINE pc == Gets[job[j].pc]
        <5>1. pc \in JobPc
          BY <2>4, LeaseStages DEF TakePlace, JobPc
        <5>2. job' = [job EXCEPT ![j] = [job[j] EXCEPT !.pc = pc]]
          BY <2>4, <4>1, <1>1 DEF TakePlace
        <5> HIDE DEF pc
        <5> QED BY <5>1, <5>2
      <4>2. CASE ~StillActive(j)
        <5> DEFINE pc == AsksAgain[job[j].pc]
        <5>1. pc \in JobPc
          BY <2>4, LeaseStages DEF TakePlace, JobPc
        <5>2. job' = [job EXCEPT ![j] = [job[j] EXCEPT !.gen = Absent, !.pc = pc]]
          BY <2>4, <4>2, <1>1 DEF TakePlace
        <5> HIDE DEF pc
        <5> QED BY <5>1, <5>2
      <4> QED BY <4>1, <4>2
    <3>3. job' \in [Job -> JobRow]
      BY <3>1, <3>2, <1>1
    <3> QED BY <2>4, <3>3, <1>1, <1>4 DEF TakePlace
  <2>5. CASE StartTurn(j)
    <3>1. [job[j] EXCEPT !.pc = "running"] \in JobRow
      BY <1>1 DEF JobRow, JobPc
    <3>2. \/ job' = [job EXCEPT ![j] = [job[j] EXCEPT !.pc = "running"]] /\ UNCHANGED gen
          \/ job' = [job EXCEPT ![j] = AfterTurn(j)] /\ gen' = PlacesLeft(j)
      BY <2>5, <1>1 DEF StartTurn
    <3>3. UNCHANGED <<barrier, wait, managed, applier, current, removed>>
      BY <2>5 DEF StartTurn
    <3> QED BY <3>1, <3>2, <3>3, <1>1, <1>3, <1>4
  <2>6. CASE TurnOver(j)
    BY <2>6, <1>1, <1>3, <1>4 DEF TurnOver
  <2>7. CASE SessionDeleted(j)
    BY <2>7, <1>1, <1>4 DEF SessionDeleted
  <2>8. CASE SessionCreated(j)
    <3>1. [job[j] EXCEPT !.gen = Absent, !.pc = "seeking"] \in JobRow
      BY <1>1 DEF JobRow, JobPc
    <3>2. job' = [job EXCEPT ![j] = [job[j] EXCEPT !.gen = Absent, !.pc = "seeking"]]
      BY <2>8, <1>1 DEF SessionCreated
    <3> QED BY <2>8, <3>1, <3>2, <1>1, <1>4 DEF SessionCreated
  <2> QED BY <1>5, <2>1, <2>2, <2>3, <2>4, <2>5, <2>6, <2>7, <2>8 DEF JobStep
<1>6. \A j \in Job, agent \in Agent, policy \in Revision \cup {Absent} :
        Queue(j, agent, policy) =>
            barrier' \in Seq(Job \cup {Applier}) /\ job' \in [Job -> JobRow]
  BY <1>1 DEF Queue, JobRow, JobPc
<1>7. ASSUME NEW t \in Turn, WaitStep(t) PROVE Typed
  <2>1. CASE HelpArrived(t)
    BY <2>1, <1>1 DEF HelpArrived, Waits
  <2>2. CASE ReviewCut(t)
    <3>1. AfterCut(Helper(t)) \subseteq JobRow
      BY <1>3 DEF AfterCut
    <3> QED BY <2>2, <3>1, <1>1, <1>4 DEF ReviewCut
  <2>3. CASE AwaitCut(t)
    BY <2>3, <1>1 DEF AwaitCut, Waits
  <2>4. CASE PublishRefused(t)
    BY <2>4, <1>1 DEF PublishRefused, Waits
  <2> QED BY <1>7, <2>1, <2>2, <2>3, <2>4 DEF WaitStep
<1>8. ASSUME NEW t \in Turn, AskPublish(t) PROVE Typed
  BY <1>8, <1>1 DEF AskPublish, Waits
<1>9. ASSUME NEW by \in Turn \cup {Operator}, Apply(by) PROVE Typed
  <2>1. barrier' \in Seq(Job \cup {Applier})
    BY <1>9, <1>1 DEF Apply
  <2> QED BY <2>1, <1>9, <1>1 DEF Apply, Waits
<1>10. ASSUME NEW t \in Turn, UserTurn(t) PROVE Typed
  <2>1. "user" \in Agent /\ Absent \in Revision \cup {Absent}
    BY DEF Agent
  <2> QED BY <1>10, <1>1, <1>6, <2>1 DEF UserTurn
<1>11. ASSUME NEW t \in Turn, NEW what \in {"review", "child"}, Ask(t, what) PROVE Typed
  <2>1. AgentFor[what] \in Agent
    BY DEF Agent, AgentFor
  <2>2. (IF what = "child" THEN managed["delegate"].active ELSE Absent) \in Revision \cup {Absent}
    BY <1>1 DEF Agent
  <2> QED BY <1>11, <1>1, <1>6, <2>1, <2>2 DEF Ask, Waits
<1>12. ASSUME Replacing(Change) PROVE Typed
  <2>1. applier # "nobody" /\ barrier # <<>>
    BY <1>12 DEF Replacing, HoldsBarrier
  <2>2. Tail(barrier) \in Seq(Job \cup {Applier})
    BY <1>1, <2>1
  <2>3. current + 1 \in Revision
    BY <1>12, <1>1 DEF Replacing, ApplyInv, Revision
  <2>4. AppliedTo(applier) \in [Turn -> Waits]
    BY <1>1, <2>1 DEF AppliedTo, Waits
  <2>5. CASE ApplyFails
    BY <2>5, <1>1, <2>2, <2>3, <2>4 DEF ApplyFails
  <2>6. ASSUME NEW change \in Change, Replace(change) PROVE Typed
    <3>1. managed' \in [Agent -> [active : Revision \cup {Absent}, draining : Revision \cup {Absent}]]
      BY <2>6, <1>1, <2>3 DEF Replace
    <3>2. gen' \in [Agent \X Revision -> GenRow]
      <4>1. \A g \in Agent \X Revision :
              [gen[g] EXCEPT !.accepting = FALSE, !.drain = "asked"] \in GenRow
        <5> SUFFICES ASSUME NEW g \in Agent \X Revision
                     PROVE  [gen[g] EXCEPT !.accepting = FALSE, !.drain = "asked"] \in GenRow
          OBVIOUS
        <5>1. gen[g] \in GenRow
          BY <1>1
        <5> QED BY <5>1 DEF GenRow
      <4> QED BY <2>6, <4>1, <1>1 DEF Replace
    <3>3. removed' \subseteq Agent
      BY <2>6, <1>1 DEF Replace
    <3> QED BY <2>6, <3>1, <3>2, <3>3, <1>1, <2>2, <2>3, <2>4 DEF Replace
  <2> QED BY <1>12, <2>5, <2>6 DEF Replacing
<1>13. ASSUME NEW g \in Agent \X Revision, Draining(g) PROVE Typed
  <2>1. CASE DrainBegins(g)
    BY <2>1, <1>1 DEF DrainBegins, GenRow
  <2>2. CASE DrainEnds(g)
    BY ZenonT(30), <2>2, <1>1 DEF DrainEnds, GenRow
  <2> QED BY <1>13, <2>1, <2>2 DEF Draining
<1>14. CASE UNCHANGED avars
  BY <1>14, <1>1 DEF avars
<1> QED BY <1>5, <1>7, <1>8, <1>9, <1>10, <1>11, <1>12, <1>13, <1>14 DEF GenerationNext, Publishing

-----------------------------------------------------------------------------
(* Steps *)

\* What the steps have to keep beside the types.
Safe == ApplyInv /\ PlaceInv /\ BarrierInv /\ DrainInv /\ GenerationsSound

\* The first one of a queue stays the first when somebody joins it.
LEMMA JoiningQueue ==
    ASSUME NEW S, NEW s \in Seq(S), NEW y \in S, s # <<>>
    PROVE  Append(s, y) # <<>> /\ Head(Append(s, y)) = Head(s)
BY AppendProperties

LEMMA AfterTurnIsQuiet ==
    ASSUME GenerationTypeOK, NEW j \in Job
    PROVE  AfterTurn(j).pc \in {"cleaning", "over"}
BY JobsTyped DEF AfterTurn, GenerationTypeOK

\* A turn that has nothing, or gives back what it has, disturbs nobody.
LEMMA QuietStep ==
    ASSUME GenerationInv, NEW j \in Job,
           job'[j].pc \in {"idle", "queued", "cleaning", "over"},
           \A k \in Job : k # j => job'[k] = job[k],
           \A k \in Job : k # j /\ HoldsBarrier(k) => HoldsBarrier(k)',
           \A g \in Agent \X Revision : gen'[g].accepting = gen[g].accepting
                                       /\ gen'[g].drain = gen[g].drain,
           UNCHANGED <<managed, removed, applier, current>>
    PROVE  Safe'
<1> USE DEF GenerationInv
<1>1. job'[j].pc \notin Leasing \cup Preparing \cup {"deleting"}
      /\ \A k \in Job : k # j => job'[k] = job[k]
  BY DEF Leasing, Preparing
<1>2. PlaceInv' /\ ApplyInv'
  BY <1>1 DEF PlaceInv, ApplyInv, Preparing
<1>3. BarrierInv'
  BY <1>1 DEF BarrierInv
<1>4. DrainInv'
  BY DEF DrainInv
<1>5. \A g : Leases(g)' \subseteq Leases(g)
  BY <1>1 DEF Leases, GenOf
<1>6. PolicyOfGeneration'
  BY <1>1 DEF PolicyOfGeneration, GenerationsSound, Leasing
<1>7. TwoGenerations' /\ DrainedIsIdle'
  BY <1>5 DEF TwoGenerations, DrainedIsIdle, GenerationsSound
<1> QED BY <1>2, <1>3, <1>4, <1>6, <1>7 DEF Safe, GenerationsSound

\* The turns wait for each other: neither they nor the generations change.
LEMMA WaitingStep ==
    ASSUME GenerationInv, UNCHANGED <<barrier, job, gen, managed, applier, current, removed>>
    PROVE  Safe'
BY DEF GenerationInv, Safe, ApplyInv, PlaceInv, BarrierInv, HoldsBarrier, DrainInv, GenerationsSound,
       PolicyOfGeneration, TwoGenerations, DrainedIsIdle, Leases, GenOf

\* The steps of a turn.
LEMMA JobStepKeeps ==
    ASSUME GenerationInv, NEW j \in Job, JobStep(j)
    PROVE  Safe'
<1> USE DEF GenerationInv
<1>1. job[j] \in JobRow /\ job \in [Job -> JobRow] /\ DOMAIN job = Job
  BY DEF GenerationTypeOK, JobRow
<1>2. /\ \A g \in Agent \X Revision : PlacesLeft(j)[g].accepting = gen[g].accepting
                                     /\ PlacesLeft(j)[g].drain = gen[g].drain
      /\ \A k : k # j /\ HoldsBarrier(k) =>
            Leave(barrier, j) # <<>> /\ Head(Leave(barrier, j)) = k
  BY PlacesTyped, BarrierTyped
<1>3. CASE Prepare(j)
  <2>1. CASE ~Prepared(j)
    <3>1. job' = [job EXCEPT ![j] = JobOver] /\ barrier' = Leave(barrier, j)
          /\ UNCHANGED <<gen, managed, applier, current, removed>>
      BY <1>3, <2>1 DEF Prepare
    <3>2. \A k \in Job : k # j /\ HoldsBarrier(k) => HoldsBarrier(k)'
      BY <3>1, <1>2 DEF HoldsBarrier
    <3>3. job'[j].pc = "over" /\ \A k \in Job : k # j => job'[k] = job[k]
      BY <3>1, <1>1, JobsTyped
    <3> QED BY <3>1, <3>2, <3>3, QuietStep
  <2>2. CASE Prepared(j)
    <3>0. PICK next \in {"binding", "seeking"} :
                job' = [job EXCEPT ![j].pc = next, ![j].policy = managed[job[j].agent].active]
      BY <1>3, <2>2 DEF Prepare, AfterPolicy
    <3>1. /\ job' = [job EXCEPT ![j] =
                       [job[j] EXCEPT !.pc = next, !.policy = managed[job[j].agent].active]]
          /\ HoldsBarrier(j)
          /\ UNCHANGED <<barrier, gen, managed, applier, current, removed>>
      BY <1>3, <2>2, <1>1, <3>0 DEF Prepare
    <3>2. /\ job'[j].pc \in {"binding", "seeking"} /\ job'[j].policy = managed[job'[j].agent].active
          /\ \A k \in Job : k # j => job'[k] = job[k]
      BY <3>1, <1>1 DEF JobRow
    <3>3. \A g : Leases(g)' \subseteq Leases(g)
      BY <3>2 DEF Leases, GenOf, Leasing
    <3>4. PlaceInv' /\ ApplyInv' /\ DrainInv' /\ BarrierInv'
      BY <3>1, <3>2 DEF PlaceInv, ApplyInv, DrainInv, BarrierInv, Preparing, HoldsBarrier, Leasing
    <3>5. PolicyOfGeneration' /\ TwoGenerations' /\ DrainedIsIdle'
      BY <3>1, <3>2, <3>3
         DEF PolicyOfGeneration, TwoGenerations, DrainedIsIdle, GenerationsSound
    <3> QED BY <3>4, <3>5 DEF Safe, GenerationsSound
  <2> QED BY <2>1, <2>2
<1>4. CASE SeekPlace(j)
  <2> DEFINE a == managed[job[j].agent].active
             pc == WaitsFor[job[j].pc]
  <2>1. /\ a \in Revision /\ a # Absent /\ <<job[j].agent, a>> \in Agent \X Revision
        /\ job[j].pc \in {"binding", "seeking", "cleaning"}
    BY <1>4, <1>1, LeaseStages DEF SeekPlace, GenerationTypeOK, JobRow
  <2>9. pc \in {"joining", "waiting", "deleting"} /\ (pc \in Preparing => job[j].pc \in Preparing)
    BY <2>1, LeaseStages DEF Preparing
  <2>2. /\ job' = [job EXCEPT ![j] = [job[j] EXCEPT !.gen = a, !.pc = pc]]
        /\ gen' = [gen EXCEPT ![<<job[j].agent, a>>].places = Append(@, j)]
        /\ UNCHANGED <<barrier, managed, applier, current, removed>>
    BY <1>4, <1>1 DEF SeekPlace, KeepsBarrier
  <2>3. /\ job'[j].pc = pc /\ job'[j].gen = a /\ job'[j].policy = job[j].policy
        /\ job'[j].agent = job[j].agent
        /\ \A k \in Job : k # j => job'[k] = job[k]
    BY <2>2, <1>1 DEF JobRow
  <2>4. \A g \in Agent \X Revision : gen'[g].accepting = gen[g].accepting
                                     /\ gen'[g].drain = gen[g].drain
    BY ZenonT(30), <2>2, <2>1 DEF GenerationTypeOK
  <2> HIDE DEF a, pc
  <2>5. \A g : Leases(g)' \subseteq Leases(g)
    BY <2>3, <2>9 DEF Leases, GenOf, Leasing
  <2>6. PlaceInv' /\ ApplyInv' /\ DrainInv'
    BY <2>1, <2>2, <2>3, <2>4, <2>9 DEF PlaceInv, ApplyInv, DrainInv, Leasing
  <2>7. BarrierInv'
    BY <2>1, <2>2, <2>3, <2>9 DEF BarrierInv, HoldsBarrier
  <2>8. PolicyOfGeneration' /\ TwoGenerations' /\ DrainedIsIdle'
    BY <2>2, <2>3, <2>4, <2>5, <2>9
       DEF PolicyOfGeneration, TwoGenerations, DrainedIsIdle, GenerationsSound
  <2> QED BY <2>6, <2>7, <2>8 DEF Safe, GenerationsSound
<1>5. CASE SeekFails(j)
  <2>1. /\ job' = [job EXCEPT ![j] = JobOver]
        /\ UNCHANGED <<barrier, gen, managed, applier, current, removed>>
    BY <1>5 DEF SeekFails
  <2>2. job'[j].pc = "over" /\ \A k \in Job : k # j => job'[k] = job[k]
    BY <2>1, <1>1, JobsTyped
  <2> QED BY <2>1, <2>2, QuietStep DEF HoldsBarrier
<1>6. CASE TakePlace(j)
  <2>0. GenOf(j) \in Agent \X Revision
    BY <1>6, <1>1, LeaseStages DEF TakePlace, PlaceInv, GenOf, JobRow
  <2>1. CASE StillActive(j)
    <3> DEFINE pc == Gets[job[j].pc]
    <3>1. /\ job' = [job EXCEPT ![j] = [job[j] EXCEPT !.pc = pc]]
          /\ barrier' = IF job[j].pc = "joining" THEN barrier ELSE Leave(barrier, j)
          /\ UNCHANGED <<gen, managed, applier, current, removed>>
          /\ job[j].pc \in {"joining", "waiting", "deleting"}
      BY <1>6, <2>1, <1>1, LeaseStages DEF TakePlace, JobAt
    <3>11. /\ pc \in {"creating", "leased", "erasing"}
           /\ pc = "creating" <=> job[j].pc = "joining"
           /\ pc = "leased" <=> job[j].pc = "waiting"
      BY <3>1, LeaseStages
    <3>2. /\ job'[j].pc = pc /\ job'[j].gen = job[j].gen /\ job'[j].policy = job[j].policy
          /\ job'[j].agent = job[j].agent
          /\ \A k \in Job : k # j => job'[k] = job[k]
      BY <3>1, <1>1 DEF JobRow
    <3> HIDE DEF pc
    <3>3. /\ managed[job[j].agent].active = job[j].gen
          /\ gen[GenOf(j)].accepting
      BY <2>1 DEF StillActive
    <3>4. \A g : g # GenOf(j) => Leases(g)' \subseteq Leases(g)
      BY <3>2 DEF Leases, GenOf
    <3>5. PlaceInv' /\ ApplyInv' /\ DrainInv'
      BY <3>1, <3>2, <3>11 DEF PlaceInv, ApplyInv, DrainInv, Leasing
    <3>6. \A k \in Job : k # j /\ HoldsBarrier(k) => HoldsBarrier(k)'
      BY <3>1, <1>2 DEF HoldsBarrier
    <3>7. BarrierInv'
      <4>1. job'[j].pc \in Preparing => HoldsBarrier(j) /\ UNCHANGED barrier
        BY <3>1, <3>2, <3>11 DEF BarrierInv, Preparing
      <4> QED BY <3>1, <3>2, <3>6, <3>11, <4>1 DEF BarrierInv, HoldsBarrier, Preparing
    <3>8. PolicyOfGeneration'
      BY <3>1, <3>2, <3>3, <3>11 DEF PolicyOfGeneration, GenerationsSound, BarrierInv, Preparing
    <3>9. DrainedIsIdle'
      BY <3>1, <3>3, <3>4 DEF DrainedIsIdle, GenerationsSound, DrainInv
    <3>10. TwoGenerations'
      BY <3>1, <3>3, <3>4 DEF TwoGenerations, GenerationsSound, GenOf
    <3> QED BY <3>5, <3>7, <3>8, <3>9, <3>10 DEF Safe, GenerationsSound
  <2>2. CASE ~StillActive(j)
    <3> DEFINE pc == AsksAgain[job[j].pc]
    <3>1. /\ job' = [job EXCEPT ![j] = [job[j] EXCEPT !.gen = Absent, !.pc = pc]]
          /\ gen' = PlacesLeft(j)
          /\ UNCHANGED <<barrier, managed, applier, current, removed>>
          /\ job[j].pc \in DOMAIN Gets
      BY <1>6, <2>2, <1>1 DEF TakePlace
    <3>6. pc \in {"binding", "seeking", "cleaning"} /\ (pc \in Preparing => job[j].pc \in Preparing)
      BY <3>1, LeaseStages DEF Preparing
    <3>2. /\ job'[j].pc = pc /\ job'[j].policy = job[j].policy /\ job'[j].agent = job[j].agent
          /\ \A k \in Job : k # j => job'[k] = job[k]
      BY <3>1, <1>1 DEF JobRow
    <3> HIDE DEF pc
    <3>3. \A g : Leases(g)' \subseteq Leases(g)
      BY <3>2, <3>6 DEF Leases, GenOf, Leasing
    <3>4. PlaceInv' /\ ApplyInv' /\ DrainInv' /\ BarrierInv'
      BY <3>1, <3>2, <3>6, <1>2
         DEF PlaceInv, ApplyInv, DrainInv, BarrierInv, Preparing, HoldsBarrier, Leasing
    <3>5. PolicyOfGeneration' /\ TwoGenerations' /\ DrainedIsIdle'
      BY <3>1, <3>2, <3>3, <3>6, <1>2
         DEF PolicyOfGeneration, TwoGenerations, DrainedIsIdle, GenerationsSound
    <3> QED BY <3>4, <3>5 DEF Safe, GenerationsSound
  <2> QED BY <2>1, <2>2
<1>7. CASE StartTurn(j)
  <2>1. CASE gen[GenOf(j)].drain \in {"none", "asked"}
    <3>1. /\ job' = [job EXCEPT ![j] = [job[j] EXCEPT !.pc = "running"]] /\ job[j].pc = "leased"
          /\ UNCHANGED <<barrier, gen, managed, applier, current, removed>>
      BY <1>7, <2>1, <1>1 DEF StartTurn, JobAt
    <3>2. /\ job'[j].pc = "running" /\ job'[j].gen = job[j].gen /\ job'[j].policy = job[j].policy
          /\ job'[j].agent = job[j].agent
          /\ \A k \in Job : k # j => job'[k] = job[k]
      BY <3>1, <1>1 DEF JobRow
    <3>3. \A g : Leases(g)' \subseteq Leases(g)
      BY <3>1, <3>2 DEF Leases, GenOf, Leasing
    <3>4. PlaceInv' /\ ApplyInv' /\ DrainInv' /\ BarrierInv'
      BY <3>1, <3>2 DEF PlaceInv, ApplyInv, DrainInv, BarrierInv, Preparing, HoldsBarrier, Leasing
    <3>5. PolicyOfGeneration' /\ TwoGenerations' /\ DrainedIsIdle'
      BY <3>1, <3>2, <3>3
         DEF PolicyOfGeneration, TwoGenerations, DrainedIsIdle, GenerationsSound
    <3> QED BY <3>4, <3>5 DEF Safe, GenerationsSound
  <2>2. CASE gen[GenOf(j)].drain \notin {"none", "asked"}
    <3>1. /\ job' = [job EXCEPT ![j] = AfterTurn(j)] /\ gen' = PlacesLeft(j)
          /\ UNCHANGED <<barrier, managed, applier, current, removed>>
      BY <1>7, <2>2 DEF StartTurn
    <3>2. job'[j].pc \in {"cleaning", "over"} /\ \A k \in Job : k # j => job'[k] = job[k]
      BY <3>1, <1>1, AfterTurnIsQuiet
    <3> QED BY <3>1, <3>2, <1>2, QuietStep DEF HoldsBarrier
  <2> QED BY <2>1, <2>2
<1>8. CASE TurnOver(j)
  <2>1. /\ job' = [job EXCEPT ![j] = AfterTurn(j)] /\ gen' = PlacesLeft(j)
        /\ UNCHANGED <<barrier, managed, applier, current, removed>>
    BY <1>8 DEF TurnOver
  <2>2. job'[j].pc \in {"cleaning", "over"} /\ \A k \in Job : k # j => job'[k] = job[k]
    BY <2>1, <1>1, AfterTurnIsQuiet
  <2> QED BY <2>1, <2>2, <1>2, QuietStep DEF HoldsBarrier
<1>9. CASE SessionDeleted(j)
  <2>1. /\ job' = [job EXCEPT ![j] = JobOver] /\ gen' = PlacesLeft(j)
        /\ UNCHANGED <<barrier, managed, applier, current, removed>>
    BY <1>9 DEF SessionDeleted
  <2>2. job'[j].pc = "over" /\ \A k \in Job : k # j => job'[k] = job[k]
    BY <2>1, <1>1, JobsTyped
  <2> QED BY <2>1, <2>2, <1>2, QuietStep DEF HoldsBarrier
<1>10. CASE SessionCreated(j)
  <2>1. /\ job' = [job EXCEPT ![j] = [job[j] EXCEPT !.gen = Absent, !.pc = "seeking"]]
        /\ gen' = PlacesLeft(j) /\ job[j].pc = "creating"
        /\ UNCHANGED <<barrier, managed, applier, current, removed>>
    BY <1>10, <1>1 DEF SessionCreated, JobAt
  <2>2. /\ job'[j].pc = "seeking" /\ job'[j].policy = job[j].policy /\ job'[j].agent = job[j].agent
        /\ \A k \in Job : k # j => job'[k] = job[k]
    BY <2>1, <1>1 DEF JobRow
  <2>3. \A g : Leases(g)' \subseteq Leases(g)
    BY <2>2 DEF Leases, GenOf, Leasing
  <2>4. PlaceInv' /\ ApplyInv' /\ DrainInv' /\ BarrierInv'
    BY <2>1, <2>2, <1>2
       DEF PlaceInv, ApplyInv, DrainInv, BarrierInv, Preparing, HoldsBarrier, Leasing
  <2>5. PolicyOfGeneration' /\ TwoGenerations' /\ DrainedIsIdle'
    BY <2>1, <2>2, <2>3, <1>2
       DEF PolicyOfGeneration, TwoGenerations, DrainedIsIdle, GenerationsSound
  <2> QED BY <2>4, <2>5 DEF Safe, GenerationsSound
<1> QED BY <1>3, <1>4, <1>5, <1>6, <1>7, <1>8, <1>9, <1>10 DEF JobStep

\* The steps of what a running turn waits for.
LEMMA WaitStepKeeps ==
    ASSUME GenerationInv, NEW t \in Turn, WaitStep(t) \/ AskPublish(t) \/ UserTurn(t)
    PROVE  Safe'
<1> USE DEF GenerationInv
<1>1. job \in [Job -> JobRow] /\ Own(t) \in Job /\ Helper(t) \in Job
  BY JobsTyped DEF GenerationTypeOK, JobRow
<1>2. CASE HelpArrived(t) \/ AwaitCut(t) \/ PublishRefused(t) \/ AskPublish(t)
  BY <1>2, WaitingStep DEF HelpArrived, AwaitCut, PublishRefused, AskPublish
<1>3. CASE ReviewCut(t)
  <2> DEFINE j == Helper(t)
  <2>1. /\ barrier' = Leave(barrier, j)
        /\ gen' = gen \/ gen' = PlacesLeft(j)
        /\ \E after \in {JobOver, AfterTurn(j)} : job' = [job EXCEPT ![j] = after]
        /\ UNCHANGED <<managed, applier, current, removed>>
    BY <1>3 DEF ReviewCut, AfterCut
  <2>2. job'[j].pc \in {"cleaning", "over"} /\ \A k \in Job : k # j => job'[k] = job[k]
    BY <2>1, <1>1, AfterTurnIsQuiet, JobsTyped
  <2>3. \A k \in Job : k # j /\ HoldsBarrier(k) => HoldsBarrier(k)'
    BY <2>1, BarrierTyped DEF HoldsBarrier
  <2>4. \A g \in Agent \X Revision : gen'[g].accepting = gen[g].accepting
                                     /\ gen'[g].drain = gen[g].drain
    BY <2>1, <1>1, PlacesTyped
  <2> HIDE DEF j
  <2>5. j \in Job
    BY <1>1 DEF j
  <2> QED BY <2>1, <2>2, <2>3, <2>4, <2>5, QuietStep
<1>4. CASE UserTurn(t)
  <2> DEFINE j == Own(t)
  <2>1. /\ barrier' = Append(barrier, j)
        /\ job' = [job EXCEPT ![j] = [pc |-> "queued", agent |-> "user", policy |-> Absent,
                                     gen |-> Absent]]
        /\ UNCHANGED <<gen, managed, applier, current, removed>>
    BY <1>4 DEF UserTurn, Queue
  <2> HIDE DEF j
  <2>2. j \in Job
    BY <1>1 DEF j
  <2>3. job'[j].pc = "queued" /\ \A k \in Job : k # j => job'[k] = job[k]
    BY <2>1, <2>2, <1>1
  <2>4. \A k \in Job : k # j /\ HoldsBarrier(k) => HoldsBarrier(k)'
    BY <2>1, <2>2, JoiningQueue DEF HoldsBarrier, GenerationTypeOK
  <2> QED BY <2>1, <2>2, <2>3, <2>4, QuietStep
<1> QED BY <1>2, <1>3, <1>4 DEF WaitStep

LEMMA AskKeeps ==
    ASSUME GenerationInv, NEW t \in Turn, NEW what \in {"review", "child"}, Ask(t, what)
    PROVE  Safe'
<1> USE DEF GenerationInv
<1> DEFINE j == Helper(t)
<1>1. /\ barrier' = Append(barrier, j)
      /\ job'[j].pc = "queued" /\ \A k \in Job : k # j => job'[k] = job[k]
      /\ UNCHANGED <<gen, managed, applier, current, removed>>
  BY JobsTyped DEF Ask, Queue, GenerationTypeOK
<1> HIDE DEF j
<1>2. j \in Job
  BY JobsTyped DEF j
<1>3. \A k \in Job : k # j /\ HoldsBarrier(k) => HoldsBarrier(k)'
  BY <1>1, <1>2, JoiningQueue DEF HoldsBarrier, GenerationTypeOK
<1> QED BY <1>1, <1>2, <1>3, QuietStep

\* The steps of a configuration.
LEMMA ApplyKeeps ==
    ASSUME GenerationInv, NEW by, Apply(by)
    PROVE  Safe'
<1> USE DEF GenerationInv
<1>1. /\ barrier' = Append(barrier, Applier) /\ current < MaxApplies
      /\ UNCHANGED <<job, gen, managed, current, removed>>
  BY DEF Apply
<1>2. \A k : HoldsBarrier(k) => HoldsBarrier(k)'
  BY <1>1, JoiningQueue DEF HoldsBarrier, GenerationTypeOK
<1> QED BY <1>1, <1>2
        DEF Safe, ApplyInv, PlaceInv, BarrierInv, DrainInv, GenerationsSound,
            PolicyOfGeneration, TwoGenerations, DrainedIsIdle, Leases, GenOf

LEMMA ReplacingKeeps ==
    ASSUME GenerationInv, Replacing(Change)
    PROVE  Safe'
<1> USE DEF GenerationInv
<1>1. \A j \in Job : job[j].pc \notin Preparing
  BY JobsTyped DEF Replacing, HoldsBarrier, BarrierInv
<1>2. CASE ApplyFails
  BY <1>1, <1>2
     DEF ApplyFails, Safe, ApplyInv, PlaceInv, BarrierInv, DrainInv, GenerationsSound,
         PolicyOfGeneration, TwoGenerations, DrainedIsIdle, Leases, GenOf
<1>3. ASSUME NEW change \in Change, Replace(change)
      PROVE  Safe'
  <2>1. /\ UNCHANGED job /\ applier' = "nobody"
        /\ removed' = removed \cup {a \in Agent : change[a] = "drop"}
        /\ \A a \in Agent : change[a] = "new" => ~StillDraining(a)
    BY <1>3 DEF Replace
  <2>2. change \in [Agent -> {"keep", "new", "drop"}]
    BY DEF Change
  <2>3. \A a \in Agent :
          /\ change[a] = "keep" => managed'[a] = managed[a]
          /\ change[a] = "new" => managed'[a].draining = managed[a].active
    BY <1>3, <2>2 DEF Replace
  <2>4. \A g \in Agent \X Revision :
          \/ gen'[g] = gen[g]
          \/ ~gen'[g].accepting /\ gen'[g].drain = "asked"
    <3> DEFINE New(g) == [gen[g] EXCEPT !.accepting = FALSE, !.drain = "asked"]
    <3>1. \A g \in Agent \X Revision : gen'[g] \in {gen[g], New(g)}
      BY <1>3 DEF Replace
    <3>2. \A g \in Agent \X Revision : ~New(g).accepting /\ New(g).drain = "asked"
      <4> SUFFICES ASSUME NEW g \in Agent \X Revision PROVE ~New(g).accepting /\ New(g).drain = "asked"
        OBVIOUS
      <4>1. gen[g] \in GenRow
        BY DEF GenerationTypeOK, GenRow
      <4> QED BY <4>1 DEF GenRow
    <3> HIDE DEF New
    <3> QED BY <3>1, <3>2
  <2>5. PlaceInv' /\ ApplyInv' /\ BarrierInv'
    BY <2>1, <1>1 DEF PlaceInv, ApplyInv, BarrierInv
  <2>6. DrainInv'
    BY <2>4 DEF DrainInv
  <2>7. PolicyOfGeneration'
    BY <2>1 DEF PolicyOfGeneration, GenerationsSound
  <2>8. \A g : Leases(g)' = Leases(g)
    BY <2>1 DEF Leases, GenOf
  <2>9. DrainedIsIdle'
    BY <2>4, <2>8 DEF DrainedIsIdle, GenerationsSound
  <2>10. TwoGenerations'
    <3> SUFFICES ASSUME NEW a \in Agent \ removed', NEW r \in Revision', Leases(<<a, r>>)' # {}
                 PROVE  r \in {managed'[a].active, managed'[a].draining}
      BY DEF TwoGenerations
    <3>1. r \in Revision /\ a \in Agent \ removed /\ change[a] \in {"keep", "new"}
      BY <2>1, <2>2 DEF Revision
    <3>2. r \in {managed[a].active, managed[a].draining}
      BY <2>8, <3>1 DEF TwoGenerations, GenerationsSound
    <3>3. change[a] = "new" => r = managed[a].active
      BY <2>1, <2>8, <3>1, <3>2, GenerationAssumption DEF StillDraining, Revision, Absent
    <3> QED BY <2>3, <3>1, <3>2, <3>3
  <2> QED BY <2>5, <2>6, <2>7, <2>9, <2>10 DEF Safe, GenerationsSound
<1> QED BY <1>2, <1>3 DEF Replacing

LEMMA DrainingKeeps ==
    ASSUME GenerationInv, NEW g \in Agent \X Revision, Draining(g)
    PROVE  Safe'
<1> USE DEF GenerationInv
<1>1. /\ UNCHANGED <<barrier, job, applier, current, removed>>
      /\ gen[g].drain \in {"asked", "draining"}
      /\ \A h \in Agent \X Revision :
            /\ gen'[h].accepting = gen[h].accepting
            /\ h # g => gen'[h].drain = gen[h].drain
      /\ gen'[g].drain = "drained" => Leases(g) = {}
      /\ \A a \in Agent :
            /\ managed'[a].active = managed[a].active
            /\ managed'[a].draining # managed[a].draining =>
                  <<a, managed[a].draining>> = g /\ Leases(g) = {}
  <2>1. CASE DrainBegins(g)
    <3>1. /\ UNCHANGED <<barrier, job, managed, applier, current, removed>>
          /\ gen[g].drain = "asked" /\ gen' = [gen EXCEPT ![g].drain = "draining"]
      BY <2>1 DEF DrainBegins
    <3> QED BY <3>1 DEF GenerationTypeOK
  <2>2. CASE DrainEnds(g)
    <3>1. /\ UNCHANGED <<barrier, job, applier, current, removed>>
          /\ gen[g].drain = "draining" /\ Leases(g) = {}
          /\ gen' = [gen EXCEPT ![g].drain = "drained"]
          /\ managed' = [managed EXCEPT ![g[1]].draining = IF @ = g[2] THEN Absent ELSE @]
      BY <2>2 DEF DrainEnds
    <3>2. \A a \in Agent : /\ managed'[a].active = managed[a].active
                           /\ a # g[1] => managed'[a].draining = managed[a].draining
                           /\ managed[a].draining # g[2] =>
                                  managed'[a].draining = managed[a].draining
      BY <3>1 DEF GenerationTypeOK
    <3> QED BY <3>1, <3>2 DEF GenerationTypeOK
  <2> QED BY <2>1, <2>2 DEF Draining
<1>2. \A h : Leases(h)' = Leases(h)
  BY <1>1 DEF Leases, GenOf
<1>3. PlaceInv' /\ ApplyInv' /\ BarrierInv' /\ DrainInv'
  <2>1. BarrierInv'
    BY <1>1 DEF BarrierInv, HoldsBarrier, GenerationTypeOK
  <2> QED BY <1>1, <2>1 DEF PlaceInv, ApplyInv, DrainInv
<1>4. PolicyOfGeneration'
  BY <1>1 DEF PolicyOfGeneration, GenerationsSound
<1>5. DrainedIsIdle' /\ TwoGenerations'
  BY <1>1, <1>2 DEF DrainedIsIdle, TwoGenerations, GenerationsSound
<1> QED BY <1>3, <1>4, <1>5 DEF Safe, GenerationsSound

-----------------------------------------------------------------------------
(* Theorems *)

LEMMA InvInit == GenerationInit => GenerationInv
<1> SUFFICES ASSUME GenerationInit PROVE GenerationInv
  OBVIOUS
<1>1. GenerationTypeOK
  BY GenerationAssumption, JobsTyped, EmptySeq
     DEF GenerationInit, GenerationTypeOK, JobRow, Waits, Revision, Operator, Absent
<1>2. \A j \in Job : job[j].pc = "idle"
  BY JobsTyped DEF GenerationInit
<1>3. \A g : Leases(g) = {}
  BY <1>2 DEF Leases, Leasing
<1> QED BY <1>1, <1>2, <1>3
        DEF GenerationInit, GenerationInv, ApplyInv, PlaceInv, BarrierInv, DrainInv, Preparing, Leasing,
            GenerationsSound, PolicyOfGeneration, TwoGenerations, DrainedIsIdle

LEMMA InvStep == GenerationInv /\ [GenerationNext]_avars => GenerationInv'
<1> SUFFICES ASSUME GenerationInv, [GenerationNext]_avars PROVE GenerationInv'
  OBVIOUS
<1>1. GenerationTypeOK'
  BY TypeStep DEF GenerationInv
<1>2. Safe'
  <2>1. CASE \E j \in Job : JobStep(j)
    BY <2>1, JobStepKeeps
  <2>2. ASSUME NEW t \in Turn, WaitStep(t) \/ AskPublish(t) \/ UserTurn(t) PROVE Safe'
    BY <2>2, WaitStepKeeps
  <2>3. ASSUME NEW t \in Turn, Publishing(t) PROVE Safe'
    BY <2>3, ApplyKeeps DEF Publishing
  <2>4. ASSUME NEW t \in Turn, NEW what \in {"review", "child"}, Ask(t, what) PROVE Safe'
    BY <2>4, AskKeeps
  <2>5. CASE Apply(Operator)
    BY <2>5, ApplyKeeps
  <2>6. CASE Replacing(Change)
    BY <2>6, ReplacingKeeps
  <2>7. ASSUME NEW g \in Agent \X Revision, Draining(g) PROVE Safe'
    BY <2>7, DrainingKeeps
  <2>8. CASE UNCHANGED avars
    BY <2>8, WaitingStep DEF avars
  <2> QED BY <2>1, <2>2, <2>3, <2>4, <2>5, <2>6, <2>7, <2>8 DEF GenerationNext
<1> QED BY <1>1, <1>2 DEF GenerationInv, Safe

LEMMA InvHolds == GenerationSpec => []GenerationInv
BY InvInit, InvStep, PTL DEF GenerationSpec

\* The variables have their types: queues of turns, places, generations and who applies.
THEOREM GenerationTypeCorrect == GenerationSpec => []GenerationTypeOK
BY InvHolds, PTL DEF GenerationInv

\* Whatever is reviewed, delegated, published, replaced and drained, a turn runs on the
\* generation of its policy, an Agent is on two generations at most, and what has drained is
\* not used.
THEOREM GenerationsCorrect == GenerationSpec => []GenerationsSound
BY InvHolds, PTL DEF GenerationInv

=============================================================================
