-------------------------- MODULE Delegation_proofs --------------------------
(***************************************************************************)
(* Theorems about Delegation: types, and that staging fails closed, for    *)
(* any number of keys, any limits and any number of faults.                *)
(***************************************************************************)
EXTENDS Delegation, FiniteSetTheorems, TLAPS

Marked(k) == past[k] \cap {"cancelled", "kept"} # {}

LiveLinks == {l \in link : child[l] \in Live}

\* A link comes after the policy and with the artifacts; a child without one cannot run
\* unless it was touched.
LinkInv ==
    /\ adrift \subseteq link
    /\ link \subseteq policy
    /\ \A k \in link : k \in files \/ Marked(k) \/ child[k] = "over"
    /\ \A k \in Key : k \notin link => child[k] \in {"absent", "staged", "over"}
                                       \/ "touched" \in past[k]

\* What a spawn has established where it is.
SpawnInv ==
    LET k == spawn.key IN
    /\ spawn.pc \in {"creating", "recording", "linking"} => k \notin link
    /\ spawn.pc \in {"recording", "linking"} => k \in files
    /\ spawn.pc = "linking" => k \in policy
    /\ spawn.pc = "activating" => k \in link
    /\ spawn.pc \notin {"idle", "creating"} => child[k] # "absent"
    /\ spawn.pc = "cleaning" => Marked(k) \/ child[k] = "over"
    /\ core = "recovering" => spawn.pc = "idle"

\* The limit was tested before the spawn began, and nothing but a spawn adds a link.
LimitInv ==
    /\ Cardinality(LiveLinks) <= MaxParallelChildren
    /\ spawn.pc \in {"creating", "recording", "linking"} =>
          Cardinality(LiveLinks) < MaxParallelChildren

DInv == DelegationTypeOK /\ LinkInv /\ SpawnInv /\ LimitInv

-----------------------------------------------------------------------------
\* The initial state and every step keep the types.
LEMMA TypeInit == DelegationInit => DelegationTypeOK
  BY DelegationAssumption DEF DelegationInit, DelegationTypeOK, ChildState, SpawnPc, SpawnIdle, Past

LEMMA TypeStep == DelegationTypeOK /\ [DelegationNext]_dvars => DelegationTypeOK'
<1> SUFFICES ASSUME DelegationTypeOK, [DelegationNext]_dvars PROVE DelegationTypeOK'
  OBVIOUS
<1> USE DelegationAssumption DEF DelegationTypeOK, ChildState, SpawnPc, SpawnIdle, Past, Live,
        SpawnGoes, SpawnAt, Breaks, Activated, Cancelled
<1>1. CASE CreateChild \/ RecordPolicy \/ LinkChild \/ Activate
  BY <1>1 DEF CreateChild, RecordPolicy, LinkChild, Activate
<1>2. CASE CancelStaged \/ CancelStagedFails \/ CleanUp \/ SpawnStepFails
  BY <1>2 DEF CancelStaged, CancelStagedFails, CleanUp, SpawnStepFails
<1>3. ASSUME NEW committed \in BOOLEAN, CreateFails(committed) PROVE DelegationTypeOK'
  BY <1>3 DEF CreateFails
<1>4. ASSUME NEW k \in Key, SpawnAgain(k) \/ SpawnNew(k) \/ AdriftActivates(k)
      PROVE DelegationTypeOK'
  BY <1>4 DEF SpawnAgain, SpawnNew, AdriftActivates
<1>5. ASSUME NEW k \in Key, ClaimChild(k) \/ ChildEnds(k) \/ PauseChild(k) \/ ResumeChild(k)
      PROVE DelegationTypeOK'
  BY <1>5 DEF ClaimChild, ChildEnds, PauseChild, ResumeChild
<1>6. ASSUME NEW k \in Key, CancelChild(k) \/ RecoverStaged(k) PROVE DelegationTypeOK'
  BY <1>6 DEF CancelChild, RecoverStaged
<1>7. CASE DelegationCrash \/ CoreHasStarted
  BY <1>7 DEF DelegationCrash, CoreHasStarted
<1>8. CASE UNCHANGED dvars
  BY <1>8 DEF dvars
<1> QED
  BY <1>1, <1>2, <1>3, <1>4, <1>5, <1>6, <1>7, <1>8 DEF DelegationNext

\* The tables of delegation and the spawn in progress are type correct.
THEOREM DelegationTypeCorrect == DelegationSpec => []DelegationTypeOK
  BY TypeInit, TypeStep, PTL DEF DelegationSpec

-----------------------------------------------------------------------------
\* The invariant holds in the initial state, and every step keeps its parts.
LEMMA InvInit == DelegationInit => DInv
<1> SUFFICES ASSUME DelegationInit PROVE LinkInv /\ SpawnInv /\ LimitInv
  BY TypeInit DEF DInv
<1>1. LiveLinks = {}
  BY DEF DelegationInit, LiveLinks
<1>2. LimitInv
  BY <1>1, FS_EmptySet, DelegationAssumption DEF DelegationInit, LimitInv, SpawnIdle
<1>3. LinkInv /\ SpawnInv
  BY DEF DelegationInit, LinkInv, SpawnInv, SpawnIdle
<1> QED
  BY <1>2, <1>3

\* The steps of a spawn keep what links and the spawn itself promise.
LEMMA SpawnStepsKeep ==
  ASSUME DInv,
         \/ CreateChild \/ RecordPolicy \/ LinkChild \/ Activate \/ CancelStaged \/ CleanUp
         \/ SpawnStepFails \/ CancelStagedFails
         \/ \E committed \in BOOLEAN : CreateFails(committed)
  PROVE  LinkInv' /\ SpawnInv'
<1> USE DEF DInv, DelegationTypeOK, LinkInv, SpawnInv, Marked, ChildState, SpawnPc, SpawnIdle,
        Past, Live, SpawnGoes, SpawnAt, Breaks, Activated, Cancelled
<1>1. CASE CreateChild
  BY <1>1 DEF CreateChild
<1>2. CASE RecordPolicy
  BY <1>2 DEF RecordPolicy
<1>3. CASE LinkChild
  BY <1>3 DEF LinkChild
<1>4. CASE Activate
  BY <1>4 DEF Activate
<1>5. CASE CancelStaged
  BY <1>5 DEF CancelStaged
<1>6. CASE CleanUp
  BY <1>6 DEF CleanUp
<1>7. CASE SpawnStepFails
  BY <1>7 DEF SpawnStepFails
<1>8. CASE CancelStagedFails
  BY <1>8 DEF CancelStagedFails
<1>9. ASSUME NEW committed \in BOOLEAN, CreateFails(committed) PROVE LinkInv' /\ SpawnInv'
  BY <1>9 DEF CreateFails
<1> QED
  BY <1>1, <1>2, <1>3, <1>4, <1>5, <1>6, <1>7, <1>8, <1>9

\* So do the beginnings of a spawn, the executor, the clients, and recovery.
LEMMA OtherStepsKeep ==
  ASSUME DInv, NEW k \in Key,
         \/ SpawnAgain(k) \/ SpawnNew(k) \/ AdriftActivates(k)
         \/ ClaimChild(k) \/ ChildEnds(k) \/ PauseChild(k) \/ ResumeChild(k)
         \/ CancelChild(k) \/ RecoverStaged(k)
  PROVE  LinkInv' /\ SpawnInv'
<1> USE DEF DInv, DelegationTypeOK, LinkInv, SpawnInv, Marked, ChildState, SpawnPc, SpawnIdle,
        Past, Live, SpawnGoes, SpawnAt, Breaks, Activated, Cancelled
<1>1. CASE SpawnAgain(k)
  BY <1>1 DEF SpawnAgain
<1>2. CASE SpawnNew(k)
  BY <1>2 DEF SpawnNew
<1>3. CASE AdriftActivates(k)
  BY <1>3 DEF AdriftActivates
<1>4. CASE ClaimChild(k)
  BY <1>4 DEF ClaimChild
<1>5. CASE ChildEnds(k)
  BY <1>5 DEF ChildEnds
<1>6. CASE PauseChild(k)
  BY <1>6 DEF PauseChild
<1>7. CASE ResumeChild(k)
  BY <1>7 DEF ResumeChild
<1>8. CASE CancelChild(k)
  BY <1>8 DEF CancelChild
<1>9. CASE RecoverStaged(k)
  BY <1>9 DEF RecoverStaged, Complete
<1> QED
  BY <1>1, <1>2, <1>3, <1>4, <1>5, <1>6, <1>7, <1>8, <1>9

\* So do the death and the start of Core.
LEMMA CoreStepsKeep ==
  ASSUME DInv, DelegationCrash \/ CoreHasStarted \/ UNCHANGED dvars
  PROVE  LinkInv' /\ SpawnInv'
<1> USE DEF DInv, DelegationTypeOK, LinkInv, SpawnInv, Marked, ChildState, SpawnPc, SpawnIdle, Past
<1>1. CASE DelegationCrash
  BY <1>1 DEF DelegationCrash
<1>2. CASE CoreHasStarted
  BY <1>2 DEF CoreHasStarted
<1>3. CASE UNCHANGED dvars
  BY <1>3 DEF dvars
<1> QED
  BY <1>1, <1>2, <1>3

-----------------------------------------------------------------------------
\* Only linking makes one more child count, and only SpawnNew begins a spawn.
LEMMA OnlyLinkAdds ==
  ASSUME DInv, [DelegationNext]_dvars, ~LinkChild
  PROVE  LiveLinks' \subseteq LiveLinks
<1> USE DEF LiveLinks, DInv, DelegationTypeOK, SpawnInv, ChildState, Live, SpawnAt, Activated, Cancelled
<1>1. CASE CreateChild \/ \E committed \in BOOLEAN : CreateFails(committed)
  BY <1>1 DEF CreateChild, CreateFails
<1>2. CASE RecordPolicy \/ Activate \/ SpawnStepFails
  BY <1>2 DEF RecordPolicy, Activate, SpawnStepFails
<1>3. CASE CancelStaged \/ CancelStagedFails \/ CleanUp
  BY <1>3 DEF CancelStaged, CancelStagedFails, CleanUp
<1>4. ASSUME NEW k \in Key, SpawnAgain(k) \/ SpawnNew(k) \/ AdriftActivates(k)
      PROVE LiveLinks' \subseteq LiveLinks
  BY <1>4 DEF SpawnAgain, SpawnNew, AdriftActivates
<1>5. ASSUME NEW k \in Key, ClaimChild(k) \/ ChildEnds(k) \/ PauseChild(k) \/ ResumeChild(k)
      PROVE LiveLinks' \subseteq LiveLinks
  BY <1>5 DEF ClaimChild, ChildEnds, PauseChild, ResumeChild
<1>6. ASSUME NEW k \in Key, CancelChild(k) \/ RecoverStaged(k)
      PROVE LiveLinks' \subseteq LiveLinks
  BY <1>6 DEF CancelChild, RecoverStaged
<1>7. CASE DelegationCrash \/ CoreHasStarted
  BY <1>7 DEF DelegationCrash, CoreHasStarted
<1>8. CASE UNCHANGED dvars
  BY <1>8 DEF dvars
<1> QED
  BY <1>1, <1>2, <1>3, <1>4, <1>5, <1>6, <1>7, <1>8 DEF DelegationNext

Staging == {"creating", "recording", "linking"}

\* A spawn on its way to the link passed the test of the limits.
LEMMA StagingBegins ==
  ASSUME DInv, [DelegationNext]_dvars, spawn'.pc \in Staging, spawn.pc \notin Staging
  PROVE  Cardinality(LiveLinks) < MaxParallelChildren
<1> USE DEF Staging, DInv, DelegationTypeOK, SpawnIdle, SpawnAt, SpawnGoes, SpawnPc
<1>1. CASE CreateChild \/ \E committed \in BOOLEAN : CreateFails(committed)
  BY <1>1 DEF CreateChild, CreateFails
<1>2. CASE RecordPolicy \/ LinkChild \/ Activate \/ SpawnStepFails
  BY <1>2 DEF RecordPolicy, LinkChild, Activate, SpawnStepFails
<1>3. CASE CancelStaged \/ CancelStagedFails \/ CleanUp
  BY <1>3 DEF CancelStaged, CancelStagedFails, CleanUp
<1>4. ASSUME NEW k \in Key, SpawnNew(k) PROVE Cardinality(LiveLinks) < MaxParallelChildren
  BY <1>4 DEF SpawnNew, LiveLinks
<1>5. ASSUME NEW k \in Key, \/ SpawnAgain(k) \/ AdriftActivates(k) \/ ClaimChild(k) \/ ChildEnds(k)
                            \/ PauseChild(k) \/ ResumeChild(k) \/ CancelChild(k) \/ RecoverStaged(k)
      PROVE FALSE
  BY <1>5 DEF SpawnAgain, AdriftActivates, ClaimChild, ChildEnds, PauseChild, ResumeChild,
              CancelChild, RecoverStaged
<1>6. CASE DelegationCrash \/ CoreHasStarted \/ UNCHANGED dvars
  BY <1>6 DEF DelegationCrash, CoreHasStarted, dvars
<1> QED
  BY <1>1, <1>2, <1>3, <1>4, <1>5, <1>6 DEF DelegationNext

\* One more element, one more to count at most.
LEMMA OneMoreElement ==
  ASSUME NEW S, IsFiniteSet(S), NEW x
  PROVE  /\ IsFiniteSet(S \cup {x})
         /\ Cardinality(S \cup {x}) \in Nat
         /\ Cardinality(S \cup {x}) <= Cardinality(S) + 1
<1>1. Cardinality(S) \in Nat
  BY FS_CardinalityType
<1>2. /\ IsFiniteSet(S \cup {x})
      /\ Cardinality(S \cup {x}) = IF x \in S THEN Cardinality(S) ELSE Cardinality(S) + 1
  BY FS_AddElement, Zenon
<1> QED
  BY <1>1, <1>2

\* So the limit on live children holds, whatever fails.
LEMMA LimitKept == ASSUME DInv, [DelegationNext]_dvars PROVE LimitInv'
<1>1. IsFiniteSet(LiveLinks) /\ Cardinality(LiveLinks) \in Nat
  BY DelegationAssumption, FS_Subset, FS_CardinalityType DEF DInv, DelegationTypeOK, LiveLinks
<1>2. CASE LinkChild
  <2>1. spawn.pc = "linking" /\ spawn'.pc = "activating"
    BY <1>2 DEF LinkChild, SpawnAt, SpawnGoes, DInv, DelegationTypeOK
  <2>2. Cardinality(LiveLinks) < MaxParallelChildren
    BY <2>1 DEF DInv, LimitInv
  <2>3. LiveLinks' \subseteq LiveLinks \cup {spawn.key}
    BY <1>2 DEF LinkChild, LiveLinks
  <2>4. /\ IsFiniteSet(LiveLinks \cup {spawn.key})
        /\ Cardinality(LiveLinks \cup {spawn.key}) \in Nat
        /\ Cardinality(LiveLinks \cup {spawn.key}) <= Cardinality(LiveLinks) + 1
    BY <1>1, OneMoreElement
  <2>5. Cardinality(LiveLinks') \in Nat
        /\ Cardinality(LiveLinks') <= Cardinality(LiveLinks \cup {spawn.key})
    BY <2>3, <2>4, FS_Subset, FS_CardinalityType
  <2> QED
    BY <1>1, <2>1, <2>2, <2>4, <2>5, DelegationAssumption DEF LimitInv
<1>3. CASE ~LinkChild
  <2>1. /\ Cardinality(LiveLinks') \in Nat
        /\ Cardinality(LiveLinks') <= Cardinality(LiveLinks)
    BY <1>1, <1>3, OnlyLinkAdds, FS_Subset, FS_CardinalityType
  <2>2. spawn'.pc \in Staging => Cardinality(LiveLinks) < MaxParallelChildren
    BY StagingBegins DEF DInv, LimitInv, Staging
  <2> QED
    BY <1>1, <2>1, <2>2, DelegationAssumption DEF DInv, LimitInv, Staging
<1> QED
  BY <1>2, <1>3

LEMMA InvStep == DInv /\ [DelegationNext]_dvars => DInv'
<1> SUFFICES ASSUME DInv, [DelegationNext]_dvars PROVE DInv'
  OBVIOUS
<1>1. DelegationTypeOK'
  BY TypeStep DEF DInv
<1>2. LinkInv' /\ SpawnInv'
  BY SpawnStepsKeep, OtherStepsKeep, CoreStepsKeep DEF DelegationNext
<1> QED
  BY <1>1, <1>2, LimitKept DEF DInv

LEMMA InvFailsClosed == DInv => FailClosed
<1> SUFFICES ASSUME DInv PROVE FailClosed
  OBVIOUS
<1>1. ASSUME NEW k \in Key, MayRun(k)
      PROVE k \in link /\ k \in policy /\ (k \in files \/ Marked(k))
  BY <1>1 DEF DInv, LinkInv, MayRun
<1>2. {k \in Key : MayRun(k)} \subseteq LiveLinks
  BY <1>1 DEF LiveLinks, MayRun, Live
<1>3. IsFiniteSet(LiveLinks) /\ Cardinality(LiveLinks) \in Nat
  BY DelegationAssumption, FS_Subset, FS_CardinalityType DEF DInv, DelegationTypeOK, LiveLinks
<1>4. /\ Cardinality({k \in Key : MayRun(k)}) \in Nat
      /\ Cardinality({k \in Key : MayRun(k)}) <= Cardinality(LiveLinks)
  BY <1>2, <1>3, FS_Subset, FS_CardinalityType
<1>5. Cardinality({k \in Key : MayRun(k)}) <= MaxParallelChildren
  BY <1>3, <1>4, DelegationAssumption DEF DInv, LimitInv
<1> QED
  BY <1>1, <1>5 DEF FailClosed, Marked

\* Whatever step of spawn() fails and wherever Core dies, a child that may run has its
\* policy and its link, has its artifacts unless it was cancelled or could not be, and the
\* parent's limit on parallel children holds.
THEOREM FailsClosed == DelegationSpec => []FailClosed
  BY InvInit, InvStep, InvFailsClosed, PTL DEF DelegationSpec
=============================================================================
